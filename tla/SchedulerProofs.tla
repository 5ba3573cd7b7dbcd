--------------------------- MODULE SchedulerProofs ---------------------------
(***************************************************************************)
(* For any schedulers, clients, callers and pool sizes: sc_task only ever  *)
(* runs clients that are complete and were initialised exactly once.       *)
(***************************************************************************)
EXTENDS Scheduler, TLAPS

USE PoolAssumption, PeriodAssumption, MainAssumption, NullAssumption

-----------------------------------------------------------------------------
(* Types                                                                   *)

\* Slots of existing pools are slots, and a further pool adds PoolSize.
LEMMA PoolArithmetic ==
  ASSUME NEW p \in 0 .. MaxPools
  PROVE  /\ PoolSize * p \in Nat
         /\ PoolSize * p <= PoolSize * MaxPools
         /\ PoolSize * (p + 1) = PoolSize * p + PoolSize
         /\ p < MaxPools => PoolSize * p + PoolSize <= PoolSize * MaxPools
  <1>1. PoolSize * p \in Nat /\ PoolSize * (p + 1) = PoolSize * p + PoolSize
    OBVIOUS
  <1>2. \A a, b \in Nat : a <= b => PoolSize * a <= PoolSize * b
    OBVIOUS
  <1>3. PoolSize * p <= PoolSize * MaxPools
    BY <1>2
  <1>4. p < MaxPools => PoolSize * (p + 1) <= PoolSize * MaxPools
    BY <1>2
  <1> QED BY <1>1, <1>3, <1>4

\* A slot of an existing pool is a slot.
LEMMA AllocatedSlots ==
  ASSUME NEW s \in Scheds, pools \in [Scheds -> 0 .. MaxPools]
  PROVE  /\ Allocated(s) \subseteq Slots
         /\ Slots \subseteq Nat
         /\ PoolSize * pools[s] \in Nat
  <1>1. pools[s] \in 0 .. MaxPools
    OBVIOUS
  <1>2. PoolSize * pools[s] \in Nat /\ PoolSize * pools[s] <= PoolSize * MaxPools
    BY <1>1, PoolArithmetic
  <1>3. PoolSize * MaxPools \in Nat
    OBVIOUS
  <1> QED BY <1>2, <1>3 DEF Allocated, Slots

\* An update of one slot leaves the slots well typed and changes no other
\* slot.
LEMMA SlotUpdate ==
  ASSUME slots \in [Scheds -> [Slots -> SlotType]],
         NEW s \in Scheds, NEW i \in Slots, NEW v \in SlotType,
         slots' = [slots EXCEPT ![s][i] = v]
  PROVE  /\ slots' \in [Scheds -> [Slots -> SlotType]]
         /\ slots'[s][i] = v
         /\ \A t \in Scheds : \A j \in Slots :
              (t # s \/ j # i) => slots'[t][j] = slots[t][j]
  OBVIOUS

\* What each action that writes to a slot makes of the slots.
LEMMA RegisterSlot ==
  ASSUME NEW s \in Scheds, NEW cl \in Clients,
         slots \in [Scheds -> [Slots -> SlotType]],
         pools \in [Scheds -> 0 .. MaxPools],
         NEW i \in Free(s),
         slots' = [slots EXCEPT ![s][i] =
                     [init |-> cl, run |-> @.run, storage |-> @.storage]]
  PROVE  /\ i \in Slots
         /\ slots' \in [Scheds -> [Slots -> SlotType]]
         /\ slots'[s][i] = [init |-> cl, run |-> slots[s][i].run,
                            storage |-> slots[s][i].storage]
         /\ \A t \in Scheds : \A j \in Slots :
              (t # s \/ j # i) => slots'[t][j] = slots[t][j]
  <1>1. i \in Slots
    BY AllocatedSlots DEF Free
  <1>2. slots[s][i] \in SlotType
    BY <1>1
  <1> DEFINE v == [init |-> cl, run |-> slots[s][i].run,
                   storage |-> slots[s][i].storage]
  <1>3. v \in SlotType
    BY <1>2 DEF SlotType
  <1>4. slots' = [slots EXCEPT ![s][i] = v]
    OBVIOUS
  <1> HIDE DEF v
  <1>5. /\ slots' \in [Scheds -> [Slots -> SlotType]]
        /\ slots'[s][i] = v
        /\ \A t \in Scheds : \A j \in Slots :
             (t # s \/ j # i) => slots'[t][j] = slots[t][j]
    BY <1>1, <1>3, <1>4, SlotUpdate
  <1> QED BY <1>1, <1>5 DEF v

\* What the write of the run callback (scheduler.c:120) makes of the slots.
LEMMA RunSlot ==
  ASSUME NEW c \in Callers, register_set_run(c), TypeOK, InCall(c)
  PROVE  LET s == sched[c]  i == idx[c]  cl == client[c]
         IN /\ s \in Scheds /\ i \in Slots /\ cl \in Clients
            /\ slots' \in [Scheds -> [Slots -> SlotType]]
            /\ slots[s][i] = [init |-> cl, run |-> NULL, storage |-> NULL]
            /\ slots'[s][i] = [init |-> cl, run |-> cl, storage |-> NULL]
            /\ \A t \in Scheds : \A j \in Slots :
                 (t # s \/ j # i) => slots'[t][j] = slots[t][j]
  <1> DEFINE s == sched[c]
             i == idx[c]
             cl == client[c]
             v == [init |-> cl, run |-> cl, storage |-> NULL]
  <1>1. /\ s \in Scheds /\ i \in Slots /\ cl \in Clients
        /\ slots[s][i] = [init |-> cl, run |-> NULL, storage |-> NULL]
    BY DEF register_set_run, InCall
  <1>2. v \in SlotType
    BY <1>1 DEF SlotType
  <1>3. slots' = [slots EXCEPT ![s][i] = v]
    BY <1>1 DEF register_set_run
  <1>4. slots \in [Scheds -> [Slots -> SlotType]]
    BY DEF TypeOK
  <1> HIDE DEF v, s, i
  <1>5. /\ slots' \in [Scheds -> [Slots -> SlotType]]
        /\ slots'[s][i] = v
        /\ \A t \in Scheds : \A j \in Slots :
             (t # s \/ j # i) => slots'[t][j] = slots[t][j]
    BY <1>1, <1>2, <1>3, <1>4, SlotUpdate
  <1> QED BY <1>1, <1>5 DEF v, s, i

\* What the write of the storage pointer (scheduler.c:121) makes of the slots.
LEMMA StorageSlot ==
  ASSUME NEW c \in Callers, register_set_storage(c), TypeOK, InCall(c)
  PROVE  LET s == sched[c]  i == idx[c]  cl == client[c]
         IN /\ s \in Scheds /\ i \in Slots /\ cl \in Clients
            /\ slots' \in [Scheds -> [Slots -> SlotType]]
            /\ slots[s][i] = [init |-> cl, run |-> cl, storage |-> NULL]
            /\ slots'[s][i] = FullSlot(cl)
            /\ \A t \in Scheds : \A j \in Slots :
                 (t # s \/ j # i) => slots'[t][j] = slots[t][j]
  <1> DEFINE s == sched[c]
             i == idx[c]
             cl == client[c]
             v == FullSlot(cl)
  <1>1. /\ s \in Scheds /\ i \in Slots /\ cl \in Clients
        /\ slots[s][i] = [init |-> cl, run |-> cl, storage |-> NULL]
    BY DEF register_set_storage, InCall
  <1>2. v \in SlotType
    BY <1>1 DEF SlotType, FullSlot
  <1>3. slots' = [slots EXCEPT ![s][i] = v]
    BY <1>1 DEF register_set_storage, FullSlot
  <1>4. slots \in [Scheds -> [Slots -> SlotType]]
    BY DEF TypeOK
  <1> HIDE DEF v, s, i
  <1>5. /\ slots' \in [Scheds -> [Slots -> SlotType]]
        /\ slots'[s][i] = v
        /\ \A t \in Scheds : \A j \in Slots :
             (t # s \/ j # i) => slots'[t][j] = slots[t][j]
    BY <1>1, <1>2, <1>3, <1>4, SlotUpdate
  <1> QED BY <1>1, <1>5 DEF v, s, i

\* The first slot of the new pool; before it, all slots are taken.
LEMMA PoolSlot ==
  ASSUME NEW c \in Callers, register_add_pool(c), TypeOK, InCall(c),
         NEW s, s = sched[c], NEW i, i = PoolSize * pools[s],
         NEW cl, cl = client[c]
  PROVE  /\ s \in Scheds /\ i \in Slots /\ cl \in Clients
         /\ slots' \in [Scheds -> [Slots -> SlotType]]
         /\ slots'[s][i] = FullSlot(cl)
         /\ \A t \in Scheds : \A j \in Slots :
              (t # s \/ j # i) => slots'[t][j] = slots[t][j]
         /\ pools' \in [Scheds -> 0 .. MaxPools]
         /\ \A t \in Scheds : Allocated(t) \subseteq Allocated(t)'
         /\ i \in Allocated(s)' /\ i \notin Allocated(s)
         /\ \A j \in 0 .. (i - 1) : slots[s][j].init # NULL
  <1> DEFINE p == pools[s]
             v == FullSlot(cl)
  <1>1. /\ s \in Scheds /\ cl \in Clients
        /\ Free(s) = {}
        /\ pools \in [Scheds -> 0 .. MaxPools]
        /\ slots \in [Scheds -> [Slots -> SlotType]]
    BY DEF register_add_pool, InCall, TypeOK
  <1>2. p \in 0 .. MaxPools /\ p < MaxPools
    BY <1>1 DEF register_add_pool
  <1>b. i = PoolSize * p
    OBVIOUS
  <1> HIDE DEF p
  <1>3. /\ i \in Nat /\ i + PoolSize <= PoolSize * MaxPools
        /\ PoolSize * (p + 1) = i + PoolSize
    BY <1>2, <1>b, PoolArithmetic
  <1>a. i \in Slots
    BY <1>3, PoolSize * MaxPools \in Nat DEF Slots
  <1>4. pools' = [pools EXCEPT ![s] = p + 1]
    BY <1>1 DEF register_add_pool, p
  <1>5. pools' \in [Scheds -> 0 .. MaxPools] /\ pools'[s] = p + 1
        /\ \A t \in Scheds : t # s => pools'[t] = pools[t]
    BY <1>1, <1>2, <1>4
  <1>6. Allocated(s) = 0 .. (i - 1) /\ Allocated(s)' = 0 .. (i + PoolSize - 1)
    BY <1>3, <1>5, <1>b DEF Allocated, p
  <1>7. \A t \in Scheds : t # s => Allocated(t)' = Allocated(t)
    BY <1>5 DEF Allocated
  <1>8. v \in SlotType
    BY <1>1 DEF SlotType, FullSlot
  <1>9. slots' = [slots EXCEPT ![s][i] = v]
    BY <1>1 DEF register_add_pool, p
  <1>10. \A j \in 0 .. (i - 1) : slots[s][j].init # NULL
    BY <1>1, <1>6 DEF Free
  <1> HIDE DEF v
  <1>11. /\ slots' \in [Scheds -> [Slots -> SlotType]]
         /\ slots'[s][i] = v
         /\ \A t \in Scheds : \A j \in Slots :
              (t # s \/ j # i) => slots'[t][j] = slots[t][j]
    BY <1>1, <1>a, <1>8, <1>9, SlotUpdate
  <1>12. i \in Allocated(s)' /\ i \notin Allocated(s)
         /\ Allocated(s) \subseteq Allocated(s)'
    BY <1>3, <1>6
  <1>13. \A t \in Scheds : Allocated(t) \subseteq Allocated(t)'
    BY <1>7, <1>12
  <1> QED BY <1>1, <1>5, <1>a, <1>10, <1>11, <1>12, <1>13 DEF v

-----------------------------------------------------------------------------
(* Mutual exclusion and the facts it gives the steps of sc_init_clients    *)

\* While one caller is in a critical section no other is.
LEMMA AloneInside ==
  ASSUME MutexInv, NEW c \in Callers, pc[c] \in Critical,
         NEW d \in Callers, d # c
  PROVE  pc[d] \notin Critical
  BY DEF MutexInv

\* When the mutex is free nobody is in a critical section.
LEMMA NobodyInside ==
  ASSUME MutexInv, sc_mutex = NULL, NEW d \in Callers
  PROVE  pc[d] \notin Critical
  <1>1. d # NULL
    BY NullAssumption
  <1> QED BY <1>1 DEF MutexInv

\* The client sc_init_clients initialises next is complete, uninitialised,
\* and in the slot whose number is clients_initialized.
LEMMA NextDue ==
  ASSUME IInv, NEW c \in Callers, pc[c] = "clients",
         NEW s \in Scheds, NEW i \in Due(s), IsFirst(i, Due(s))
  PROVE  /\ i \in Slots /\ i \in Allocated(s)
         /\ i = clients_initialized[s]
         /\ \E cl \in Clients : slots[s][i] = FullSlot(cl) /\ inits[cl] = 0
  <1>1. /\ pools \in [Scheds -> 0 .. MaxPools]
        /\ slots \in [Scheds -> [Slots -> SlotType]]
        /\ clients_initialized[s] \in Nat
    BY DEF IInv, TypeOK
  <1>2. i \in Allocated(s) /\ i >= clients_initialized[s]
        /\ slots[s][i].init # NULL
    BY DEF Due
  <1>3. i \in Slots /\ i \in Nat
    BY <1>1, <1>2, AllocatedSlots
  <1>4. i = clients_initialized[s]
    <2>1. \A j \in 0 .. i : slots[s][j].init # NULL
      BY <1>2, <1>3 DEF IInv, FilledInOrder
    <2>2. clients_initialized[s] \in 0 .. i
      BY <1>1, <1>2, <1>3
    <2>3. clients_initialized[s] \in Allocated(s)
      BY <1>1, <1>2, <2>2, AllocatedSlots DEF Allocated
    <2>4. clients_initialized[s] \in Due(s)
      BY <1>1, <2>1, <2>2, <2>3 DEF Due
    <2>5. i <= clients_initialized[s]
      BY <2>4 DEF IsFirst
    <2> QED BY <1>1, <1>2, <1>3, <2>5
  <1>5. \A d \in Callers : ~ Registering(d) /\ pc[d] # "count"
    <2>1. MutexInv /\ pc[c] \in Critical
      BY DEF IInv, Critical
    <2>2. ~ Registering(c) /\ pc[c] # "count"
      BY DEF Registering
    <2>3. \A d \in Callers : d # c => pc[d] \notin Critical
      BY <2>1, AloneInside
    <2> QED BY <2>2, <2>3 DEF Registering, Critical
  <1>6. PICK cl \in Clients : slots[s][i] = FullSlot(cl)
    <2>1. slots[s][i] # EmptySlot
      BY <1>2 DEF EmptySlot
    <2> QED BY <1>3, <1>5, <2>1 DEF IInv, SlotInv
  <1>7. slots[s][i].init = cl
    BY <1>6 DEF FullSlot
  <1>8. inits[cl] = 0
    BY <1>2, <1>3, <1>5, <1>7 DEF IInv, CountInv
  <1> QED BY <1>2, <1>3, <1>4, <1>6, <1>8

\* What init_call does, in terms of that client.
LEMMA InitCallFacts ==
  ASSUME IInv, NEW c \in Callers, init_call(c)
  PROVE  \E s \in Scheds, i \in Slots, cl \in Clients :
           /\ pc[c] = "clients"
           /\ i \in Allocated(s)
           /\ i = clients_initialized[s]
           /\ slots[s][i] = FullSlot(cl)
           /\ inits[cl] = 0
           /\ inits' = [inits EXCEPT ![cl] = @ + 1]
           /\ init_period' = [init_period EXCEPT ![cl] = period_sec[s]]
           /\ client' = [client EXCEPT ![c] = cl]
           /\ idx' = [idx EXCEPT ![c] = i]
           /\ sched' = [sched EXCEPT ![c] = s]
           /\ pc' = [pc EXCEPT ![c] = "count"]
  <1> USE DEF init_call
  <1>1. PICK s \in Scheds :
          /\ \E i \in Due(s) :
               /\ IsFirst(i, Due(s))
               /\ inits' = [inits EXCEPT ![slots[s][i].init] = @ + 1]
               /\ init_period' =
                    [init_period EXCEPT ![slots[s][i].init] = period_sec[s]]
               /\ client' = [client EXCEPT ![c] = slots[s][i].init]
               /\ idx' = [idx EXCEPT ![c] = i]
          /\ pc[c] = "clients"
          /\ sched' = [sched EXCEPT ![c] = s]
          /\ pc' = [pc EXCEPT ![c] = "count"]
    BY Zenon
  <1> HIDE DEF init_call
  <1>2. PICK i \in Due(s) :
          /\ IsFirst(i, Due(s))
          /\ inits' = [inits EXCEPT ![slots[s][i].init] = @ + 1]
          /\ init_period' =
               [init_period EXCEPT ![slots[s][i].init] = period_sec[s]]
          /\ client' = [client EXCEPT ![c] = slots[s][i].init]
          /\ idx' = [idx EXCEPT ![c] = i]
    BY <1>1
  <1>3. /\ i \in Slots /\ i \in Allocated(s)
        /\ i = clients_initialized[s]
        /\ \E cl \in Clients : slots[s][i] = FullSlot(cl) /\ inits[cl] = 0
    BY <1>1, <1>2, NextDue
  <1>4. PICK cl \in Clients : slots[s][i] = FullSlot(cl) /\ inits[cl] = 0
    BY <1>3
  <1>5. slots[s][i].init = cl
    BY <1>4 DEF FullSlot
  <1> QED BY <1>1, <1>2, <1>3, <1>4, <1>5

-----------------------------------------------------------------------------
(* Types                                                                   *)

\* The types of the variables that most steps leave alone, in two groups.
ListType ==
  /\ sc_schedulers \in Seq(Scheds)
  /\ name \in [Scheds -> Names \cup {NULL}]
  /\ pools \in [Scheds -> 0 .. MaxPools]
  /\ slots \in [Scheds -> [Slots -> SlotType]]
  /\ clients_initialized \in [Scheds -> Nat]
  /\ period_sec \in [Scheds -> Int]
  /\ inits \in [Clients -> Nat]
  /\ init_period \in [Clients -> Int]

CallerType ==
  /\ sc_mutex \in Callers \cup {NULL}
  /\ sc_is_enabled \in BOOLEAN
  /\ pc \in [Callers -> PCs]
  /\ sched \in [Callers -> Scheds \cup {NULL}]
  /\ client \in [Callers -> Clients \cup {NULL}]
  /\ idx \in [Callers -> Nat]
  /\ place \in [Callers -> Nat]

TaskType ==
  /\ tpc \in [Scheds -> {"none", "wait", "check", "run"}]
  /\ left \in [Scheds -> Nat]
  /\ pos \in [Scheds -> Nat]
  /\ bit \in [Scheds -> BOOLEAN]
  /\ received \in [Scheds -> BOOLEAN]
  /\ val \in [Scheds -> BOOLEAN]

\* The type invariant, by the part of the program that owns the variables.
LEMMA TypeParts == TypeOK <=> ListType /\ CallerType /\ TaskType
  BY DEF TypeOK, ListType, CallerType, TaskType

\* A caller's step leaves the variables of the tasks well typed.
LEMMA CallerStepTaskType ==
  ASSUME TaskType, NEW c \in Callers, Call(c) \/ Continue(c), CallerInv
  PROVE  TaskType'
  <1>1. CASE sc_define_create(c)
    <2>1. sched[c] \in Scheds
      BY <1>1 DEF sc_define_create, CallerInv, InCall
    <2> QED BY <1>1, <2>1 DEF sc_define_create, TaskType, notifyVars
  <1>2. CASE UNCHANGED <<taskVars, notifyVars>>
    BY <1>2 DEF TaskType, taskVars, notifyVars
  <1>3. ~ sc_define_create(c) => UNCHANGED <<taskVars, notifyVars>>
    BY DEF Call, Continue, sc_define, sc_configure_source, sc_register_client,
       sc_init_clients, configure_set_period, sc_define_link, sc_define_fail,
       register_set_run, register_set_storage, register_add_pool,
       register_fail, init_no_period, init_sched, init_call, init_count,
       init_next_sched, init_done, sc_enable
  <1> QED BY <1>1, <1>2, <1>3

\* Entering a function of the API keeps the types of what callers own.
LEMMA CallType ==
  ASSUME IInv, NEW c \in Callers, Call(c)
  PROVE  ListType' /\ CallerType'
  <1>0. ListType /\ CallerType
    BY TypeParts DEF IInv
  <1> USE DEF CallerType, PCs, Take, Give, listVars, historyVars
  <1>1. ASSUME NEW s \in Scheds, NEW n \in Names, sc_define(c, s, n)
        PROVE  ListType' /\ CallerType'
    BY <1>0, <1>1 DEF sc_define, ListType
  <1>2. ASSUME NEW s \in Scheds, sc_configure_source(c, s)
        PROVE  ListType' /\ CallerType'
    BY <1>0, <1>2 DEF sc_configure_source, ListType
  <1>3. ASSUME NEW s \in Scheds, NEW cl \in Clients, sc_register_client(c, s, cl)
        PROVE  ListType' /\ CallerType'
    <2>1. CASE Free(s) = {}
      BY <1>0, <1>3, <2>1 DEF sc_register_client, ListType
    <2>2. CASE Free(s) # {}
      <3>1. PICK i \in Free(s) :
              /\ idx' = [idx EXCEPT ![c] = i]
              /\ slots' = [slots EXCEPT ![s][i] =
                    [init |-> cl, run |-> @.run, storage |-> @.storage]]
              /\ pc' = [pc EXCEPT ![c] = "set_run"]
        BY <1>3, <2>2 DEF sc_register_client
      <3>2. i \in Slots /\ slots' \in [Scheds -> [Slots -> SlotType]]
        BY <1>0, <3>1, RegisterSlot DEF ListType
      <3>3. i \in Nat
        BY <1>0, <3>2, AllocatedSlots DEF ListType
      <3>4. ListType'
        BY <1>0, <1>3, <3>2 DEF sc_register_client, ListType
      <3>5. CallerType'
        BY <1>0, <1>3, <3>1, <3>3 DEF sc_register_client
      <3> QED BY <3>4, <3>5
    <2> QED BY <2>1, <2>2
  <1>4. CASE sc_init_clients(c)
    BY <1>0, <1>4 DEF sc_init_clients, ListType
  <1> QED BY <1>1, <1>2, <1>3, <1>4 DEF Call

\* Every later step of an API call keeps the types of what callers own.
LEMMA ContinueType ==
  ASSUME IInv, NEW c \in Callers, Continue(c)
  PROVE  ListType' /\ CallerType'
  <1>0. ListType /\ CallerType /\ TypeOK /\ InCall(c)
    BY TypeParts DEF IInv, CallerInv
  <1> USE DEF CallerType, PCs, Take, Give, Return, listVars, historyVars
  <1>1. ASSUME NEW p \in Periods, configure_set_period(c, p)
        PROVE  ListType' /\ CallerType'
    BY <1>0, <1>1 DEF configure_set_period, ListType
  <1>2. CASE sc_define_create(c)
    BY <1>0, <1>2 DEF sc_define_create, ListType
  <1>3. CASE sc_define_link(c)
    <2>1. sched[c] \in Scheds
      BY <1>0, <1>3 DEF sc_define_link, InCall
    <2>2. sc_schedulers' \in Seq(Scheds)
      BY <1>0, <1>3, <2>1, <<sched[c]>> \in Seq(Scheds)
      DEF sc_define_link, ListType
    <2> QED BY <1>0, <1>3, <2>2 DEF sc_define_link, ListType
  <1>4. CASE sc_define_fail(c)
    BY <1>0, <1>4 DEF sc_define_fail, ListType
  <1>5. CASE register_set_run(c)
    <2>1. slots' \in [Scheds -> [Slots -> SlotType]]
      BY <1>0, <1>5, RunSlot
    <2>2. ListType'
      BY <1>0, <1>5, <2>1 DEF register_set_run, ListType
    <2> QED BY <1>0, <1>5, <2>2 DEF register_set_run
  <1>6. CASE register_set_storage(c)
    <2>1. slots' \in [Scheds -> [Slots -> SlotType]]
      BY <1>0, <1>6, StorageSlot
    <2>2. ListType'
      BY <1>0, <1>6, <2>1 DEF register_set_storage, ListType
    <2> QED BY <1>0, <1>6, <2>2 DEF register_set_storage
  <1>7. CASE register_add_pool(c)
    <2>1. /\ slots' \in [Scheds -> [Slots -> SlotType]]
          /\ pools' \in [Scheds -> 0 .. MaxPools]
      BY <1>0, <1>7, PoolSlot
    <2>2. ListType'
      BY <1>0, <1>7, <2>1 DEF register_add_pool, ListType
    <2> QED BY <1>0, <1>7, <2>2 DEF register_add_pool
  <1>8. CASE register_fail(c)
    BY <1>0, <1>8 DEF register_fail, ListType
  <1>9. CASE init_no_period(c)
    BY <1>0, <1>9 DEF init_no_period, ListType
  <1>10. CASE init_sched(c)
    BY <1>0, <1>10 DEF init_sched, ListType
  <1>11. CASE init_call(c)
    <2>1. PICK s \in Scheds, i \in Slots, cl \in Clients :
            /\ inits' = [inits EXCEPT ![cl] = @ + 1]
            /\ init_period' = [init_period EXCEPT ![cl] = period_sec[s]]
            /\ client' = [client EXCEPT ![c] = cl]
            /\ idx' = [idx EXCEPT ![c] = i]
            /\ sched' = [sched EXCEPT ![c] = s]
            /\ pc' = [pc EXCEPT ![c] = "count"]
      BY <1>11, InitCallFacts
    <2>2. i \in Nat
      BY <1>0, AllocatedSlots DEF ListType
    <2>3. inits' \in [Clients -> Nat] /\ init_period' \in [Clients -> Int]
      <3>1. /\ inits \in [Clients -> Nat] /\ init_period \in [Clients -> Int]
            /\ period_sec \in [Scheds -> Int]
        BY <1>0 DEF ListType
      <3> QED BY ONLY <2>1, <3>1
    <2>4. ListType'
      BY <1>0, <1>11, <2>3 DEF init_call, ListType
    <2>5. UNCHANGED <<sc_mutex, sc_is_enabled, place>>
      BY <1>11 DEF init_call
    <2> QED BY <1>0, <2>1, <2>2, <2>4, <2>5
  <1>12. CASE init_count(c)
    <2>1. clients_initialized' \in [Scheds -> Nat]
      BY <1>0, <1>12 DEF init_count, InCall, ListType
    <2>2. ListType'
      BY <1>0, <1>12, <2>1 DEF init_count, ListType
    <2> QED BY <1>0, <1>12, <2>2 DEF init_count
  <1>13. CASE init_next_sched(c)
    BY <1>0, <1>13 DEF init_next_sched, ListType
  <1>14. CASE init_done(c)
    BY <1>0, <1>14 DEF init_done, ListType
  <1>15. CASE sc_enable(c)
    BY <1>0, <1>15 DEF sc_enable, ListType
  <1> QED
    BY <1>1, <1>2, <1>3, <1>4, <1>5, <1>6, <1>7, <1>8, <1>9, <1>10, <1>11,
       <1>12, <1>13, <1>14, <1>15 DEF Continue

\* sc_trigger and the steps of sc_task.
LEMMA TaskStepType ==
  ASSUME TypeOK, NEW s \in Scheds, sc_trigger(s) \/ Task(s)
  PROVE  TypeOK'
  <1>0. ListType /\ CallerType /\ TaskType
    BY TypeParts
  <1>1. UNCHANGED <<sc_mutex, sc_is_enabled, clients_initialized, period_sec,
                    listVars, callerVars, historyVars>>
    BY DEF Task, sc_trigger, task_wait, task_check, task_run, task_end
  <1>2. ListType' /\ CallerType'
    BY <1>0, <1>1 DEF ListType, CallerType, listVars, callerVars, historyVars
  <1> USE DEF taskVars, notifyVars
  <1>3. CASE sc_trigger(s)
    <2>1. bit' \in [Scheds -> BOOLEAN] /\ received' \in [Scheds -> BOOLEAN]
      BY <1>0, <1>3, Zenon DEF sc_trigger, TaskType
    <2>2. TaskType'
      BY <1>0, <1>3, <2>1 DEF sc_trigger, TaskType
    <2> QED BY <1>2, <2>2 DEF TypeOK, ListType, CallerType, TaskType
  <1>4. CASE task_wait(s)
    <2>1. /\ bit' \in [Scheds -> BOOLEAN]
          /\ received' \in [Scheds -> BOOLEAN]
          /\ val' \in [Scheds -> BOOLEAN]
      BY <1>0, <1>4, Zenon DEF task_wait, TaskType
    <2>2. TaskType'
      BY <1>0, <1>4, <2>1 DEF task_wait, TaskType
    <2> QED BY <1>2, <2>2 DEF TypeOK, ListType, CallerType, TaskType
  <1>5. CASE task_check(s)
    <2>1. val' \in [Scheds -> BOOLEAN]
      BY <1>0, <1>5, Zenon DEF task_check, TaskType
    <2>2. clients_initialized[s] \in Nat
      BY <1>0 DEF ListType
    <2>3. left' \in [Scheds -> Nat] /\ pos' \in [Scheds -> Nat]
      BY <1>0, <1>5, <2>2 DEF task_check, TaskType
    <2>4. tpc' \in [Scheds -> {"none", "wait", "check", "run"}]
      BY <1>0, <1>5 DEF task_check, TaskType
    <2>5. TaskType'
      BY <1>0, <1>5, <2>1, <2>3, <2>4 DEF task_check, TaskType
    <2> QED BY <1>2, <2>5 DEF TypeOK, ListType, CallerType, TaskType
  <1>6. CASE task_run(s)
    <2>1. TaskType'
      BY <1>0, <1>6 DEF task_run, TaskType
    <2> QED BY <1>2, <2>1 DEF TypeOK, ListType, CallerType, TaskType
  <1>7. CASE task_end(s)
    <2>1. TaskType'
      BY <1>0, <1>7 DEF task_end, TaskType
    <2> QED BY <1>2, <2>1 DEF TypeOK, ListType, CallerType, TaskType
  <1> QED BY <1>3, <1>4, <1>5, <1>6, <1>7 DEF Task

\* Every step keeps the type invariant.
LEMMA NextType == IInv /\ [Next]_vars => TypeOK'
  <1> SUFFICES ASSUME IInv, [Next]_vars PROVE TypeOK'
    OBVIOUS
  <1>0. TypeOK /\ CallerInv /\ TaskType
    BY TypeParts DEF IInv
  <1>1. ASSUME NEW c \in Callers, Call(c) \/ Continue(c) PROVE TypeOK'
    <2>1. ListType' /\ CallerType' /\ TaskType'
      BY <1>0, <1>1, CallType, ContinueType, CallerStepTaskType
    <2> QED BY <2>1 DEF TypeOK, ListType, CallerType, TaskType
  <1>2. ASSUME NEW s \in Scheds, sc_trigger(s) \/ Task(s) PROVE TypeOK'
    BY <1>0, <1>2, TaskStepType
  <1>3. CASE UNCHANGED vars
    BY <1>0, <1>3 DEF TypeOK, vars
  <1> QED BY <1>1, <1>2, <1>3 DEF Next

-----------------------------------------------------------------------------
(* Mutual exclusion                                                        *)

\* A step that takes the mutex, gives it back or leaves it alone.
LEMMA MutexStep ==
  ASSUME MutexInv, pc \in [Callers -> PCs], NEW c \in Callers, NEW v,
         pc' = [pc EXCEPT ![c] = v],
         \/ sc_mutex = NULL /\ sc_mutex' = c /\ v \in Critical
         \/ pc[c] \in Critical /\ sc_mutex' = NULL /\ v \notin Critical
         \/ sc_mutex' = sc_mutex /\ (pc[c] \in Critical <=> v \in Critical)
  PROVE  MutexInv'
  <1>1. \A d \in Callers : d # NULL
    BY NullAssumption
  <1>2. pc'[c] = v /\ \A d \in Callers : d # c => pc'[d] = pc[d]
    OBVIOUS
  <1> QED BY <1>1, <1>2 DEF MutexInv

\* Every step of an API call keeps the mutex discipline: whoever is inside holds it.
LEMMA CallerStepMutex ==
  ASSUME TypeOK, MutexInv, NEW c \in Callers, Call(c) \/ Continue(c)
  PROVE  MutexInv'
  <1>0. pc \in [Callers -> PCs]
    BY DEF TypeOK
  <1> USE DEF Critical, Take, Give, Return
  <1>1. ASSUME NEW s \in Scheds, NEW n \in Names, sc_define(c, s, n)
        PROVE  MutexInv'
    BY <1>0, <1>1, MutexStep DEF sc_define
  <1>2. ASSUME NEW s \in Scheds, sc_configure_source(c, s)
        PROVE  MutexInv'
    BY <1>0, <1>2, MutexStep DEF sc_configure_source
  <1>3. ASSUME NEW s \in Scheds, NEW cl \in Clients, sc_register_client(c, s, cl)
        PROVE  MutexInv'
    BY <1>0, <1>3, MutexStep DEF sc_register_client
  <1>4. CASE sc_init_clients(c)
    BY <1>0, <1>4, MutexStep DEF sc_init_clients
  <1>5. ASSUME NEW p \in Periods, configure_set_period(c, p)
        PROVE  MutexInv'
    BY <1>0, <1>5, MutexStep DEF configure_set_period
  <1>6. CASE sc_define_create(c)
    BY <1>0, <1>6, MutexStep DEF sc_define_create
  <1>7. CASE sc_define_link(c)
    BY <1>0, <1>7, MutexStep DEF sc_define_link
  <1>8. CASE sc_define_fail(c)
    BY <1>0, <1>8, MutexStep DEF sc_define_fail
  <1>9. CASE register_set_run(c)
    BY <1>0, <1>9, MutexStep DEF register_set_run
  <1>10. CASE register_set_storage(c)
    BY <1>0, <1>10, MutexStep DEF register_set_storage
  <1>11. CASE register_add_pool(c)
    BY <1>0, <1>11, MutexStep DEF register_add_pool
  <1>12. CASE register_fail(c)
    BY <1>0, <1>12, MutexStep DEF register_fail
  <1>13. CASE init_no_period(c)
    <2>1. PICK v \in {"halted", "idle"} : pc' = [pc EXCEPT ![c] = v]
      BY <1>13 DEF init_no_period
    <2>2. pc[c] \in Critical /\ sc_mutex' = NULL /\ v \notin Critical
      BY <1>13, <2>1 DEF init_no_period
    <2> QED BY <1>0, <2>1, <2>2, MutexStep
  <1>14. CASE init_sched(c)
    BY <1>0, <1>14, MutexStep DEF init_sched
  <1>15. CASE init_call(c)
    BY <1>0, <1>15, MutexStep DEF init_call
  <1>16. CASE init_count(c)
    BY <1>0, <1>16, MutexStep DEF init_count
  <1>17. CASE init_next_sched(c)
    BY <1>0, <1>17, MutexStep DEF init_next_sched
  <1>18. CASE init_done(c)
    <2>1. PICK v \in {"ready", "idle"} : pc' = [pc EXCEPT ![c] = v]
      BY <1>18 DEF init_done
    <2>2. pc[c] \in Critical /\ sc_mutex' = NULL /\ v \notin Critical
      BY <1>18, <2>1 DEF init_done
    <2> QED BY <1>0, <2>1, <2>2, MutexStep
  <1>19. CASE sc_enable(c)
    BY <1>0, <1>19, MutexStep DEF sc_enable
  <1> QED
    BY <1>1, <1>2, <1>3, <1>4, <1>5, <1>6, <1>7, <1>8, <1>9, <1>10, <1>11,
       <1>12, <1>13, <1>14, <1>15, <1>16, <1>17, <1>18, <1>19
    DEF Call, Continue

-----------------------------------------------------------------------------
(* A scheduler's pass                                                      *)

\* A step of an API call does not disturb a pass of sc_task, which holds no mutex:
\* counts and registered slots only grow under it.
LEMMA CallerStepPass ==
  ASSUME IInv, NEW c \in Callers, Call(c) \/ Continue(c)
  PROVE  PassInv'
  <1>0. /\ PassInv /\ InCall(c)
        /\ tpc \in [Scheds -> {"none", "wait", "check", "run"}]
        /\ clients_initialized \in [Scheds -> Nat]
        /\ left \in [Scheds -> Nat] /\ pos \in [Scheds -> Nat]
    BY DEF IInv, TypeOK, CallerInv
  <1>1. /\ UNCHANGED <<left, pos>>
        /\ UNCHANGED tpc \/ sc_define_create(c)
        /\ UNCHANGED clients_initialized \/ init_count(c)
    BY DEF Call, Continue, sc_define, sc_configure_source, sc_register_client,
       sc_init_clients, configure_set_period, sc_define_create,
       sc_define_link, sc_define_fail, register_set_run, register_set_storage,
       register_add_pool, register_fail, init_no_period, init_sched, init_call,
       init_count, init_next_sched, init_done, sc_enable, taskVars
  <1>2. \A s \in Scheds : tpc'[s] = "run" => tpc[s] = "run"
    BY <1>0, <1>1 DEF sc_define_create
  <1>3. \A s \in Scheds : clients_initialized'[s] >= clients_initialized[s]
                         /\ clients_initialized'[s] \in Nat
    BY <1>0, <1>1 DEF init_count, InCall
  <1> QED BY <1>0, <1>1, <1>2, <1>3 DEF PassInv

\* A step of sc_task itself keeps the invariant of its pass.
LEMMA TaskStepPass ==
  ASSUME IInv, NEW s \in Scheds, sc_trigger(s) \/ Task(s)
  PROVE  PassInv'
  <1>0. /\ PassInv
        /\ tpc \in [Scheds -> {"none", "wait", "check", "run"}]
        /\ clients_initialized \in [Scheds -> Nat]
        /\ left \in [Scheds -> Nat] /\ pos \in [Scheds -> Nat]
    BY DEF IInv, TypeOK
  <1>1. CASE sc_trigger(s)
    BY <1>0, <1>1 DEF sc_trigger, taskVars, PassInv
  <1>2. CASE task_wait(s)
    BY <1>0, <1>2 DEF task_wait, PassInv
  <1>3. CASE task_check(s)
    BY <1>0, <1>3 DEF task_check, PassInv
  <1>4. CASE task_run(s)
    BY <1>0, <1>4 DEF task_run, PassInv
  <1>5. CASE task_end(s)
    BY <1>0, <1>5 DEF task_end, PassInv
  <1> QED BY <1>1, <1>2, <1>3, <1>4, <1>5 DEF Task

-----------------------------------------------------------------------------
(* Slots, counts and callers                                               *)

DataInv ==
  /\ SlotInv /\ FilledInOrder /\ OneSlot /\ CountInv /\ UnregisteredInv
  /\ CallerInv

\* The step leaves caller d where it is.
Untouched(d) ==
  pc'[d] = pc[d] /\ sched'[d] = sched[d] /\ client'[d] = client[d]
                 /\ idx'[d] = idx[d]

\* A caller that does not move keeps what it knows if nothing was written.
LEMMA UntouchedInCall ==
  ASSUME NEW d \in Callers, InCall(d), Untouched(d),
         UNCHANGED <<pools, slots, clients_initialized, inits>>
  PROVE  InCall(d)'
  <1>1. \A s : Free(s)' = Free(s)
    BY DEF Free, Allocated
  <1> QED BY <1>1 DEF InCall, Untouched

\* Outside the critical sections a caller knows nothing about slots.
LEMMA OutsideInCall ==
  ASSUME NEW d \in Callers, InCall(d), Untouched(d), pc[d] \notin Critical
  PROVE  InCall(d)'
  BY DEF InCall, Untouched, Critical

\* A step that writes to no slot and no count, by callers that are not in
\* the middle of a registration or an initialisation.
LEMMA QuietStep ==
  ASSUME DataInv, UNCHANGED <<pools, slots, clients_initialized, inits>>,
         \A d \in Callers :
           \/ Untouched(d)
           \/ pc[d] \notin {"set_run", "set_storage", "count"} /\ InCall(d)'
  PROVE  DataInv'
  <1>1. SlotInv'
    BY DEF DataInv, SlotInv, Registering, Untouched
  <1>2. FilledInOrder' /\ OneSlot' /\ UnregisteredInv'
    BY DEF DataInv, FilledInOrder, OneSlot, UnregisteredInv, Allocated
  <1>3. CountInv'
    BY DEF DataInv, CountInv, Allocated, Initialised, Untouched
  <1>4. CallerInv'
    BY UntouchedInCall DEF DataInv, CallerInv
  <1> QED BY <1>1, <1>2, <1>3, <1>4 DEF DataInv

\* The steps of an API call that write to no slot and no count keep the data invariant.
LEMMA QuietCallData ==
  ASSUME IInv, NEW c \in Callers,
         \/ \E s \in Scheds, n \in Names : sc_define(c, s, n)
         \/ \E s \in Scheds : sc_configure_source(c, s)
         \/ sc_init_clients(c)
         \/ \E p \in Periods : configure_set_period(c, p)
         \/ sc_define_create(c) \/ sc_define_link(c) \/ sc_define_fail(c)
         \/ register_fail(c) \/ init_no_period(c) \/ init_sched(c)
         \/ init_next_sched(c) \/ init_done(c) \/ sc_enable(c)
  PROVE  DataInv'
  <1>0. /\ DataInv /\ InCall(c)
        /\ pc \in [Callers -> PCs]
        /\ sched \in [Callers -> Scheds \cup {NULL}]
        /\ client \in [Callers -> Clients \cup {NULL}]
        /\ idx \in [Callers -> Nat]
    BY DEF IInv, TypeOK, DataInv, CallerInv
  <1> USE DEF Take, Give, Return, listVars, historyVars
  <1>1. UNCHANGED <<pools, slots, clients_initialized, inits>>
    BY DEF sc_define, sc_configure_source, sc_init_clients,
       configure_set_period, sc_define_create, sc_define_link, sc_define_fail,
       register_fail, init_no_period, init_sched, init_next_sched, init_done,
       sc_enable
  <1>2. \A d \in Callers : d # c => Untouched(d)
    BY <1>0 DEF sc_define, sc_configure_source, sc_init_clients,
       configure_set_period, sc_define_create, sc_define_link, sc_define_fail,
       register_fail, init_no_period, init_sched, init_next_sched, init_done,
       sc_enable, Untouched
  <1>3. pc[c] \notin {"set_run", "set_storage", "count"}
    BY DEF sc_define, sc_configure_source, sc_init_clients,
       configure_set_period, sc_define_create, sc_define_link, sc_define_fail,
       register_fail, init_no_period, init_sched, init_next_sched, init_done,
       sc_enable
  <1>4. \/ pc'[c] \in {"create", "link", "set_period"} /\ sched'[c] \in Scheds
        \/ pc'[c] \in {"idle", "walk", "clients", "halted", "ready", "done"}
    BY <1>0 DEF InCall, sc_define, sc_configure_source, sc_init_clients,
       configure_set_period, sc_define_create, sc_define_link, sc_define_fail,
       register_fail, init_no_period, init_sched, init_next_sched, init_done,
       sc_enable
  <1>5. InCall(c)'
    BY <1>4 DEF InCall
  <1> QED BY <1>0, <1>1, <1>2, <1>3, <1>5, QuietStep

\* sc_trigger and sc_task write to no slot and no count.
LEMMA TaskStepData ==
  ASSUME IInv, NEW s \in Scheds, sc_trigger(s) \/ Task(s)
  PROVE  DataInv' /\ MutexInv'
  <1>0. DataInv /\ MutexInv
    BY DEF IInv, DataInv
  <1>1. UNCHANGED <<pools, slots, clients_initialized, inits, sc_mutex,
                    callerVars>>
    BY DEF Task, sc_trigger, task_wait, task_check, task_run, task_end,
       listVars, historyVars
  <1>2. \A d \in Callers : Untouched(d)
    BY <1>1 DEF Untouched, callerVars
  <1>3. DataInv'
    BY <1>0, <1>1, <1>2, QuietStep
  <1>4. MutexInv'
    BY <1>0, <1>1 DEF MutexInv, callerVars
  <1> QED BY <1>3, <1>4

\* sc_register_client, up to the write of init or the decision to add a pool.
LEMMA RegisterData ==
  ASSUME IInv, NEW c \in Callers, NEW s \in Scheds, NEW cl \in Clients,
         sc_register_client(c, s, cl)
  PROVE  DataInv'
  <1>0. /\ DataInv /\ MutexInv /\ InCall(c)
        /\ pc \in [Callers -> PCs]
        /\ sched \in [Callers -> Scheds \cup {NULL}]
        /\ client \in [Callers -> Clients \cup {NULL}]
        /\ idx \in [Callers -> Nat]
        /\ slots \in [Scheds -> [Slots -> SlotType]]
        /\ pools \in [Scheds -> 0 .. MaxPools]
        /\ clients_initialized \in [Scheds -> Nat]
    BY DEF IInv, TypeOK, DataInv, CallerInv
  <1>1. /\ sc_mutex = NULL
        /\ pc[c] = "idle"
        /\ sched' = [sched EXCEPT ![c] = s]
        /\ client' = [client EXCEPT ![c] = cl]
        /\ \A t \in Scheds : \A i \in Slots : slots[t][i].init # cl
        /\ UNCHANGED <<pools, clients_initialized, inits>>
    BY DEF sc_register_client, Take, historyVars
  <1>2. \A d \in Callers : pc[d] \notin Critical
    BY <1>0, <1>1, NobodyInside
  <1>3. \A d \in Callers : d # c => Untouched(d)
    BY <1>0, <1>1 DEF sc_register_client, Untouched
  <1>4. CASE Free(s) = {}
    <2>1. UNCHANGED slots /\ pc' = [pc EXCEPT ![c] = "add_pool"]
      BY <1>4 DEF sc_register_client
    <2>2. Free(s)' = {}
      BY <1>1, <1>4, <2>1 DEF Free, Allocated
    <2>3. InCall(c)'
      BY <1>0, <1>1, <2>1, <2>2 DEF InCall
    <2> QED BY <1>0, <1>1, <1>3, <2>1, <2>3, QuietStep
  <1>5. CASE Free(s) # {}
    <2>1. PICK i \in Free(s) :
            /\ IsFirst(i, Free(s))
            /\ idx' = [idx EXCEPT ![c] = i]
            /\ slots' = [slots EXCEPT ![s][i] =
                  [init |-> cl, run |-> @.run, storage |-> @.storage]]
            /\ pc' = [pc EXCEPT ![c] = "set_run"]
      BY <1>5 DEF sc_register_client
    <2>2. /\ i \in Slots
          /\ slots'[s][i] = [init |-> cl, run |-> slots[s][i].run,
                             storage |-> slots[s][i].storage]
          /\ \A t \in Scheds : \A j \in Slots :
               (t # s \/ j # i) => slots'[t][j] = slots[t][j]
      <3>1. /\ slots \in [Scheds -> [Slots -> SlotType]]
            /\ pools \in [Scheds -> 0 .. MaxPools]
            /\ slots' = [slots EXCEPT ![s][i] =
                  [init |-> cl, run |-> @.run, storage |-> @.storage]]
        BY <1>0, <2>1
      <3> DEFINE v == [init |-> cl, run |-> slots[s][i].run,
                       storage |-> slots[s][i].storage]
      <3>2. i \in Slots
        BY <3>1, AllocatedSlots DEF Free
      <3>3. v \in SlotType /\ slots' = [slots EXCEPT ![s][i] = v]
        <4>1. slots[s][i] \in SlotType
          BY ONLY <3>1, <3>2, s \in Scheds
        <4>2. v \in SlotType
          BY ONLY <4>1, cl \in Clients DEF SlotType
        <4> QED BY <3>1, <4>2
      <3> HIDE DEF v
      <3>4. slots'[s][i] = v /\ \A t \in Scheds : \A j \in Slots :
              (t # s \/ j # i) => slots'[t][j] = slots[t][j]
        BY ONLY <3>1, <3>2, <3>3, SlotUpdate, s \in Scheds
      <3> QED BY <3>2, <3>4 DEF v
    <2>3. i \in Allocated(s) /\ slots[s][i].init = NULL
      BY DEF Free
    <2>4. \A t \in Scheds : \A j \in Slots :
            slots[t][j] = EmptySlot \/ \E k \in Clients : slots[t][j] = FullSlot(k)
      BY <1>0, <1>2 DEF DataInv, SlotInv, Registering, Critical
    <2>5. \A k \in Clients : FullSlot(k).init # NULL
      BY NullAssumption DEF FullSlot
    <2>6. slots[s][i] = EmptySlot
      BY <2>2, <2>3, <2>4, <2>5
    <2>7. slots'[s][i] = [init |-> cl, run |-> NULL, storage |-> NULL]
          /\ slots'[s][i].init = cl /\ cl # NULL
      BY <2>2, <2>6, NullAssumption DEF EmptySlot
    <2>8. pc'[c] = "set_run" /\ sched'[c] = s /\ idx'[c] = i /\ client'[c] = cl
      BY <1>0, <1>1, <2>1
    <2>9. \A t \in Scheds : Allocated(t)' = Allocated(t)
      BY <1>1 DEF Allocated
    <2>10. SlotInv'
      BY <2>2, <2>4, <2>8 DEF SlotInv, Registering
    <2>11. FilledInOrder'
      <3>1. \A j \in 0 .. i : j # i => slots[s][j].init # NULL
        <4> SUFFICES ASSUME NEW j \in 0 .. i, j # i, slots[s][j].init = NULL
                     PROVE  FALSE
          OBVIOUS
        <4>1. j \in Allocated(s) /\ j < i
          <5>1. \A n \in Int : i \in 0 .. n => j \in 0 .. n /\ j < i
            OBVIOUS
          <5>2. PoolSize * pools[s] - 1 \in Int /\ i \in 0 .. (PoolSize * pools[s] - 1)
            BY <1>0, <2>3, AllocatedSlots DEF Allocated
          <5> QED BY <5>1, <5>2 DEF Allocated
        <4>2. j \in Free(s)
          BY <4>1 DEF Free
        <4>3. i <= j
          BY <2>1, <4>2 DEF IsFirst
        <4> QED BY <1>0, <2>2, <4>1, <4>3, AllocatedSlots
      <3>2. \A j \in 0 .. i : j \in Slots
        BY <2>2 DEF Slots
      <3>3. \A j \in 0 .. i : slots'[s][j].init # NULL
        BY <2>2, <2>7, <3>1, <3>2
      <3>4. \A t \in Scheds : \A j \in Slots : \A k \in 0 .. j : k \in Slots
        BY DEF Slots
      <3>5. \A t \in Scheds : \A j \in Slots :
              slots[t][j].init # NULL => slots'[t][j].init # NULL
        BY <2>2, <2>3
      <3>6. ASSUME NEW t \in Scheds, NEW j \in Slots, slots'[t][j].init # NULL
            PROVE  /\ j \in Allocated(t)'
                   /\ \A k \in 0 .. j : slots'[t][k].init # NULL
        <4>1. CASE t = s /\ j = i
          BY <2>3, <2>9, <3>3, <4>1
        <4>2. CASE t # s \/ j # i
          <5>1. slots[t][j].init # NULL
            BY <2>2, <3>6, <4>2
          <5>2. j \in Allocated(t) /\ \A k \in 0 .. j : slots[t][k].init # NULL
            BY <1>0, <5>1 DEF DataInv, FilledInOrder
          <5> QED BY <2>9, <3>4, <3>5, <5>2
        <4> QED BY <4>1, <4>2
      <3> QED BY <3>6 DEF FilledInOrder
    <2>12. OneSlot'
      <3>1. \A t \in Scheds : \A j \in Slots :
              slots'[t][j].init =
                IF t = s /\ j = i THEN cl ELSE slots[t][j].init
        BY <2>2, <2>7
      <3>2. ASSUME NEW t \in Scheds, NEW u \in Scheds, NEW j \in Slots,
                   NEW k \in Slots, slots'[t][j].init # NULL,
                   slots'[t][j].init = slots'[u][k].init
            PROVE  t = u /\ j = k
        <4>1. CASE t = s /\ j = i
          BY <1>1, <3>1, <3>2, <4>1
        <4>2. CASE u = s /\ k = i
          BY <1>1, <3>1, <3>2, <4>2
        <4>3. CASE ~(t = s /\ j = i) /\ ~(u = s /\ k = i)
          <5>1. slots[t][j].init # NULL /\ slots[t][j].init = slots[u][k].init
            BY <3>1, <3>2, <4>3
          <5>2. OneSlot
            BY <1>0 DEF DataInv
          <5> QED BY <5>1, <5>2 DEF OneSlot
        <4> QED BY <4>1, <4>2, <4>3
      <3> QED BY <3>2 DEF OneSlot
    <2>13. CountInv'
      <3>1. inits[cl] = 0
        BY <1>0, <1>1 DEF DataInv, UnregisteredInv
      <3>2. ASSUME NEW t \in Scheds, NEW k \in 0 .. (clients_initialized'[t] - 1)
            PROVE  k \in Allocated(t)' /\ Initialised(t, k)'
        <4>1. k \in Allocated(t) /\ Initialised(t, k)
          BY <1>0, <1>1, <3>2 DEF DataInv, CountInv
        <4>2. k \in Slots
          BY <1>0, <4>1, AllocatedSlots
        <4>3. t # s \/ k # i
          BY <2>3, <2>5, <4>1 DEF Initialised
        <4>4. slots'[t][k] = slots[t][k]
          BY <2>2, <4>2, <4>3
        <4> QED BY <1>1, <2>9, <4>1, <4>4 DEF Initialised
      <3>3. ASSUME NEW t \in Scheds, NEW k \in Slots,
                   k >= clients_initialized'[t], slots'[t][k].init # NULL
            PROVE  inits'[slots'[t][k].init] = 0
        <4>1. CASE t = s /\ k = i
          BY <1>1, <2>7, <3>1, <4>1
        <4>2. CASE t # s \/ k # i
          <5>1. \A d \in Callers : pc[d] # "count"
            BY <1>2 DEF Critical
          <5>2. slots'[t][k] = slots[t][k]
            BY <2>2, <4>2
          <5> QED BY <1>0, <1>1, <3>3, <5>1, <5>2 DEF DataInv, CountInv
        <4> QED BY <4>1, <4>2
      <3> QED BY <3>2, <3>3 DEF CountInv
    <2>14. UnregisteredInv'
      <3> SUFFICES ASSUME NEW k \in Clients,
                          \A t \in Scheds : \A j \in Slots : slots'[t][j].init # k
                   PROVE  inits'[k] = 0
        BY DEF UnregisteredInv
      <3>1. \A t \in Scheds : \A j \in Slots : slots[t][j].init # k
        BY <2>2, <2>3, NullAssumption
      <3> QED BY <1>0, <1>1, <3>1 DEF DataInv, UnregisteredInv
    <2>15. CallerInv'
      <3>1. InCall(c)'
        BY <2>2, <2>7, <2>8 DEF InCall
      <3>2. \A d \in Callers : d # c => InCall(d)'
        BY <1>0, <1>2, <1>3, OutsideInCall DEF DataInv, CallerInv
      <3> QED BY <3>1, <3>2 DEF CallerInv
    <2> QED BY <2>10, <2>11, <2>12, <2>13, <2>14, <2>15 DEF DataInv
  <1> QED BY <1>4, <1>5

\* The later writes to a slot: no slot gets another client, and only the slot
\* of the registration, which is not complete yet, changes.
LEMMA FieldStep ==
  ASSUME DataInv, pools \in [Scheds -> 0 .. MaxPools],
         NEW s \in Scheds, NEW i \in Slots, NEW cl \in Clients,
         slots[s][i].init = cl, slots[s][i] # FullSlot(cl),
         slots'[s][i].init = cl,
         \A t \in Scheds : \A j \in Slots :
           (t # s \/ j # i) => slots'[t][j] = slots[t][j],
         UNCHANGED <<pools, clients_initialized, inits>>,
         \A d \in Callers : pc[d] # "count"
  PROVE  FilledInOrder' /\ OneSlot' /\ UnregisteredInv' /\ CountInv'
  <1>1. \A t \in Scheds : \A j \in Slots : slots'[t][j].init = slots[t][j].init
    OBVIOUS
  <1>2. \A t \in Scheds : Allocated(t)' = Allocated(t)
    BY DEF Allocated
  <1>3. FilledInOrder'
    <2>1. \A j \in Slots : \A k \in 0 .. j : k \in Slots
      BY DEF Slots
    <2>2. FilledInOrder
      BY DEF DataInv
    <2> QED BY <1>1, <1>2, <2>1, <2>2 DEF FilledInOrder
  <1>4. OneSlot'
    <2>1. OneSlot
      BY DEF DataInv
    <2> QED BY ONLY <1>1, <2>1 DEF OneSlot
  <1>5. UnregisteredInv'
    <2>1. UnregisteredInv
      BY DEF DataInv
    <2> QED BY <1>1, <2>1 DEF UnregisteredInv
  <1>6. CountInv'
    <2>0. CountInv
      BY DEF DataInv
    <2>1. ASSUME NEW t \in Scheds, NEW k \in 0 .. (clients_initialized'[t] - 1)
          PROVE  k \in Allocated(t)' /\ Initialised(t, k)'
      <3>1. k \in Allocated(t) /\ Initialised(t, k)
        BY <2>0, <2>1 DEF CountInv
      <3>2. k \in Slots
        BY <3>1, AllocatedSlots
      <3>3. t # s \/ k # i
        BY <3>1 DEF Initialised, FullSlot
      <3>4. slots'[t][k] = slots[t][k]
        BY <3>2, <3>3
      <3> QED BY <1>2, <3>1, <3>4 DEF Initialised
    <2>2. ASSUME NEW t \in Scheds, NEW k \in Slots,
                 k >= clients_initialized'[t], slots'[t][k].init # NULL
          PROVE  inits'[slots'[t][k].init] = 0
      BY <1>1, <2>0, <2>2 DEF CountInv
    <2> QED BY <2>1, <2>2 DEF CountInv
  <1> QED BY <1>3, <1>4, <1>5, <1>6

\* The second write of a registration (scheduler.c:120) keeps the data invariant.
LEMMA SetRunData ==
  ASSUME IInv, NEW c \in Callers, register_set_run(c)
  PROVE  DataInv'
  <1>0. /\ DataInv /\ MutexInv /\ InCall(c) /\ TypeOK
        /\ pc \in [Callers -> PCs]
        /\ pools \in [Scheds -> 0 .. MaxPools]
    BY DEF IInv, TypeOK, DataInv, CallerInv
  <1>1. PICK s, i, cl : s = sched[c] /\ i = idx[c] /\ cl = client[c]
    OBVIOUS
  <1>2. /\ s \in Scheds /\ i \in Slots /\ cl \in Clients
        /\ slots[s][i] = [init |-> cl, run |-> NULL, storage |-> NULL]
        /\ slots'[s][i] = [init |-> cl, run |-> cl, storage |-> NULL]
        /\ \A t \in Scheds : \A j \in Slots :
             (t # s \/ j # i) => slots'[t][j] = slots[t][j]
    BY <1>0, <1>1, RunSlot
  <1>3. /\ pc[c] = "set_run" /\ pc' = [pc EXCEPT ![c] = "set_storage"]
        /\ UNCHANGED <<pools, clients_initialized, inits, sched, client, idx>>
    BY DEF register_set_run, historyVars
  <1>4. \A d \in Callers : d # c => pc[d] \notin Critical
    BY <1>0, <1>3, AloneInside DEF Critical
  <1>5. \A d \in Callers : pc[d] # "count"
    BY <1>3, <1>4 DEF Critical
  <1>6. slots[s][i].init = cl /\ slots'[s][i].init = cl
        /\ slots[s][i] # FullSlot(cl)
    <2>1. slots[s][i].run = NULL /\ FullSlot(cl).run = cl
      BY <1>2 DEF FullSlot
    <2> QED BY <1>2, <2>1, NullAssumption
  <1>7. FilledInOrder' /\ OneSlot' /\ UnregisteredInv' /\ CountInv'
    BY <1>0, <1>2, <1>3, <1>5, <1>6, FieldStep
  <1>8. SlotInv'
    <2>1. pc'[c] = "set_storage" /\ sched'[c] = s /\ idx'[c] = i
      BY <1>0, <1>1, <1>3
    <2>2. ASSUME NEW t \in Scheds, NEW j \in Slots, t # s \/ j # i
          PROVE  \/ slots'[t][j] = EmptySlot
                 \/ \E k \in Clients : slots'[t][j] = FullSlot(k)
      <3>1. \A d \in Callers : Registering(d) => d = c
        BY <1>4 DEF Registering, Critical
      <3> QED BY <1>0, <1>1, <1>2, <2>2, <3>1 DEF DataInv, SlotInv
    <2> QED BY <2>1, <2>2 DEF SlotInv, Registering
  <1>9. CallerInv'
    <2>1. InCall(c)'
      BY <1>0, <1>1, <1>2, <1>3 DEF InCall
    <2>2. \A d \in Callers : d # c => Untouched(d)
      BY <1>0, <1>3 DEF Untouched
    <2> QED BY <1>0, <1>4, <2>1, <2>2, OutsideInCall DEF DataInv, CallerInv
  <1> QED BY <1>7, <1>8, <1>9 DEF DataInv

\* The third write of a registration (scheduler.c:121) completes the client and
\* keeps the data invariant.
LEMMA SetStorageData ==
  ASSUME IInv, NEW c \in Callers, register_set_storage(c)
  PROVE  DataInv'
  <1>0. /\ DataInv /\ MutexInv /\ InCall(c) /\ TypeOK
        /\ pc \in [Callers -> PCs]
        /\ sched \in [Callers -> Scheds \cup {NULL}]
        /\ client \in [Callers -> Clients \cup {NULL}]
        /\ idx \in [Callers -> Nat]
        /\ pools \in [Scheds -> 0 .. MaxPools]
    BY DEF IInv, TypeOK, DataInv, CallerInv
  <1>1. PICK s, i, cl : s = sched[c] /\ i = idx[c] /\ cl = client[c]
    OBVIOUS
  <1>2. /\ s \in Scheds /\ i \in Slots /\ cl \in Clients
        /\ slots[s][i] = [init |-> cl, run |-> cl, storage |-> NULL]
        /\ slots'[s][i] = FullSlot(cl)
        /\ \A t \in Scheds : \A j \in Slots :
             (t # s \/ j # i) => slots'[t][j] = slots[t][j]
    BY <1>0, <1>1, StorageSlot
  <1>3. /\ pc[c] = "set_storage" /\ pc' = [pc EXCEPT ![c] = "idle"]
        /\ sched' = [sched EXCEPT ![c] = NULL]
        /\ client' = [client EXCEPT ![c] = NULL]
        /\ idx' = [idx EXCEPT ![c] = 0]
        /\ UNCHANGED <<pools, clients_initialized, inits>>
    BY DEF register_set_storage, Return, historyVars
  <1>4. \A d \in Callers : d # c => pc[d] \notin Critical
    BY <1>0, <1>3, AloneInside DEF Critical
  <1>5. \A d \in Callers : pc[d] # "count"
    BY <1>3, <1>4 DEF Critical
  <1>6. slots[s][i].init = cl /\ slots'[s][i].init = cl
        /\ slots[s][i] # FullSlot(cl)
    <2>1. slots[s][i].storage = NULL /\ FullSlot(cl).storage = cl
          /\ FullSlot(cl).init = cl
      BY <1>2 DEF FullSlot
    <2> QED BY <1>2, <2>1, NullAssumption
  <1>7. FilledInOrder' /\ OneSlot' /\ UnregisteredInv' /\ CountInv'
    BY <1>0, <1>2, <1>3, <1>5, <1>6, FieldStep
  <1>8. SlotInv'
    <2>2. ASSUME NEW t \in Scheds, NEW j \in Slots, t # s \/ j # i
          PROVE  \/ slots'[t][j] = EmptySlot
                 \/ \E k \in Clients : slots'[t][j] = FullSlot(k)
      <3>1. \A d \in Callers : Registering(d) => d = c
        BY <1>4 DEF Registering, Critical
      <3> QED BY <1>0, <1>1, <1>2, <2>2, <3>1 DEF DataInv, SlotInv
    <2> QED BY <1>2, <2>2 DEF SlotInv
  <1>9. CallerInv'
    <2>1. InCall(c)'
      BY <1>0, <1>3 DEF InCall
    <2>2. \A d \in Callers : d # c => Untouched(d)
      BY <1>0, <1>3 DEF Untouched
    <2> QED BY <1>0, <1>4, <2>1, <2>2, OutsideInCall DEF DataInv, CallerInv
  <1> QED BY <1>7, <1>8, <1>9 DEF DataInv

\* Linking a new pool with its first client (scheduler.c:130-157) keeps the data invariant.
LEMMA AddPoolData ==
  ASSUME IInv, NEW c \in Callers, register_add_pool(c)
  PROVE  DataInv'
  <1>0. /\ DataInv /\ MutexInv /\ InCall(c) /\ TypeOK
        /\ pc \in [Callers -> PCs]
        /\ sched \in [Callers -> Scheds \cup {NULL}]
        /\ client \in [Callers -> Clients \cup {NULL}]
        /\ idx \in [Callers -> Nat]
        /\ pools \in [Scheds -> 0 .. MaxPools]
    BY DEF IInv, TypeOK, DataInv, CallerInv
  <1>1. PICK s, cl : s = sched[c] /\ cl = client[c]
    OBVIOUS
  <1>b. PICK i : i = PoolSize * pools[s]
    OBVIOUS
  <1>2. /\ s \in Scheds /\ i \in Slots /\ cl \in Clients
        /\ slots'[s][i] = FullSlot(cl)
        /\ \A t \in Scheds : \A j \in Slots :
             (t # s \/ j # i) => slots'[t][j] = slots[t][j]
        /\ \A t \in Scheds : Allocated(t) \subseteq Allocated(t)'
        /\ i \in Allocated(s)' /\ i \notin Allocated(s)
        /\ \A j \in 0 .. (i - 1) : slots[s][j].init # NULL
    BY <1>0, <1>1, <1>b, PoolSlot
  <1>3. /\ pc[c] = "add_pool" /\ pc' = [pc EXCEPT ![c] = "idle"]
        /\ sched' = [sched EXCEPT ![c] = NULL]
        /\ client' = [client EXCEPT ![c] = NULL]
        /\ idx' = [idx EXCEPT ![c] = 0]
        /\ UNCHANGED <<clients_initialized, inits>>
    BY DEF register_add_pool, Return, historyVars
  <1>4. \A d \in Callers : d # c => pc[d] \notin Critical
    BY <1>0, <1>3, AloneInside DEF Critical
  <1>5. \A d \in Callers : pc[d] # "count" /\ ~ Registering(d)
    BY <1>3, <1>4 DEF Critical, Registering
  <1>6. /\ slots'[s][i].init = cl /\ cl # NULL
        /\ slots[s][i].init = NULL
        /\ \A t \in Scheds : \A j \in Slots : slots[t][j].init # cl
    <2>1. slots'[s][i].init = cl
      BY <1>2 DEF FullSlot
    <2>2. slots[s][i].init = NULL
      BY <1>0, <1>2 DEF DataInv, FilledInOrder
    <2> QED BY <1>0, <1>1, <1>2, <1>3, <2>1, <2>2, NullAssumption DEF InCall
  <1>7. \A t \in Scheds : \A j \in Slots :
          slots'[t][j].init = IF t = s /\ j = i THEN cl ELSE slots[t][j].init
    BY <1>2, <1>6
  <1>8. SlotInv'
    BY <1>0, <1>2, <1>5 DEF DataInv, SlotInv
  <1>9. FilledInOrder'
    <2>1. \A j \in Slots : \A k \in 0 .. j : k \in Slots
      BY DEF Slots
    <2>2. i \in Nat
      BY <1>2 DEF Slots
    <2>3. ASSUME NEW t \in Scheds, NEW j \in Slots, slots'[t][j].init # NULL
          PROVE  /\ j \in Allocated(t)'
                 /\ \A k \in 0 .. j : slots'[t][k].init # NULL
      <3>1. CASE t = s /\ j = i
        <4>1. \A k \in 0 .. i : k = i \/ k \in 0 .. (i - 1)
          BY <2>2
        <4> QED BY <1>2, <1>6, <1>7, <2>1, <3>1, <4>1
      <3>2. CASE t # s \/ j # i
        <4>1. slots[t][j].init # NULL
          BY <1>7, <2>3, <3>2
        <4>2. j \in Allocated(t) /\ \A k \in 0 .. j : slots[t][k].init # NULL
          BY <1>0, <4>1 DEF DataInv, FilledInOrder
        <4> QED BY <1>2, <1>6, <1>7, <2>1, <4>2
      <3> QED BY <3>1, <3>2
    <2> QED BY <2>3 DEF FilledInOrder
  <1>10. OneSlot'
    <2>2. ASSUME NEW t \in Scheds, NEW u \in Scheds, NEW j \in Slots,
                 NEW k \in Slots, slots'[t][j].init # NULL,
                 slots'[t][j].init = slots'[u][k].init
          PROVE  t = u /\ j = k
      <3>1. CASE t = s /\ j = i
        BY <1>6, <1>7, <2>2, <3>1
      <3>2. CASE u = s /\ k = i
        BY <1>6, <1>7, <2>2, <3>2
      <3>3. CASE ~(t = s /\ j = i) /\ ~(u = s /\ k = i)
        <4>1. slots[t][j].init # NULL /\ slots[t][j].init = slots[u][k].init
          BY <1>7, <2>2, <3>3
        <4>2. OneSlot
          BY <1>0 DEF DataInv
        <4> QED BY <4>1, <4>2 DEF OneSlot
      <3> QED BY <3>1, <3>2, <3>3
    <2> QED BY <2>2 DEF OneSlot
  <1>11. CountInv'
    <2>0. CountInv /\ UnregisteredInv
      BY <1>0 DEF DataInv
    <2>1. ASSUME NEW t \in Scheds, NEW k \in 0 .. (clients_initialized'[t] - 1)
          PROVE  k \in Allocated(t)' /\ Initialised(t, k)'
      <3>1. k \in Allocated(t) /\ Initialised(t, k)
        BY <1>3, <2>0, <2>1 DEF CountInv
      <3>2. k \in Slots
        BY <1>0, <3>1, AllocatedSlots
      <3>3. t # s \/ k # i
        BY <1>2, <3>1
      <3>4. slots'[t][k] = slots[t][k]
        BY <1>2, <3>2, <3>3
      <3> QED BY <1>2, <1>3, <3>1, <3>4 DEF Initialised
    <2>2. ASSUME NEW t \in Scheds, NEW k \in Slots,
                 k >= clients_initialized'[t], slots'[t][k].init # NULL
          PROVE  inits'[slots'[t][k].init] = 0
      <3>1. inits[cl] = 0
        BY <1>2, <1>6, <2>0 DEF UnregisteredInv
      <3>2. CASE t = s /\ k = i
        BY <1>3, <1>7, <3>1, <3>2
      <3>3. CASE t # s \/ k # i
        BY <1>3, <1>5, <1>7, <2>0, <2>2, <3>3 DEF CountInv
      <3> QED BY <3>2, <3>3
    <2> QED BY <2>1, <2>2 DEF CountInv
  <1>12. UnregisteredInv'
    <2> SUFFICES ASSUME NEW k \in Clients,
                        \A t \in Scheds : \A j \in Slots : slots'[t][j].init # k
                 PROVE  inits'[k] = 0
      BY DEF UnregisteredInv
    <2>1. \A t \in Scheds : \A j \in Slots : slots[t][j].init # k
      BY <1>6, <1>7, NullAssumption
    <2> QED BY <1>0, <1>3, <2>1 DEF DataInv, UnregisteredInv
  <1>13. CallerInv'
    <2>1. InCall(c)'
      BY <1>0, <1>3 DEF InCall
    <2>2. \A d \in Callers : d # c => Untouched(d)
      BY <1>0, <1>3 DEF Untouched
    <2> QED BY <1>0, <1>4, <2>1, <2>2, OutsideInCall DEF DataInv, CallerInv
  <1> QED BY <1>8, <1>9, <1>10, <1>11, <1>12, <1>13 DEF DataInv

\* An init callback is called: the one client whose count changes is the one
\* the caller is about to count.
LEMMA InitCallData ==
  ASSUME IInv, NEW c \in Callers, init_call(c)
  PROVE  DataInv'
  <1>0. /\ DataInv /\ MutexInv /\ InCall(c)
        /\ pc \in [Callers -> PCs]
        /\ sched \in [Callers -> Scheds \cup {NULL}]
        /\ client \in [Callers -> Clients \cup {NULL}]
        /\ idx \in [Callers -> Nat]
        /\ pools \in [Scheds -> 0 .. MaxPools]
        /\ clients_initialized \in [Scheds -> Nat]
        /\ inits \in [Clients -> Nat]
    BY DEF IInv, TypeOK, DataInv, CallerInv
  <1>1. PICK s \in Scheds, i \in Slots, cl \in Clients :
          /\ pc[c] = "clients"
          /\ i \in Allocated(s)
          /\ i = clients_initialized[s]
          /\ slots[s][i] = FullSlot(cl)
          /\ inits[cl] = 0
          /\ inits' = [inits EXCEPT ![cl] = @ + 1]
          /\ client' = [client EXCEPT ![c] = cl]
          /\ idx' = [idx EXCEPT ![c] = i]
          /\ sched' = [sched EXCEPT ![c] = s]
          /\ pc' = [pc EXCEPT ![c] = "count"]
    BY InitCallFacts
  <1>2. UNCHANGED <<pools, slots, clients_initialized>>
    BY DEF init_call, listVars
  <1>3. \A d \in Callers : d # c => pc[d] \notin Critical
    BY <1>0, <1>1, AloneInside DEF Critical
  <1>4. \A d \in Callers : pc[d] # "count" /\ ~ Registering(d)
    BY <1>1, <1>3 DEF Critical, Registering
  <1>5. inits'[cl] = 1 /\ \A k \in Clients : k # cl => inits'[k] = inits[k]
    BY <1>0, <1>1
  <1>6. slots[s][i].init = cl /\ cl # NULL
    BY <1>1, NullAssumption DEF FullSlot
  <1>7. pc'[c] = "count" /\ sched'[c] = s /\ idx'[c] = i /\ client'[c] = cl
    BY <1>0, <1>1
  <1>8. \A t \in Scheds : \A j \in Slots :
          slots[t][j].init = cl => t = s /\ j = i
    <2>1. OneSlot
      BY <1>0 DEF DataInv
    <2> QED BY <1>6, <2>1 DEF OneSlot
  <1>9. SlotInv' /\ FilledInOrder' /\ OneSlot'
    <2>1. SlotInv'
      BY <1>0, <1>2, <1>4 DEF DataInv, SlotInv
    <2>2. FilledInOrder' /\ OneSlot'
      BY <1>0, <1>2 DEF DataInv, FilledInOrder, OneSlot, Allocated
    <2> QED BY <2>1, <2>2
  <1>10. CountInv'
    <2>0. CountInv
      BY <1>0 DEF DataInv
    <2>1. ASSUME NEW t \in Scheds, NEW k \in 0 .. (clients_initialized'[t] - 1)
          PROVE  k \in Allocated(t)' /\ Initialised(t, k)'
      <3>1. k \in Allocated(t) /\ Initialised(t, k)
        BY <1>2, <2>0, <2>1 DEF CountInv
      <3>2. k \in Slots
        BY <1>0, <3>1, AllocatedSlots
      <3>3. PICK x \in Clients : slots[t][k] = FullSlot(x) /\ inits[x] = 1
        BY <3>1 DEF Initialised
      <3>4. x # cl
        BY <1>1, <3>3
      <3>5. Initialised(t, k)'
        BY ONLY <1>2, <1>5, <3>3, <3>4 DEF Initialised
      <3> QED BY ONLY <1>2, <3>1, <3>5 DEF Allocated
    <2>2. ASSUME NEW t \in Scheds, NEW k \in Slots,
                 k >= clients_initialized'[t], slots'[t][k].init # NULL
          PROVE  \/ inits'[slots'[t][k].init] = 0
                 \/ \E d \in Callers : pc'[d] = "count" /\ sched'[d] = t
                                     /\ idx'[d] = k
      <3>1. CASE t = s /\ k = i
        BY <1>7, <3>1
      <3>2. CASE ~(t = s /\ k = i)
        <4>1. slots[t][k].init # cl
          BY <1>8, <3>2
        <4>2. slots[t][k].init \in Clients
          <5>1. slots \in [Scheds -> [Slots -> SlotType]]
            BY DEF IInv, TypeOK
          <5>2. slots[t][k] \in SlotType /\ slots[t][k].init # NULL
            BY ONLY <1>2, <2>2, <5>1, t \in Scheds, k \in Slots
          <5> QED BY ONLY <5>2 DEF SlotType
        <4>3. inits[slots[t][k].init] = 0
          BY <1>2, <1>4, <2>0, <2>2 DEF CountInv
        <4> QED BY <1>2, <1>5, <4>1, <4>2, <4>3
      <3> QED BY <3>1, <3>2
    <2> QED BY <2>1, <2>2 DEF CountInv
  <1>11. UnregisteredInv'
    BY <1>0, <1>2, <1>5, <1>6 DEF DataInv, UnregisteredInv
  <1>12. CallerInv'
    <2>1. InCall(c)'
      BY <1>1, <1>2, <1>5, <1>7 DEF InCall
    <2>2. \A d \in Callers : d # c => Untouched(d)
      BY <1>0, <1>1 DEF Untouched
    <2> QED BY <1>0, <1>3, <2>1, <2>2, OutsideInCall DEF DataInv, CallerInv
  <1> QED BY <1>9, <1>10, <1>11, <1>12 DEF DataInv

\* clients_initialized is incremented (scheduler.c:269) after its client's init callback:
\* the data invariant holds again for the caller.
LEMMA InitCountData ==
  ASSUME IInv, NEW c \in Callers, init_count(c)
  PROVE  DataInv'
  <1>0. /\ DataInv /\ MutexInv /\ InCall(c)
        /\ pc \in [Callers -> PCs]
        /\ sched \in [Callers -> Scheds \cup {NULL}]
        /\ client \in [Callers -> Clients \cup {NULL}]
        /\ idx \in [Callers -> Nat]
        /\ pools \in [Scheds -> 0 .. MaxPools]
        /\ clients_initialized \in [Scheds -> Nat]
    BY DEF IInv, TypeOK, DataInv, CallerInv
  <1>1. PICK s, i, cl : s = sched[c] /\ i = idx[c] /\ cl = client[c]
    OBVIOUS
  <1>2. /\ s \in Scheds /\ i \in Slots /\ cl \in Clients
        /\ i = clients_initialized[s] /\ i \in Nat
        /\ slots[s][i] = FullSlot(cl)
        /\ inits[cl] = 1
        /\ slots[s][i].init # NULL
    <2>1. /\ s \in Scheds /\ i \in Slots /\ cl \in Clients
          /\ i = clients_initialized[s]
          /\ slots[s][i] = FullSlot(cl)
          /\ inits[cl] = 1
      BY <1>0, <1>1 DEF init_count, InCall
    <2>2. FullSlot(cl).init # NULL
      BY <2>1, NullAssumption DEF FullSlot
    <2> QED BY <1>0, <2>1, <2>2
  <1>3. /\ pc[c] = "count"
        /\ pc' = [pc EXCEPT ![c] = "clients"]
        /\ sched' = [sched EXCEPT ![c] = NULL]
        /\ client' = [client EXCEPT ![c] = NULL]
        /\ idx' = [idx EXCEPT ![c] = 0]
        /\ clients_initialized' = [clients_initialized EXCEPT ![s] = i + 1]
        /\ UNCHANGED <<pools, slots, inits>>
    BY <1>1 DEF init_count, listVars, historyVars
  <1>4. \A d \in Callers : d # c => pc[d] \notin Critical
    BY <1>0, <1>3, AloneInside DEF Critical
  <1>5. \A d \in Callers : ~ Registering(d) /\ (pc[d] = "count" => d = c)
    BY <1>3, <1>4 DEF Critical, Registering
  <1>6. clients_initialized'[s] = i + 1
        /\ \A t \in Scheds : t # s => clients_initialized'[t] = clients_initialized[t]
    BY <1>0, <1>2, <1>3
  <1>7. SlotInv' /\ FilledInOrder' /\ OneSlot' /\ UnregisteredInv'
    <2>1. SlotInv'
      BY <1>0, <1>3, <1>5 DEF DataInv, SlotInv
    <2>2. FilledInOrder' /\ OneSlot' /\ UnregisteredInv'
      BY <1>0, <1>3 DEF DataInv, FilledInOrder, OneSlot, UnregisteredInv,
                        Allocated
    <2> QED BY <2>1, <2>2
  <1>8. CountInv'
    <2>0. CountInv
      BY <1>0 DEF DataInv
    <2>a. \A t \in Scheds : Allocated(t)' = Allocated(t)
      BY <1>3 DEF Allocated
    <2>b. \A t \in Scheds : \A k : Initialised(t, k)' = Initialised(t, k)
      BY <1>3 DEF Initialised
    <2>1. ASSUME NEW t \in Scheds, NEW k \in 0 .. (clients_initialized'[t] - 1)
          PROVE  k \in Allocated(t)' /\ Initialised(t, k)'
      <3>1. CASE t = s /\ k = i
        <4>1. i \in Allocated(s)
          BY <1>0, <1>2 DEF DataInv, FilledInOrder
        <4>2. Initialised(s, i)
          BY <1>2 DEF Initialised
        <4> QED BY <2>a, <2>b, <3>1, <4>1, <4>2
      <3>2. CASE ~(t = s /\ k = i)
        <4>1. k \in 0 .. (clients_initialized[t] - 1)
          BY <1>0, <1>2, <1>6, <2>1, <3>2
        <4> QED BY <2>0, <2>a, <2>b, <4>1 DEF CountInv
      <3> QED BY <3>1, <3>2
    <2>2. ASSUME NEW t \in Scheds, NEW k \in Slots,
                 k >= clients_initialized'[t], slots'[t][k].init # NULL
          PROVE  inits'[slots'[t][k].init] = 0
      <3>1. k \in Nat
        BY DEF Slots
      <3>2. k >= clients_initialized[t] /\ ~(t = s /\ k = i)
        BY <1>0, <1>2, <1>6, <2>2, <3>1
      <3>3. ~ \E d \in Callers : pc[d] = "count" /\ sched[d] = t /\ idx[d] = k
        BY <1>1, <1>5, <3>2
      <3> QED BY <1>3, <2>0, <2>2, <3>2, <3>3 DEF CountInv
    <2> QED BY <2>1, <2>2 DEF CountInv
  <1>9. CallerInv'
    <2>1. InCall(c)'
      BY <1>0, <1>3 DEF InCall
    <2>2. \A d \in Callers : d # c => Untouched(d)
      BY <1>0, <1>3 DEF Untouched
    <2> QED BY <1>0, <1>4, <2>1, <2>2, OutsideInCall DEF DataInv, CallerInv
  <1> QED BY <1>7, <1>8, <1>9 DEF DataInv

-----------------------------------------------------------------------------
(* The inductive invariant                                                 *)

\* The state after sc_init satisfies the inductive invariant.
LEMMA InitIInv == Init => IInv
  <1> SUFFICES ASSUME Init PROVE IInv
    OBVIOUS
  <1>1. EmptySlot \in SlotType /\ EmptySlot.init = NULL
    BY DEF EmptySlot, SlotType
  <1>2. ListType
    BY <1>1 DEF Init, ListType
  <1>3. CallerType
    BY DEF Init, CallerType, PCs
  <1>4. TaskType
    BY DEF Init, TaskType
  <1>5. \A s \in Scheds : \A i \in Slots :
          slots[s][i] = EmptySlot /\ slots[s][i].init = NULL
    BY <1>1 DEF Init
  <1>6. MutexInv
    BY NullAssumption DEF Init, MutexInv, Critical
  <1>7. SlotInv /\ FilledInOrder /\ OneSlot
    BY <1>5 DEF SlotInv, FilledInOrder, OneSlot
  <1>8. CountInv
    BY <1>5 DEF Init, CountInv
  <1>9. UnregisteredInv /\ CallerInv /\ PassInv
    BY DEF Init, UnregisteredInv, CallerInv, InCall, PassInv
  <1> QED BY <1>2, <1>3, <1>4, <1>6, <1>7, <1>8, <1>9, TypeParts DEF IInv

\* Every step of callers, interrupt sources and scheduler tasks keeps the inductive invariant.
LEMMA NextIInv == IInv /\ [Next]_vars => IInv'
  <1> SUFFICES ASSUME IInv, [Next]_vars PROVE IInv'
    OBVIOUS
  <1>0. TypeOK'
    BY NextType
  <1>1. ASSUME NEW c \in Callers, Call(c) \/ Continue(c)
        PROVE  MutexInv' /\ DataInv' /\ PassInv'
    <2>1. DataInv'
      BY <1>1, QuietCallData, RegisterData, SetRunData, SetStorageData,
         AddPoolData, InitCallData, InitCountData DEF Call, Continue
    <2>2. TypeOK /\ MutexInv
      BY DEF IInv
    <2> QED BY <1>1, <2>1, <2>2, CallerStepMutex, CallerStepPass
  <1>2. ASSUME NEW s \in Scheds, sc_trigger(s) \/ Task(s)
        PROVE  MutexInv' /\ DataInv' /\ PassInv'
    BY <1>2, TaskStepData, TaskStepPass
  <1>3. ASSUME UNCHANGED vars
        PROVE  MutexInv' /\ DataInv' /\ PassInv'
    <2>1. DataInv /\ MutexInv /\ PassInv
      BY DEF IInv, DataInv
    <2>2. \A d \in Callers : Untouched(d)
      BY <1>3 DEF vars, Untouched
    <2>3. DataInv'
      BY <1>3, <2>1, <2>2, QuietStep DEF vars
    <2> QED BY <1>3, <2>1, <2>3 DEF vars, MutexInv, PassInv
  <1>4. MutexInv' /\ DataInv' /\ PassInv'
    BY <1>1, <1>2, <1>3 DEF Next
  <1> QED BY <1>0, <1>4 DEF IInv, DataInv

\* The inductive invariant holds in every reachable state of the scheduler.
THEOREM Invariance == Spec => []IInv
  <1>1. IInv /\ [Next]_vars => IInv'
    BY NextIInv
  <1> QED BY <1>1, InitIInv, PTL DEF Spec

-----------------------------------------------------------------------------
(* What follows from it                                                    *)

\* Every variable of the scheduler keeps its type, whatever the callers do.
THEOREM TypeCorrect == Spec => []TypeOK
  <1>1. IInv => TypeOK
    BY DEF IInv
  <1> QED BY <1>1, Invariance, PTL

\* sc_task: "all clients reached is properly initialized".  For any number of
\* callers, schedulers, clients and pools, and wherever they interleave.
THEOREM RunsOnlyInitialised == Spec => []RunsInitialisedOnly
  <1>1. IInv => RunsInitialisedOnly
    <2> SUFFICES ASSUME IInv, NEW s \in Scheds, tpc[s] = "run", left[s] > 0,
                        pos[s] \in Allocated(s)
                 PROVE  Initialised(s, pos[s])
      BY DEF RunsInitialisedOnly
    <2>1. /\ pos[s] \in Nat /\ left[s] \in Nat /\ clients_initialized[s] \in Nat
          /\ pos[s] + left[s] <= clients_initialized[s]
      BY DEF IInv, TypeOK, PassInv
    <2>2. pos[s] \in 0 .. (clients_initialized[s] - 1)
      BY <2>1
    <2> QED BY <2>2 DEF IInv, CountInv
  <1> QED BY <1>1, Invariance, PTL

\* A pass of sc_task never runs out of pools before it has run every client
\* that was initialised when it began.
THEOREM PassesComplete == Spec => []PassReachesAllClients
  <1>1. IInv => PassReachesAllClients
    <2> SUFFICES ASSUME IInv, NEW s \in Scheds, tpc[s] = "run",
                        NEW i \in pos[s] .. (pos[s] + left[s] - 1)
                 PROVE  i \in Allocated(s)
      BY DEF PassReachesAllClients
    <2>1. /\ pos[s] \in Nat /\ left[s] \in Nat /\ clients_initialized[s] \in Nat
          /\ pos[s] + left[s] <= clients_initialized[s]
      BY DEF IInv, TypeOK, PassInv
    <2>2. i \in 0 .. (clients_initialized[s] - 1)
      BY <2>1
    <2> QED BY <2>2 DEF IInv, CountInv
  <1> QED BY <1>1, Invariance, PTL

\* However often and by whomever sc_init_clients is called, the init callback
\* of a client is called at most once.
THEOREM InitialisedOnce == Spec => []InitAtMostOnce
  <1>1. IInv => InitAtMostOnce
    <2> SUFFICES ASSUME IInv, NEW cl \in Clients PROVE inits[cl] <= 1
      BY DEF InitAtMostOnce
    <2>1. CASE \A s \in Scheds : \A i \in Slots : slots[s][i].init # cl
      <3>1. inits[cl] = 0
        BY <2>1 DEF IInv, UnregisteredInv
      <3> QED BY <3>1
    <2>2. ASSUME NEW s \in Scheds, NEW i \in Slots, slots[s][i].init = cl
          PROVE  inits[cl] = 0 \/ inits[cl] = 1
      <3>0. /\ clients_initialized[s] \in Nat /\ i \in Nat /\ cl # NULL
        BY NullAssumption DEF IInv, TypeOK, Slots
      <3>1. CASE i < clients_initialized[s]
        <4>1. i \in 0 .. (clients_initialized[s] - 1)
          BY <3>0, <3>1
        <4>2. Initialised(s, i)
          BY <4>1 DEF IInv, CountInv
        <4> QED BY <2>2, <4>2 DEF Initialised, FullSlot
      <3>2. CASE i >= clients_initialized[s]
        <4>1. \/ inits[cl] = 0
              \/ \E c \in Callers : pc[c] = "count" /\ sched[c] = s /\ idx[c] = i
          BY <2>2, <3>0, <3>2 DEF IInv, CountInv
        <4>2. ASSUME NEW c \in Callers, pc[c] = "count", sched[c] = s, idx[c] = i
              PROVE  inits[cl] = 1
          <5>1. slots[s][i] = FullSlot(client[c]) /\ inits[client[c]] = 1
            BY <4>2 DEF IInv, CallerInv, InCall
          <5> QED BY <2>2, <5>1 DEF FullSlot
        <4> QED BY <4>1, <4>2
      <3> QED BY <3>0, <3>1, <3>2
    <2>3. (\E s \in Scheds : \E i \in Slots : slots[s][i].init = cl)
            => inits[cl] = 0 \/ inits[cl] = 1
      BY <2>2
    <2> QED BY <2>1, <2>3
  <1> QED BY <1>1, Invariance, PTL

-----------------------------------------------------------------------------
(* Registrations                                                           *)

\* The step takes no slot away from the client registered there.
Kept ==
  \A s \in Scheds : \A i \in Slots :
    slots[s][i].init # NULL => slots'[s][i].init = slots[s][i].init

\* No step takes a slot away: sc_register_client writes to a free one, or to
\* one past the pools that exist.
LEMMA NextKept == IInv /\ [Next]_vars => Kept
  <1> USE DEF Kept
  <1> SUFFICES ASSUME IInv, [Next]_vars PROVE Kept
    OBVIOUS
  <1>0. TypeOK /\ \A c \in Callers : InCall(c)
    BY DEF IInv, CallerInv
  <1>1. ASSUME NEW c \in Callers, NEW s \in Scheds, NEW cl \in Clients,
               sc_register_client(c, s, cl)
        PROVE  Kept
    <2>1. CASE UNCHANGED slots
      BY <2>1
    <2>2. ASSUME NEW i \in Free(s),
                 slots' = [slots EXCEPT ![s][i] =
                   [init |-> cl, run |-> @.run, storage |-> @.storage]]
          PROVE  Kept
      <3>1. slots \in [Scheds -> [Slots -> SlotType]]
            /\ pools \in [Scheds -> 0 .. MaxPools]
        BY <1>0 DEF TypeOK
      <3>2. \A t \in Scheds : \A j \in Slots :
              (t # s \/ j # i) => slots'[t][j] = slots[t][j]
        BY ONLY <2>2, <3>1, RegisterSlot, s \in Scheds, cl \in Clients,
                i \in Free(s)
      <3>3. slots[s][i].init = NULL
        BY DEF Free
      <3> QED BY <3>2, <3>3
    <2> QED BY <1>1, <2>1, <2>2 DEF sc_register_client
  <1>2. ASSUME NEW c \in Callers, register_set_run(c) PROVE Kept
    <2>1. PICK s, i, cl : s = sched[c] /\ i = idx[c] /\ cl = client[c]
      OBVIOUS
    <2>2. /\ slots[s][i] = [init |-> cl, run |-> NULL, storage |-> NULL]
          /\ slots'[s][i] = [init |-> cl, run |-> cl, storage |-> NULL]
          /\ \A t \in Scheds : \A j \in Slots :
               (t # s \/ j # i) => slots'[t][j] = slots[t][j]
      BY <1>0, <1>2, <2>1, RunSlot
    <2>3. slots[s][i].init = cl /\ slots'[s][i].init = cl
      BY <2>2
    <2> QED BY <2>2, <2>3
  <1>3. ASSUME NEW c \in Callers, register_set_storage(c) PROVE Kept
    <2>1. PICK s, i, cl : s = sched[c] /\ i = idx[c] /\ cl = client[c]
      OBVIOUS
    <2>2. /\ slots[s][i] = [init |-> cl, run |-> cl, storage |-> NULL]
          /\ slots'[s][i] = FullSlot(cl)
          /\ \A t \in Scheds : \A j \in Slots :
               (t # s \/ j # i) => slots'[t][j] = slots[t][j]
      BY <1>0, <1>3, <2>1, StorageSlot
    <2>3. slots[s][i].init = cl /\ slots'[s][i].init = cl
      BY <2>2 DEF FullSlot
    <2> QED BY <2>2, <2>3
  <1>4. ASSUME NEW c \in Callers, register_add_pool(c) PROVE Kept
    <2>1. PICK s, cl : s = sched[c] /\ cl = client[c]
      OBVIOUS
    <2>2. PICK i : i = PoolSize * pools[s]
      OBVIOUS
    <2>3. /\ s \in Scheds /\ i \in Slots /\ i \notin Allocated(s)
          /\ \A t \in Scheds : \A j \in Slots :
               (t # s \/ j # i) => slots'[t][j] = slots[t][j]
      BY <1>0, <1>4, <2>1, <2>2, PoolSlot
    <2>4. slots[s][i].init = NULL
      BY <2>3 DEF IInv, FilledInOrder
    <2> QED BY <2>3, <2>4
  <1>5. ASSUME UNCHANGED slots PROVE Kept
    BY <1>5
  <1>6. ASSUME NEW c \in Callers, Call(c) PROVE Kept
    BY <1>1, <1>5, <1>6 DEF Call, sc_define, sc_configure_source,
       sc_init_clients, listVars
  <1>7. ASSUME NEW c \in Callers, Continue(c) PROVE Kept
    <2>1. \/ register_set_run(c) \/ register_set_storage(c)
          \/ register_add_pool(c) \/ UNCHANGED slots
      BY <1>7 DEF Continue, configure_set_period, sc_define_create,
         sc_define_link, sc_define_fail, register_fail, init_no_period,
         init_sched, init_call, init_count, init_next_sched, init_done,
         sc_enable, listVars
    <2> QED BY <1>2, <1>3, <1>4, <1>5, <2>1
  <1>8. ASSUME NEW s \in Scheds, sc_trigger(s) \/ Task(s) PROVE Kept
    BY <1>5, <1>8 DEF Task, sc_trigger, task_wait, task_check, task_run,
       task_end, listVars
  <1>9. ASSUME UNCHANGED vars PROVE Kept
    BY <1>5, <1>9 DEF vars
  <1> QED BY <1>6, <1>7, <1>8, <1>9 DEF Next

\* No step of any caller takes a slot away from the client registered there:
\* what sc_task reaches without the mutex stays valid.
THEOREM RegistrationsStay == Spec => RegistrationsKept
  <1>1. IInv /\ [Next]_vars => [Kept]_vars
    BY NextKept
  <1> QED BY <1>1, Invariance, PTL DEF Spec, RegistrationsKept, Kept

-----------------------------------------------------------------------------
(* main_task as the only caller                                            *)

\* What sc_init_clients returning 0 means for a scheduler.
Ready(s) == period_sec[s] >= 0 /\ Due(s) = {}

Walking == pc[Main] \in {"walk", "clients", "count"}

\* The walk leaves the schedulers it has passed ready ...
PassedReady ==
  Walking =>
    /\ place[Main] # 0
    /\ \A k \in 1 .. Len(sc_schedulers) :
         k < place[Main] => Ready(sc_schedulers[k])

\* ... and initialises clients of one that has a period.
ClientsHavePeriod ==
  pc[Main] \in {"clients", "count"} =>
    /\ place[Main] \in 1 .. Len(sc_schedulers)
    /\ period_sec[sc_schedulers[place[Main]]] >= 0

CountedHasPeriod ==
  pc[Main] = "count" =>
    /\ init_period[client[Main]] = period_sec[sched[Main]]
    /\ period_sec[sched[Main]] >= 0

\* The test in sc_configure_source still holds when the period is stored.
PeriodUnset == pc[Main] = "set_period" => period_sec[sched[Main]] < 0

\* main_task makes no call after sc_init_clients but sc_enable.
ReadyAfterInit ==
  /\ sc_is_enabled => pc[Main] = "done"
  /\ pc[Main] \in {"ready", "done"} => \A s \in Listed : Ready(s)

BootInv ==
  /\ PassedReady /\ ClientsHavePeriod /\ CountedHasPeriod /\ PeriodUnset
  /\ ReadyAfterInit /\ InitialisedWithPeriod

\* The slots that count as initialised keep their clients.
LEMMA InitialisedSlotsKept ==
  ASSUME IInv, [Next]_vars, NEW s \in Scheds, NEW i \in Slots,
         i < clients_initialized[s]
  PROVE  slots[s][i].init \in Clients /\ slots'[s][i].init = slots[s][i].init
  <1>1. i \in 0 .. (clients_initialized[s] - 1)
    <2>1. Slots \subseteq Nat /\ clients_initialized[s] \in Nat
      BY AllocatedSlots DEF IInv, TypeOK
    <2> QED BY <2>1
  <1>2. Initialised(s, i)
    BY <1>1 DEF IInv, CountInv
  <1>3. slots[s][i].init \in Clients
    BY <1>2 DEF Initialised, FullSlot
  <1> QED BY <1>3, NextKept, NullAssumption DEF Kept

\* A step that changes no period and no count.
LEMMA PeriodsKept ==
  ASSUME IInv, InitialisedWithPeriod, [Next]_vars,
         UNCHANGED <<clients_initialized, period_sec, init_period>>
  PROVE  InitialisedWithPeriod'
  <1> SUFFICES ASSUME NEW s \in Scheds, NEW i \in Slots,
                      slots'[s][i].init # NULL, i < clients_initialized[s]
               PROVE  /\ init_period[slots'[s][i].init] >= 0
                      /\ init_period[slots'[s][i].init] = period_sec[s]
    BY DEF InitialisedWithPeriod
  <1>1. slots[s][i].init \in Clients /\ slots'[s][i].init = slots[s][i].init
    BY InitialisedSlotsKept
  <1> QED BY <1>1 DEF InitialisedWithPeriod

\* A step that no variable of the walk takes part in: of a sc_task, a trigger.
LEMMA BootQuiet ==
  ASSUME BootInv,
         UNCHANGED <<listVars, callerVars, sc_is_enabled, clients_initialized,
                     period_sec, init_period>>
  PROVE  BootInv'
  <1> USE DEF BootInv, listVars, callerVars
  <1>1. (\A s : Ready(s)' <=> Ready(s)) /\ Listed' = Listed
    BY DEF Ready, Due, Allocated, Listed
  <1>2. PassedReady' /\ ClientsHavePeriod' /\ CountedHasPeriod' /\ PeriodUnset'
    BY <1>1 DEF PassedReady, Walking, ClientsHavePeriod, CountedHasPeriod,
       PeriodUnset
  <1>3. ReadyAfterInit' /\ InitialisedWithPeriod'
    BY <1>1 DEF ReadyAfterInit, InitialisedWithPeriod
  <1> QED BY <1>2, <1>3

\* A step of a call that is not sc_init_clients nor sc_enable.
LEMMA BootOutside ==
  ASSUME IInv, BootInv, [Next]_vars, pc[Main] # "done",
         UNCHANGED <<sc_is_enabled, clients_initialized, period_sec,
                     init_period>>,
         \/ pc'[Main] \in {"idle", "create", "link", "set_run", "set_storage",
                           "add_pool", "halted"}
         \/ pc'[Main] = "set_period" /\ period_sec[sched'[Main]] < 0
  PROVE  BootInv'
  <1>1. InitialisedWithPeriod'
    BY PeriodsKept DEF BootInv
  <1>2. PassedReady' /\ ClientsHavePeriod' /\ CountedHasPeriod' /\ PeriodUnset'
    BY DEF PassedReady, Walking, ClientsHavePeriod, CountedHasPeriod,
       PeriodUnset
  <1>3. ReadyAfterInit'
    BY DEF BootInv, ReadyAfterInit
  <1> QED BY <1>1, <1>2, <1>3 DEF BootInv

\* The calls of main_task up to sc_init_clients, and its failure.
LEMMA BootCalls ==
  ASSUME IInv, BootInv, [Next]_vars,
         \/ \E s \in Scheds, n \in Names : sc_define(Main, s, n)
         \/ \E s \in Scheds : sc_configure_source(Main, s)
         \/ \E s \in Scheds, cl \in Clients : sc_register_client(Main, s, cl)
         \/ sc_define_create(Main) \/ sc_define_link(Main)
         \/ sc_define_fail(Main) \/ register_set_run(Main)
         \/ register_set_storage(Main) \/ register_add_pool(Main)
         \/ register_fail(Main) \/ init_no_period(Main)
  PROVE  BootInv'
  <1> USE DEF sc_define, sc_configure_source, sc_register_client,
          sc_define_create, sc_define_link, sc_define_fail, register_set_run,
          register_set_storage, register_add_pool, register_fail,
          init_no_period, Return, historyVars
  <1>0. /\ pc \in [Callers -> PCs] /\ Main \in Callers
        /\ sched \in [Callers -> Scheds \cup {NULL}]
    BY DEF IInv, TypeOK
  <1>1. UNCHANGED <<sc_is_enabled, clients_initialized, period_sec, init_period>>
    OBVIOUS
  <1>2. pc[Main] # "done"
    OBVIOUS
  <1>3. \/ pc'[Main] \in {"idle", "create", "link", "set_run", "set_storage",
                          "add_pool", "halted"}
        \/ pc'[Main] = "set_period" /\ period_sec[sched'[Main]] < 0
    BY <1>0
  <1> HIDE DEF sc_define, sc_configure_source, sc_register_client,
          sc_define_create, sc_define_link, sc_define_fail, register_set_run,
          register_set_storage, register_add_pool, register_fail,
          init_no_period, Return, historyVars
  <1> QED BY <1>1, <1>2, <1>3, BootOutside

\* The store in sc_configure_source: no client of that scheduler has been
\* initialised, or its period would be set.
LEMMA BootSetPeriod ==
  ASSUME IInv, BootInv, [Next]_vars, NEW p \in Periods,
         configure_set_period(Main, p)
  PROVE  BootInv'
  <1>0. /\ pc \in [Callers -> PCs] /\ period_sec \in [Scheds -> Int]
        /\ sched[Main] \in Scheds /\ pc[Main] = "set_period"
        /\ Main \in Callers
    BY DEF IInv, TypeOK, CallerInv, InCall, configure_set_period
  <1>1. /\ pc'[Main] = "idle" /\ UNCHANGED <<sc_is_enabled,
             clients_initialized, init_period>>
        /\ period_sec' = [period_sec EXCEPT ![sched[Main]] = p]
    BY <1>0 DEF configure_set_period, historyVars
  <1>2. PassedReady' /\ ClientsHavePeriod' /\ CountedHasPeriod' /\ PeriodUnset'
    BY <1>1 DEF PassedReady, Walking, ClientsHavePeriod, CountedHasPeriod,
       PeriodUnset
  <1>3. ReadyAfterInit'
    BY <1>0, <1>1 DEF BootInv, ReadyAfterInit
  <1>4. InitialisedWithPeriod'
    <2> SUFFICES ASSUME NEW s \in Scheds, NEW i \in Slots,
                        slots'[s][i].init # NULL, i < clients_initialized[s]
                 PROVE  /\ init_period[slots'[s][i].init] >= 0
                        /\ init_period[slots'[s][i].init] = period_sec'[s]
      BY <1>1 DEF InitialisedWithPeriod
    <2>1. slots[s][i].init \in Clients /\ slots'[s][i].init = slots[s][i].init
      BY InitialisedSlotsKept
    <2>2. /\ init_period[slots[s][i].init] >= 0
          /\ init_period[slots[s][i].init] = period_sec[s]
      BY <2>1 DEF BootInv, InitialisedWithPeriod
    <2>3. s # sched[Main]
      <3>1. period_sec[sched[Main]] < 0
        BY <1>0 DEF BootInv, PeriodUnset
      <3> QED BY <1>0, <2>2, <3>1
    <2>4. period_sec'[s] = period_sec[s]
      BY <1>0, <1>1, <2>3
    <2> QED BY <2>1, <2>2, <2>4
  <1> QED BY <1>2, <1>3, <1>4 DEF BootInv

\* The walk from one scheduler to the next, and sc_enable.
LEMMA BootWalk ==
  ASSUME IInv, BootInv, [Next]_vars,
         \/ sc_init_clients(Main) \/ init_sched(Main) \/ init_next_sched(Main)
         \/ init_done(Main) \/ sc_enable(Main)
  PROVE  BootInv'
  <1> USE DEF listVars, historyVars
  <1>0. /\ pc \in [Callers -> PCs] /\ place \in [Callers -> Nat]
        /\ Main \in Callers /\ sc_schedulers \in Seq(Scheds)
    BY DEF IInv, TypeOK
  <1>1. UNCHANGED <<sc_schedulers, slots, pools, clients_initialized,
                    period_sec, init_period>>
    BY DEF sc_init_clients, init_sched, init_next_sched, init_done, sc_enable
  <1>2. InitialisedWithPeriod'
    BY <1>1, PeriodsKept DEF BootInv
  <1>3. (\A s : Ready(s)' <=> Ready(s)) /\ Listed' = Listed
    BY <1>1 DEF Ready, Due, Allocated, Listed
  <1>4. CASE sc_init_clients(Main)
    <2>1. /\ pc[Main] = "idle" /\ pc'[Main] = "walk" /\ place'[Main] = 1
          /\ UNCHANGED sc_is_enabled
      BY <1>0, <1>4 DEF sc_init_clients
    <2> QED BY <1>2, <2>1 DEF BootInv, PassedReady, ClientsHavePeriod,
               CountedHasPeriod, PeriodUnset, ReadyAfterInit
  <1>5. CASE init_sched(Main)
    <2>1. /\ pc[Main] = "walk" /\ pc'[Main] = "clients"
          /\ place'[Main] = place[Main] /\ UNCHANGED sc_is_enabled
      BY <1>0, <1>5 DEF init_sched
    <2>2. /\ place[Main] <= Len(sc_schedulers)
          /\ period_sec[sc_schedulers[place[Main]]] >= 0
      BY <1>5 DEF init_sched, AtSched
    <2>3. PassedReady' /\ place[Main] # 0
      BY <1>1, <1>3, <2>1 DEF BootInv, PassedReady, Walking
    <2>4. ClientsHavePeriod'
      BY <1>0, <1>1, <2>1, <2>2, <2>3 DEF ClientsHavePeriod
    <2> QED BY <1>2, <2>1, <2>3, <2>4 DEF BootInv, CountedHasPeriod,
               PeriodUnset, ReadyAfterInit
  <1>6. CASE init_next_sched(Main)
    <2>1. /\ pc[Main] = "clients" /\ pc'[Main] = "walk"
          /\ place'[Main] = place[Main] + 1 /\ UNCHANGED sc_is_enabled
      BY <1>0, <1>6 DEF init_next_sched
    <2>2. Ready(sc_schedulers[place[Main]])
      BY <1>6, <2>1 DEF init_next_sched, AtSched, BootInv, ClientsHavePeriod,
         Ready
    <2>3. PassedReady'
      <3>1. /\ place[Main] \in Nat /\ place[Main] # 0
            /\ \A k \in 1 .. Len(sc_schedulers) :
                 k < place[Main] => Ready(sc_schedulers[k])
        BY <1>0, <2>1 DEF BootInv, PassedReady, Walking
      <3>2. \A k \in 1 .. Len(sc_schedulers) :
              k < place[Main] + 1 => Ready(sc_schedulers[k])
        <4> SUFFICES ASSUME NEW k \in 1 .. Len(sc_schedulers),
                            k < place[Main] + 1
                     PROVE  Ready(sc_schedulers[k])
          OBVIOUS
        <4>1. k < place[Main] \/ k = place[Main]
          BY <1>0, <3>1
        <4> QED BY <2>2, <3>1, <4>1
      <3> QED BY <1>1, <1>3, <2>1, <3>1, <3>2 DEF PassedReady
    <2> QED BY <1>2, <2>1, <2>3 DEF BootInv, ClientsHavePeriod,
               CountedHasPeriod, PeriodUnset, ReadyAfterInit
  <1>7. CASE init_done(Main)
    <2>1. /\ pc[Main] = "walk" /\ pc'[Main] = "ready"
          /\ place[Main] > Len(sc_schedulers) /\ UNCHANGED sc_is_enabled
      BY <1>0, <1>7 DEF init_done, Return
    <2>2. \A s \in Listed : Ready(s)
      <3>1. \A k \in 1 .. Len(sc_schedulers) : k < place[Main]
        BY <1>0, <2>1
      <3> QED BY <2>1, <3>1 DEF BootInv, PassedReady, Walking, Listed
    <2>3. ReadyAfterInit'
      BY <1>3, <2>1, <2>2 DEF BootInv, ReadyAfterInit
    <2> QED BY <1>2, <2>1, <2>3 DEF BootInv, PassedReady, Walking,
               ClientsHavePeriod, CountedHasPeriod, PeriodUnset
  <1>8. CASE sc_enable(Main)
    <2>1. pc[Main] = "ready" /\ pc'[Main] = "done"
      BY <1>0, <1>8 DEF sc_enable
    <2>2. ReadyAfterInit'
      BY <1>3, <2>1 DEF BootInv, ReadyAfterInit
    <2> QED BY <1>2, <2>1, <2>2 DEF BootInv, PassedReady, Walking,
               ClientsHavePeriod, CountedHasPeriod, PeriodUnset
  <1> QED BY <1>4, <1>5, <1>6, <1>7, <1>8

\* The init callback gets the period of its scheduler, which is valid.
LEMMA BootInitCall ==
  ASSUME IInv, BootInv, [Next]_vars, init_call(Main)
  PROVE  BootInv'
  <1>0. /\ pc \in [Callers -> PCs] /\ Main \in Callers
        /\ sched \in [Callers -> Scheds \cup {NULL}]
        /\ client \in [Callers -> Clients \cup {NULL}]
        /\ init_period \in [Clients -> Int]
        /\ Slots \subseteq Nat
    BY AllocatedSlots DEF IInv, TypeOK, Slots
  <1>1. PICK s \in Scheds, i \in Slots, cl \in Clients :
          /\ pc[Main] = "clients"
          /\ i = clients_initialized[s]
          /\ slots[s][i] = FullSlot(cl)
          /\ init_period' = [init_period EXCEPT ![cl] = period_sec[s]]
          /\ client' = [client EXCEPT ![Main] = cl]
          /\ sched' = [sched EXCEPT ![Main] = s]
          /\ pc' = [pc EXCEPT ![Main] = "count"]
    BY InitCallFacts
  <1>2. UNCHANGED <<sc_schedulers, slots, pools, clients_initialized,
                    period_sec, place, sc_is_enabled>>
    BY DEF init_call, listVars
  <1>3. /\ pc'[Main] = "count" /\ client'[Main] = cl /\ sched'[Main] = s
        /\ init_period'[cl] = period_sec[s]
        /\ \A d \in Clients : d # cl => init_period'[d] = init_period[d]
    BY <1>0, <1>1
  <1>4. period_sec[s] >= 0
    <2>1. \E t \in Scheds :
            AtSched(Main, t) /\ sched' = [sched EXCEPT ![Main] = t]
      BY Zenon DEF init_call
    <2>2. AtSched(Main, s)
      BY <1>0, <1>3, <2>1
    <2> QED BY <1>1, <2>2 DEF AtSched, BootInv, ClientsHavePeriod
  <1>5. (\A t : Ready(t)' <=> Ready(t)) /\ Listed' = Listed
    BY <1>2 DEF Ready, Due, Allocated, Listed
  <1>6. PassedReady' /\ ClientsHavePeriod'
    BY <1>1, <1>2, <1>3, <1>5 DEF BootInv, PassedReady, Walking,
       ClientsHavePeriod
  <1>7. CountedHasPeriod' /\ PeriodUnset' /\ ReadyAfterInit'
    BY <1>1, <1>2, <1>3, <1>4 DEF BootInv, CountedHasPeriod, PeriodUnset,
       ReadyAfterInit
  <1>8. InitialisedWithPeriod'
    <2> SUFFICES ASSUME NEW t \in Scheds, NEW j \in Slots,
                        slots[t][j].init # NULL, j < clients_initialized[t]
                 PROVE  /\ init_period'[slots[t][j].init] >= 0
                        /\ init_period'[slots[t][j].init] = period_sec[t]
      BY <1>2 DEF InitialisedWithPeriod
    <2>1. slots[t][j].init \in Clients
      BY InitialisedSlotsKept
    <2>2. slots[t][j].init # cl
      <3>1. slots[s][i].init = cl
        BY <1>1 DEF FullSlot
      <3>2. slots[t][j].init = cl => t = s /\ j = i
        BY <3>1 DEF IInv, OneSlot
      <3>3. ~(t = s /\ j = i)
        BY <1>0, <1>1
      <3> QED BY <3>2, <3>3
    <2> QED BY <1>3, <2>1, <2>2 DEF BootInv, InitialisedWithPeriod
  <1> QED BY <1>6, <1>7, <1>8 DEF BootInv

\* The client just initialised is counted: nobody is due who was not before.
LEMMA BootInitCount ==
  ASSUME IInv, BootInv, [Next]_vars, init_count(Main)
  PROVE  BootInv'
  <1> DEFINE s == sched[Main]
             i == idx[Main]
  <1>0. /\ pc \in [Callers -> PCs] /\ Main \in Callers
        /\ clients_initialized \in [Scheds -> Nat]
        /\ Slots \subseteq Nat
    BY AllocatedSlots DEF IInv, TypeOK, Slots
  <1>1. /\ pc[Main] = "count" /\ s \in Scheds /\ i \in Slots
        /\ client[Main] \in Clients
        /\ i = clients_initialized[s]
        /\ slots[s][i] = FullSlot(client[Main])
    BY DEF init_count, IInv, CallerInv, InCall
  <1>2. /\ UNCHANGED <<sc_schedulers, slots, pools, period_sec, init_period,
                       place, sc_is_enabled>>
        /\ clients_initialized' = [clients_initialized EXCEPT ![s] = i + 1]
        /\ pc'[Main] = "clients"
    BY <1>0 DEF init_count, listVars, historyVars
  <1> HIDE DEF s, i
  <1>3. /\ clients_initialized'[s] = clients_initialized[s] + 1
        /\ \A t \in Scheds :
             t # s => clients_initialized'[t] = clients_initialized[t]
    BY <1>0, <1>1, <1>2
  <1>4. \A t \in Scheds : Ready(t) => Ready(t)'
    <2> SUFFICES ASSUME NEW t \in Scheds, Ready(t) PROVE Ready(t)'
      OBVIOUS
    <2>1. Due(t)' \subseteq Due(t)
      <3> SUFFICES ASSUME NEW j \in Due(t)' PROVE j \in Due(t)
        OBVIOUS
      <3>1. /\ j \in Allocated(t) /\ slots[t][j].init # NULL
            /\ j >= clients_initialized'[t]
        BY <1>2 DEF Due, Allocated
      <3>2. j \in Nat /\ clients_initialized[t] \in Nat
        BY <1>0, <3>1, AllocatedSlots DEF IInv, TypeOK
      <3>3. j >= clients_initialized[t]
        BY <1>3, <3>1, <3>2
      <3> QED BY <3>1, <3>3 DEF Due
    <2> QED BY <1>2, <2>1 DEF Ready
  <1>5. PassedReady'
    <2>1. sc_schedulers \in Seq(Scheds)
      BY DEF IInv, TypeOK
    <2>2. \A k \in 1 .. Len(sc_schedulers) : sc_schedulers[k] \in Scheds
      BY <2>1
    <2> QED BY <1>1, <1>2, <1>4, <2>2 DEF BootInv, PassedReady, Walking
  <1>6. ClientsHavePeriod' /\ CountedHasPeriod' /\ PeriodUnset' /\ ReadyAfterInit'
    BY <1>1, <1>2 DEF BootInv, ClientsHavePeriod, CountedHasPeriod,
       PeriodUnset, ReadyAfterInit
  <1>7. InitialisedWithPeriod'
    <2> SUFFICES ASSUME NEW t \in Scheds, NEW j \in Slots,
                        slots[t][j].init # NULL, j < clients_initialized'[t]
                 PROVE  /\ init_period[slots[t][j].init] >= 0
                        /\ init_period[slots[t][j].init] = period_sec[t]
      BY <1>2 DEF InitialisedWithPeriod
    <2>1. CASE t = s /\ j = i
      <3>1. slots[t][j].init = client[Main]
        BY <1>1, <2>1 DEF FullSlot
      <3> QED BY <1>1, <2>1, <3>1 DEF BootInv, CountedHasPeriod, s
    <2>2. CASE ~(t = s /\ j = i)
      <3>1. j < clients_initialized[t]
        BY <1>0, <1>1, <1>3, <2>2
      <3> QED BY <3>1 DEF BootInv, InitialisedWithPeriod
    <2> QED BY <2>1, <2>2
  <1> QED BY <1>5, <1>6, <1>7 DEF BootInv

\* At first no scheduler exists.
LEMMA InitBoot == Init => BootInv
  <1> SUFFICES ASSUME Init PROVE BootInv
    OBVIOUS
  <1>1. pc[Main] = "idle" /\ \A s \in Scheds : clients_initialized[s] = 0
    BY DEF Init
  <1>2. InitialisedWithPeriod
    <2>1. Slots \subseteq Nat
      BY DEF Slots
    <2> QED BY <1>1, <2>1 DEF InitialisedWithPeriod
  <1> QED BY <1>1, <1>2 DEF Init, BootInv, PassedReady, Walking,
             ClientsHavePeriod, CountedHasPeriod, PeriodUnset, ReadyAfterInit

\* As long as main_task is the only caller, each step keeps the invariant of
\* start-up.
LEMMA NextBoot ==
  ASSUME Callers = {Main}, IInv, BootInv, [Next]_vars
  PROVE  BootInv'
  <1>1. ASSUME NEW c \in Callers, Call(c) \/ Continue(c) PROVE BootInv'
    <2>1. Call(Main) \/ Continue(Main)
      BY <1>1
    <2> QED BY <2>1, BootCalls, BootSetPeriod, BootWalk, BootInitCall,
               BootInitCount DEF Call, Continue
  <1>2. ASSUME NEW s \in Scheds, sc_trigger(s) \/ Task(s) PROVE BootInv'
    <2>1. UNCHANGED <<listVars, callerVars, sc_is_enabled,
                      clients_initialized, period_sec, init_period>>
      BY <1>2 DEF Task, sc_trigger, task_wait, task_check, task_run, task_end,
         historyVars
    <2> QED BY <2>1, BootQuiet
  <1>3. ASSUME UNCHANGED vars PROVE BootInv'
    <2>1. UNCHANGED <<listVars, callerVars, sc_is_enabled,
                      clients_initialized, period_sec, init_period>>
      BY <1>3 DEF vars, listVars, callerVars
    <2> QED BY <2>1, BootQuiet
  <1> QED BY <1>1, <1>2, <1>3 DEF Next

\* core/main.c: when main_task is the only caller, the schedulers are enabled
\* only after each has its period and each registered client has been
\* initialised, with the period that stays in force.
THEOREM ReadyWhenEnabled ==
  ASSUME Callers = {Main}
  PROVE  Spec => []EnabledMeansReady
  <1>1. IInv /\ BootInv /\ [Next]_vars => BootInv'
    BY NextBoot
  <1>2. BootInv => EnabledMeansReady
    BY DEF BootInv, ReadyAfterInit, Ready, EnabledMeansReady
  <1> QED BY <1>1, <1>2, InitBoot, Invariance, PTL DEF Spec
=============================================================================
