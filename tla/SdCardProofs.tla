----------------------------- MODULE SdCardProofs -----------------------------
(***************************************************************************)
(* For any set of callers, any length of the queue, any number of retries  *)
(* and any number of blocks: a call returns the result of its own job, a   *)
(* good result means good data, and the bus is left as the next job needs  *)
(* it.  The argument: the volume's lock admits one caller at a time, so    *)
(* there is at most one job, in the queue or in the hands of sdcard_task,  *)
(* and its caller waits for it with no notification pending.               *)
(***************************************************************************)
EXTENDS SdCard, TLAPS

USE BoundsAssumption, NullAssumption

-----------------------------------------------------------------------------
(* The inductive invariant                                                 *)

AllJobs == {j \in [calling_task : Callers,
                   job_id : {"INITIALIZE", "STATUS", "WRITE", "READ"},
                   count : 0 .. MaxCount] : j.job_id = "READ" => j.count > 0}

\* The steps of sdcard_task while it initialises the card.
InitPhases == {"CMD0", "CMD8", "CMD55", "ACMD41", "CMD58", "start", "CMD9",
               "CMD10", "configure"}

Blocks(n) == [i \in 1 .. n |-> <<i - 1, "sound">>]

Types ==
  /\ lock \in Callers \cup {NULL}
  /\ cpc \in [Callers -> {"idle", "grant", "held", "wait"}]
  /\ value \in [Callers -> SUBSET {0, 1, Done}]
  /\ pending \in [Callers -> BOOLEAN]
  /\ ret \in [Callers -> Results \cup {NULL}]
  /\ jobs \in Seq(AllJobs)
  /\ tpc \in {"receive", "CMD17", "notify"} \cup InitPhases
  /\ tpc # "receive" => job \in AllJobs
  /\ retries \in 0 .. InitRetries
  /\ result \in Results
  /\ block \in 0 .. MaxCount
  /\ cs \in BOOLEAN /\ card_available \in BOOLEAN /\ reg_ocr \in BOOLEAN
  /\ baud \in {"startup", "running"}
  /\ truth \in [Callers -> Results \cup {NULL}]
  /\ buff \in [Callers -> Seq(Nat \X {"damaged", "sound"})]

\* The callers inside the driver are the holder of the lock.
LockHeld == \A c \in Callers : cpc[c] \in {"held", "wait"} <=> lock = c

\* The caller of the job waits for its first notification.
Outstanding(c) == cpc[c] = "wait" /\ ~pending[c] /\ value[c] = {}

\* The job in the queue, and the job sdcard_task works on.
OneJob ==
  /\ Len(jobs) <= 1
  /\ tpc # "receive" => jobs = <<>> /\ Outstanding(job.calling_task)
  /\ jobs # <<>> => Outstanding(jobs[1].calling_task)
                    /\ buff[jobs[1].calling_task] = <<>>

InHand(c) ==
  \/ jobs # <<>> /\ jobs[1].calling_task = c
  \/ tpc # "receive" /\ job.calling_task = c

\* A waiting caller has a job with the driver, or its result.
Waiting ==
  \A c \in Callers :
    /\ cpc[c] = "wait" => InHand(c) \/ pending[c]
    /\ pending[c] => cpc[c] = "wait" /\ truth[c] \in Results
                     /\ value[c] = {Done} \cup truth[c]
    /\ cpc[c] # "wait" /\ ret[c] # NULL => ret[c] = truth[c]

\* sdcard_task's step belongs to the kind of its job.
Phase ==
  /\ tpc \in InitPhases => job.job_id = "INITIALIZE"
  /\ tpc \in InitPhases \ {"configure"} => retries > 0 /\ baud = "startup"
  /\ tpc \notin InitPhases /\ card_available => baud = "running"
  /\ tpc \in {"receive", "configure", "notify"} => cs

\* A read in progress has its first blocks in the buffer, all of them sound.
Reading ==
  tpc = "CMD17" => /\ job.job_id = "READ" /\ card_available
                   /\ result = RES_OK
                   /\ block < job.count
                   /\ buff[job.calling_task] = Blocks(block)

\* A read that ended well has them all.
ReadDone ==
  tpc = "notify" /\ job.job_id = "READ" /\ result = RES_OK =>
    buff[job.calling_task] = Blocks(job.count)

IInv ==
  /\ Types /\ LockHeld /\ OneJob /\ Waiting /\ Phase /\ Reading /\ ReadDone

-----------------------------------------------------------------------------
(* Facts about the model's operators                                       *)

\* The commands sdcard_init_card goes on with.
LEMMA FollowFacts ==
  /\ DOMAIN Follow = {"CMD0", "CMD8", "CMD55", "ACMD41", "CMD58"}
  /\ \A p \in DOMAIN Follow, r1 \in R1 :
       r1 \in DOMAIN Follow[p] =>
         /\ Follow[p][r1] \in {"CMD8", "CMD55", "ACMD41", "CMD58", "CMD9"}
         /\ p # "CMD58" <=> Follow[p][r1] # "CMD9"
  BY DEF Follow, R1

\* A job of a caller is a job.
LEMMA JobsTyped ==
  ASSUME NEW c \in Callers, NEW j \in Jobs(c)
  PROVE  j \in AllJobs /\ j.calling_task = c
  BY DEF Jobs, AllJobs

\* The result bits and the bit that marks a notification are distinct.
LEMMA ResultBits ==
  ASSUME NEW r \in Results
  PROVE  /\ r \in SUBSET {0, 1, Done}
         /\ {Done} \cup r \in SUBSET {0, 1, Done}
         /\ ({Done} \cup r) \ {Done} = r
  BY DEF Results, RES_OK, RES_ERROR, RES_NOTRDY, STA_NODISK, Done

\* The blocks of a read, one by one.
LEMMA BlocksFacts ==
  /\ Blocks(0) = <<>>
  /\ \A n \in Nat : /\ Blocks(n) \in Seq(Nat \X {"damaged", "sound"})
                    /\ Append(Blocks(n), <<n, "sound">>) = Blocks(n + 1)
  <1>1. Blocks(0) = <<>>
    BY DEF Blocks
  <1>2. ASSUME NEW n \in Nat
        PROVE  /\ Blocks(n) \in Seq(Nat \X {"damaged", "sound"})
               /\ Append(Blocks(n), <<n, "sound">>) = Blocks(n + 1)
    <2>1. Blocks(n) \in Seq(Nat \X {"damaged", "sound"})
      BY DEF Blocks
    <2>2. Len(Blocks(n)) = n
      BY DEF Blocks
    <2> QED BY <2>1, <2>2 DEF Blocks
  <1> QED BY <1>1, <1>2

-----------------------------------------------------------------------------
(* The invariant is inductive                                              *)

\* It holds after sdcard_init.
LEMMA InitIInv == Init => IInv
  <1> SUFFICES ASSUME Init PROVE IInv
    OBVIOUS
  <1>1. Types
    <2>1. cs \in BOOLEAN /\ card_available \in BOOLEAN /\ reg_ocr \in BOOLEAN
      BY Zenon DEF Init
    <2>2. pending \in [Callers -> BOOLEAN]
      BY DEF Init
    <2>3. buff \in [Callers -> Seq(Nat \X {"damaged", "sound"})]
      BY DEF Init
    <2>4. jobs \in Seq(AllJobs)
      BY DEF Init
    <2> QED BY <2>1, <2>2, <2>3, <2>4 DEF Init, Types, Results, RES_OK
  <1>2. LockHeld /\ OneJob /\ Waiting /\ Phase /\ Reading /\ ReadDone
    BY DEF Init, LockHeld, OneJob, Waiting, InHand, Phase, Reading, ReadDone,
           InitPhases
  <1> QED BY <1>1, <1>2 DEF IInv

\* The caller of a job is a caller.
LEMMA JobHasCaller ==
  ASSUME Types
  PROVE  /\ tpc # "receive" => job.calling_task \in Callers
         /\ jobs # <<>> => jobs[1] \in AllJobs /\ jobs[1].calling_task \in Callers
  <1>1. tpc # "receive" => job.calling_task \in Callers
    BY DEF Types, AllJobs
  <1>2. jobs # <<>> => jobs[1] \in AllJobs
    BY DEF Types
  <1> QED BY <1>1, <1>2 DEF AllJobs

\* Where a caller holds the volume and does not wait, the driver is idle.
LEMMA HolderFindsDriverIdle ==
  ASSUME IInv, NEW c \in Callers, cpc[c] = "held"
  PROVE  jobs = <<>> /\ tpc = "receive" /\ ~pending[c]
  <1>1. ASSUME NEW d \in Callers, Outstanding(d) PROVE FALSE
    BY <1>1 DEF IInv, LockHeld, Outstanding
  <1>2. tpc = "receive" /\ jobs = <<>>
    BY <1>1, JobHasCaller DEF IInv, OneJob
  <1> QED BY <1>2 DEF IInv, Waiting

\* Every step of a caller preserves it.
LEMMA CallersPreserve ==
  ASSUME IInv, NEW c \in Callers, Caller(c)
  PROVE  IInv'
  <1> USE DEF IInv
  <1>1. CASE fs_call(c)
    <2>1. Types' /\ LockHeld'
      BY <1>1 DEF fs_call, taskVars, Types, LockHeld
    <2>2. OneJob'
      <3>1. \A d \in Callers : Outstanding(d) => Outstanding(d)'
        BY <1>1 DEF fs_call, Types, Outstanding
      <3> QED
        BY <1>1, <3>1, JobHasCaller DEF fs_call, taskVars, OneJob
    <2>3. Waiting'
      BY <1>1 DEF fs_call, taskVars, Types, Waiting, InHand
    <2>4. Phase' /\ Reading' /\ ReadDone'
      BY <1>1 DEF fs_call, taskVars, Phase, Reading, ReadDone
    <2> QED BY <2>1, <2>2, <2>3, <2>4
  <1>2. CASE ff_req_grant(c)
    <2>1. Types' /\ LockHeld'
      <3>1. Types'
        BY <1>2 DEF ff_req_grant, taskVars, Types
      <3>2. LockHeld'
        BY <1>2, NullAssumption DEF ff_req_grant, Types, LockHeld
      <3> QED BY <3>1, <3>2
    <2>2. OneJob'
      <3>1. \A d \in Callers : Outstanding(d) => Outstanding(d)'
        BY <1>2 DEF ff_req_grant, Types, Outstanding
      <3> QED
        BY <1>2, <3>1, JobHasCaller DEF ff_req_grant, taskVars, OneJob
    <2>3. Waiting'
      BY <1>2 DEF ff_req_grant, taskVars, Types, Waiting, InHand
    <2>4. Phase' /\ Reading' /\ ReadDone'
      BY <1>2 DEF ff_req_grant, taskVars, Phase, Reading, ReadDone
    <2> QED BY <2>1, <2>2, <2>3, <2>4
  <1>3. CASE ff_rel_grant(c)
    <2>1. Types' /\ LockHeld'
      BY <1>3 DEF ff_rel_grant, taskVars, Types, LockHeld
    <2>2. OneJob'
      <3>1. \A d \in Callers : Outstanding(d) => Outstanding(d)'
        BY <1>3 DEF ff_rel_grant, Types, Outstanding
      <3> QED
        BY <1>3, <3>1, JobHasCaller DEF ff_rel_grant, taskVars, OneJob
    <2>3. Waiting'
      BY <1>3 DEF ff_rel_grant, taskVars, Types, Waiting, InHand
    <2>4. Phase' /\ Reading' /\ ReadDone'
      BY <1>3 DEF ff_rel_grant, taskVars, Phase, Reading, ReadDone
    <2> QED BY <2>1, <2>2, <2>3, <2>4
  <1>4. CASE disk_call(c)
    <2>1. PICK j \in Jobs(c) : exec_job_send(c, j)
      BY <1>4 DEF disk_call
    <2>2. j \in AllJobs /\ j.calling_task = c
      BY JobsTyped
    <2>3. jobs = <<>> /\ tpc = "receive" /\ ~pending[c]
      BY <2>1, HolderFindsDriverIdle DEF exec_job_send
    <2>4. jobs' = <<j>>
      BY <2>1, <2>3 DEF exec_job_send
    <2>5. Types' /\ LockHeld'
      BY <2>1, <2>2, <2>4 DEF exec_job_send, taskVars, Types, LockHeld
    <2>6. OneJob' /\ Waiting'
      BY <2>1, <2>2, <2>3, <2>4 DEF exec_job_send, taskVars, Types, OneJob,
         Outstanding, Waiting, InHand
    <2>7. Phase' /\ Reading' /\ ReadDone'
      BY <2>1, <2>3 DEF exec_job_send, taskVars, Phase, Reading, ReadDone
    <2> QED BY <2>5, <2>6, <2>7
  <1>5. CASE exec_job_wait(c)
    <2>1. truth[c] \in Results /\ value[c] \ {Done} = truth[c]
      BY <1>5, ResultBits DEF exec_job_wait, Waiting
    <2>2. Types' /\ LockHeld'
      BY <1>5, <2>1 DEF exec_job_wait, taskVars, Types, LockHeld
    <2>3. OneJob'
      <3>1. \A d \in Callers : Outstanding(d) => Outstanding(d)'
        BY <1>5 DEF exec_job_wait, Types, Outstanding
      <3> QED
        BY <1>5, <3>1, JobHasCaller DEF exec_job_wait, taskVars, OneJob
    <2>4. Waiting'
      BY <1>5, <2>1 DEF exec_job_wait, taskVars, Types, Waiting, InHand
    <2>5. Phase' /\ Reading' /\ ReadDone'
      BY <1>5 DEF exec_job_wait, taskVars, Phase, Reading, ReadDone
    <2> QED BY <2>2, <2>3, <2>4, <2>5
  <1> QED BY <1>1, <1>2, <1>3, <1>4, <1>5 DEF Caller

\* What a step of sdcard_task between the receipt of a job and its
\* notification leaves alone.
Between ==
  /\ tpc # "receive" /\ tpc' # "receive"
  /\ UNCHANGED <<lock, cpc, value, pending, ret, jobs, job, truth>>

\* Such a step leaves the callers' part of the invariant as it was.
LEMMA BetweenPreserves ==
  ASSUME IInv, Between
  PROVE  LockHeld' /\ OneJob' /\ Waiting'
  <1>1. LockHeld'
    BY DEF IInv, Between, LockHeld
  <1>2. OneJob'
    BY DEF IInv, Between, OneJob, Outstanding
  <1>3. Waiting'
    BY DEF IInv, Between, Waiting, InHand
  <1> QED BY <1>1, <1>2, <1>3

\* The end of an attempt to initialise the card.
LEMMA AttemptEnds ==
  ASSUME Types, Phase, NEW ok \in BOOLEAN, attempt_ends(ok),
         tpc \in InitPhases \ {"configure"}
  PROVE  /\ result' \in Results /\ retries' \in 0 .. InitRetries
         /\ tpc' \in {"configure", "start"}
         /\ tpc' = "start" => retries' > 0
  BY DEF attempt_ends, Types, Phase, Results, RES_OK, RES_ERROR

\* Every step of sdcard_task preserves it.
LEMMA TaskPreserves ==
  ASSUME IInv, Task
  PROVE  IInv'
  <1> USE DEF IInv
  <1>1. CASE task_receive
    <2>1. /\ tpc = "receive" /\ jobs # <<>> /\ job' = jobs[1]
          /\ jobs[1] \in AllJobs /\ jobs[1].calling_task \in Callers
      BY <1>1, JobHasCaller DEF task_receive, Types
    <2>2. jobs' = <<>>
      BY <1>1, <2>1 DEF task_receive, Types, OneJob
    <2>3. tpc' \in {"start", "CMD17", "notify"}
      BY <1>1 DEF task_receive
    <2>4. Types'
      <3>1. result' \in Results
        BY <1>1, <2>1 DEF task_receive, Types, AllJobs, Results, RES_OK,
           RES_NOTRDY, RES_ERROR, STA_NODISK
      <3> QED
        BY <1>1, <2>1, <2>2, <2>3, <3>1 DEF task_receive, callerVars, Types,
           InitPhases
    <2>5. LockHeld' /\ OneJob'
      BY <1>1, <2>1, <2>2 DEF task_receive, callerVars, LockHeld, OneJob,
         Outstanding
    <2>6. Waiting'
      BY <1>1, <2>1, <2>2, <2>3 DEF task_receive, callerVars, Waiting, InHand
    <2>7. Phase'
      BY <1>1, <2>1, <2>3 DEF task_receive, Types, Phase, InitPhases
    <2>8. Reading' /\ ReadDone'
      BY <1>1, <2>1, BlocksFacts DEF task_receive, OneJob, Reading, ReadDone,
         AllJobs, RES_OK, RES_NOTRDY
    <2> QED BY <2>4, <2>5, <2>6, <2>7, <2>8
  <1>2. CASE init_card_start
    <2>1. Types'
      BY <1>2 DEF init_card_start, callerVars, Types, InitPhases
    <2>2. LockHeld' /\ OneJob' /\ Waiting'
      BY <1>2, BetweenPreserves DEF init_card_start, callerVars, Between
    <2>3. Phase' /\ Reading' /\ ReadDone'
      BY <1>2 DEF init_card_start, Phase, Reading, ReadDone, InitPhases
    <2> QED BY <2>1, <2>2, <2>3
  <1>3. CASE read_block_select
    <2>1. Types'
      BY <1>3 DEF read_block_select, callerVars, Types
    <2>2. LockHeld' /\ OneJob' /\ Waiting'
      BY <1>3, BetweenPreserves DEF read_block_select, callerVars, Between
    <2>3. Phase' /\ Reading' /\ ReadDone'
      BY <1>3 DEF read_block_select, Phase, Reading, ReadDone, InitPhases
    <2> QED BY <2>1, <2>2, <2>3
  <1>4. CASE task_configure
    <2>1. Types'
      BY <1>4 DEF task_configure, callerVars, Types
    <2>2. LockHeld' /\ OneJob' /\ Waiting'
      BY <1>4, BetweenPreserves DEF task_configure, callerVars, Between
    <2>3. Phase' /\ Reading' /\ ReadDone'
      BY <1>4 DEF task_configure, Phase, Reading, ReadDone, InitPhases
    <2> QED BY <2>1, <2>2, <2>3
  <1>5. CASE task_notify
    <2> DEFINE c == job.calling_task
    <2>1. c \in Callers /\ Outstanding(c) /\ jobs = <<>>
      BY <1>5, JobHasCaller DEF task_notify, OneJob
    <2>2. result \in Results /\ value' = [value EXCEPT ![c] = {Done} \cup result]
      BY <1>5, <2>1 DEF task_notify, Types, Outstanding
    <2>3. Types'
      BY <1>5, <2>1, <2>2, ResultBits DEF task_notify, Types
    <2>4. LockHeld' /\ OneJob'
      BY <1>5, <2>1 DEF task_notify, LockHeld, OneJob
    <2>5. Waiting'
      BY <1>5, <2>1, <2>2 DEF task_notify, Types, Waiting, InHand, Outstanding
    <2>6. Phase' /\ Reading' /\ ReadDone'
      BY <1>5 DEF task_notify, Phase, Reading, ReadDone, InitPhases
    <2> QED BY <2>3, <2>4, <2>5, <2>6
  <1>6. ASSUME NEW r1 \in R1, NEW good \in BOOLEAN, init_card_command(r1, good)
        PROVE  IInv'
    <2>1. tpc \in InitPhases \ {"configure"}
      BY <1>6, FollowFacts DEF init_card_command, InitPhases
    <2>2. CASE r1 \in DOMAIN Follow[tpc] /\ (tpc = "CMD8" => good)
      <3>1. /\ tpc' \in {"CMD8", "CMD55", "ACMD41", "CMD58", "CMD9"}
            /\ UNCHANGED <<retries, result>>
        <4>1. /\ tpc \in DOMAIN Follow /\ tpc' = Follow[tpc][r1]
              /\ UNCHANGED <<retries, result>>
          BY <1>6, <2>2 DEF init_card_command
        <4> QED BY <2>2, <4>1, FollowFacts
      <3>2. cs' \in BOOLEAN
        BY <1>6, <2>2, Zenon DEF init_card_command
      <3>3. reg_ocr' \in BOOLEAN
        BY <1>6 DEF init_card_command, Types
      <3>4. Types'
        BY <1>6, <2>1, <3>1, <3>2, <3>3 DEF init_card_command, callerVars,
           Types, InitPhases
      <3>5. LockHeld' /\ OneJob' /\ Waiting'
        BY <1>6, <2>1, <3>1, BetweenPreserves DEF init_card_command,
           callerVars, Between, InitPhases
      <3>6. Phase' /\ Reading' /\ ReadDone'
        BY <1>6, <2>1, <3>1 DEF init_card_command, Phase, Reading, ReadDone,
           InitPhases
      <3> QED BY <3>4, <3>5, <3>6
    <2>3. CASE ~(r1 \in DOMAIN Follow[tpc] /\ (tpc = "CMD8" => good))
      <3>1. cs' = TRUE /\ attempt_ends(FALSE)
        BY <1>6, <2>3 DEF init_card_command
      <3>2. /\ result' \in Results /\ retries' \in 0 .. InitRetries
            /\ tpc' \in {"configure", "start"}
            /\ tpc' = "start" => retries' > 0
        BY <2>1, <3>1, AttemptEnds
      <3>3. reg_ocr' \in BOOLEAN
        BY <1>6 DEF init_card_command, Types
      <3>4. Types'
        BY <1>6, <2>1, <3>1, <3>2, <3>3 DEF init_card_command, callerVars,
           Types, InitPhases
      <3>5. LockHeld' /\ OneJob' /\ Waiting'
        BY <1>6, <2>1, <3>2, BetweenPreserves DEF init_card_command,
           callerVars, Between, InitPhases
      <3>6. Phase' /\ Reading' /\ ReadDone'
        BY <1>6, <2>1, <3>1, <3>2 DEF init_card_command, Phase, Reading,
           ReadDone, InitPhases
      <3> QED BY <3>4, <3>5, <3>6
    <2> QED BY <2>2, <2>3
  <1>7. ASSUME NEW d \in Data, NEW good \in BOOLEAN, init_card_register(d, good)
        PROVE  IInv'
    <2> DEFINE ok == read_block_ok(d) /\ good /\ (tpc = "CMD9" => reg_ocr)
    <2>1. tpc \in {"CMD9", "CMD10"} /\ cs' = TRUE
      BY <1>7 DEF init_card_register, read_block
    <2>2. CASE tpc = "CMD9" /\ ok
      <3>1. tpc' = "CMD10" /\ UNCHANGED <<retries, result, card_available>>
        BY <1>7, <2>2 DEF init_card_register
      <3>2. Types'
        BY <1>7, <2>1, <3>1 DEF init_card_register, callerVars, Types,
           InitPhases
      <3>3. LockHeld' /\ OneJob' /\ Waiting'
        BY <1>7, <2>1, <3>1, BetweenPreserves DEF init_card_register,
           callerVars, Between
      <3>4. Phase' /\ Reading' /\ ReadDone'
        BY <1>7, <2>1, <3>1 DEF init_card_register, Phase, Reading, ReadDone,
           InitPhases
      <3> QED BY <3>2, <3>3, <3>4
    <2>3. CASE ~(tpc = "CMD9" /\ ok)
      <3>1. attempt_ends(ok) /\ card_available' = (card_available \/ ok)
        BY <1>7, <2>3 DEF init_card_register
      <3>2. /\ result' \in Results /\ retries' \in 0 .. InitRetries
            /\ tpc' \in {"configure", "start"}
            /\ tpc' = "start" => retries' > 0
        <4>1. ok \in BOOLEAN /\ tpc \in InitPhases \ {"configure"}
          BY <2>1 DEF InitPhases
        <4> HIDE DEF ok
        <4> QED BY <3>1, <4>1, AttemptEnds
      <3>3. card_available' \in BOOLEAN
        BY <3>1, Zenon
      <3>4. Types'
        BY <1>7, <2>1, <3>2, <3>3 DEF init_card_register, callerVars,
           Types, InitPhases
      <3>5. LockHeld' /\ OneJob' /\ Waiting'
        BY <1>7, <2>1, <3>2, BetweenPreserves DEF init_card_register,
           callerVars, Between
      <3>6. Phase' /\ Reading' /\ ReadDone'
        BY <1>7, <2>1, <3>2 DEF init_card_register, Phase, Reading,
           ReadDone, InitPhases
      <3> QED BY <3>4, <3>5, <3>6
    <2> QED BY <2>2, <2>3
  <1>8. ASSUME NEW d \in Data, task_read(d)
        PROVE  IInv'
    <2> DEFINE c == job.calling_task
    <2>1. /\ tpc = "CMD17" /\ cs' = TRUE /\ block' = block + 1
          /\ tpc' \in {"CMD17", "notify"}
      BY <1>8 DEF task_read, read_block
    <2>2. /\ job \in AllJobs /\ c \in Callers /\ job.job_id = "READ"
          /\ block \in Nat /\ job.count \in 0 .. MaxCount /\ block < job.count
          /\ result = RES_OK /\ buff[c] = Blocks(block)
      BY <2>1 DEF Types, AllJobs, Reading
    <2>3. CASE d = "sound"
      <3>1. result' = RES_OK
        BY <1>8, <2>2, <2>3 DEF task_read, read_block_ok
      <3>2. buff' = [buff EXCEPT ![c] = Blocks(block + 1)]
        BY <1>8, <2>2, <2>3, BlocksFacts DEF task_read, Types
      <3>3. Types'
        <4>1. Blocks(block + 1) \in Seq(Nat \X {"damaged", "sound"})
          BY <2>2, BlocksFacts
        <4>2. buff' \in [Callers -> Seq(Nat \X {"damaged", "sound"})]
          BY <2>2, <3>2, <4>1 DEF Types
        <4> QED
          BY <1>8, <2>1, <2>2, <3>1, <4>2 DEF task_read, callerVars, Types,
             Results
      <3>4. LockHeld' /\ OneJob' /\ Waiting'
        BY <1>8, <2>1, BetweenPreserves DEF task_read, callerVars, Between
      <3>5. Phase'
        BY <1>8, <2>1 DEF task_read, Phase, InitPhases
      <3>6. Reading' /\ ReadDone'
        BY <1>8, <2>1, <2>2, <3>1, <3>2 DEF task_read, Types, Reading, ReadDone
      <3> QED BY <3>3, <3>4, <3>5, <3>6
    <2>4. CASE d # "sound"
      <3>1. result' = RES_ERROR /\ tpc' = "notify" /\ RES_ERROR # RES_OK
        BY <1>8, <2>4 DEF task_read, read_block_ok, RES_ERROR, RES_OK
      <3>2. buff' \in [Callers -> Seq(Nat \X {"damaged", "sound"})]
        <4>1. CASE d = "refused"
          BY <1>8, <4>1, <2>2 DEF task_read, Types
        <4>2. CASE d = "damaged"
          <5>1. <<block, d>> \in Nat \X {"damaged", "sound"}
            BY <2>2, <4>2
          <5>2. Append(buff[c], <<block, d>>)
                  \in Seq(Nat \X {"damaged", "sound"})
            BY <2>2, <5>1 DEF Types
          <5> QED BY <1>8, <4>2, <2>2, <5>2 DEF task_read, Types
        <4> QED BY <2>4, <4>1, <4>2 DEF Data
      <3>3. Types'
        BY <1>8, <2>1, <2>2, <3>1, <3>2 DEF task_read, callerVars, Types,
           Results
      <3>4. LockHeld' /\ OneJob' /\ Waiting'
        BY <1>8, <2>1, BetweenPreserves DEF task_read, callerVars, Between
      <3>5. Phase' /\ Reading' /\ ReadDone'
        BY <1>8, <2>1, <3>1 DEF task_read, Phase, Reading, ReadDone, InitPhases
      <3> QED BY <3>3, <3>4, <3>5
    <2> QED BY <2>3, <2>4
  <1> QED BY <1>1, <1>2, <1>3, <1>4, <1>5, <1>6, <1>7, <1>8 DEF Task

\* And so does every step.
LEMMA NextIInv == IInv /\ [Next]_vars => IInv'
  <1> SUFFICES ASSUME IInv, [Next]_vars PROVE IInv'
    OBVIOUS
  <1>1. CASE UNCHANGED vars
    BY <1>1 DEF vars, IInv, Types, LockHeld, OneJob, Outstanding, Waiting,
                InHand, Phase, Reading, ReadDone
  <1> QED BY <1>1, TaskPreserves, CallersPreserve DEF Next

-----------------------------------------------------------------------------
(* Results                                                                 *)

\* The variables of sdcard.c keep their types, and the queue never overflows.
THEOREM TypeCorrect == Spec => []TypeOK
  <1>1. IInv => TypeOK
    BY FollowFacts DEF IInv, Types, OneJob, TypeOK, InitPhases
  <1> QED BY <1>1, InitIInv, NextIInv, PTL DEF Spec

\* On every path through sdcard_init_card, sdcard_read_block and the jobs,
\* the chip select and the speed are what the next step needs.
THEOREM BusCorrect == Spec => []BusFollowsPhase
  <1>1. IInv => BusFollowsPhase
    BY FollowFacts DEF IInv, Phase, Reading, BusFollowsPhase, InitPhases
  <1> QED BY <1>1, InitIInv, NextIInv, PTL DEF Spec

\* sdcard_dacc_exec_job returns the result of its own job, and RES_OK from a
\* read means that every block asked for is in the buffer as it was sent.
THEOREM ResultsCorrect == Spec => []ReturnsOwnResult
  <1>1. IInv => ReturnsOwnResult
    BY DEF IInv, Waiting, ReadDone, Blocks, ReturnsOwnResult, OkMeansAllBlocks
  <1> QED BY <1>1, InitIInv, NextIInv, PTL DEF Spec
=============================================================================
