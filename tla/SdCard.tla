-------------------------------- MODULE SdCard --------------------------------
(***************************************************************************)
(* module/mgmt/sdcard.c: the SD card driver.  Tasks that use the disk call *)
(* it through core/disk_access.c, under the lock FatFs keeps per volume    *)
(* (integration/fatfs/ffsystem.c).  A call puts a job in a queue and waits *)
(* for a task notification; sdcard_task talks to the card over SPI and     *)
(* notifies the caller with the result.                                    *)
(*                                                                         *)
(* A command to the card and its answer are one step.  The card is the     *)
(* environment and may answer anything: "busy" stands for a command that   *)
(* could not be sent in time, "none" for no answer in time, "idle" and     *)
(* "ready" for an r1 of 0x01 and 0x00, "error" for any other r1.  A result *)
(* is the set of its bits, as xTaskNotify(..., eSetBits) joins the bits of *)
(* several notifications.                                                  *)
(***************************************************************************)
EXTENDS Integers, Sequences

CONSTANTS
  Callers,     \* tasks that use the file system
  MaxCount,    \* the most sectors one call reads
  InitRetries, \* SDCARD_INIT_RETRIES
  QueueLen,    \* SDCARD_REQUEST_QUEUE_LENGTH
  NULL

ASSUME BoundsAssumption ==
  MaxCount \in Nat \ {0} /\ InitRetries \in Nat \ {0} /\ QueueLen \in Nat \ {0}
ASSUME NullAssumption == NULL \notin Callers

VARIABLES
  lock,            \* the volume's mutex: its holder or NULL
  cpc,             \* callers: "idle", "grant", "held", "wait"
  value, pending,  \* their notification value and state
  ret,             \* what their last call returned
  jobs,            \* sdc->jobs
  tpc, job,        \* sdcard_task: its next step, and the job it works on
  retries, result, block,  \* its locals; block is the i of the read loop
  cs,              \* the level of the chip select pin
  baud,            \* the configured speed of the SPI interface
  card_available, reg_ocr, \* reg_ocr is its high capacity bit
  truth,           \* history: the result of a caller's job, once it is done
  buff             \* history: the blocks in a caller's buffer

vars == <<lock, cpc, value, pending, ret, jobs, tpc, job, retries, result,
          block, cs, baud, card_available, reg_ocr, truth, buff>>
callerVars == <<lock, cpc, value, pending, ret>>
taskVars == <<tpc, job, retries, result, block, cs, baud, card_available,
              reg_ocr>>

RES_OK == {}
RES_ERROR == {0}
RES_NOTRDY == {0, 1}
STA_NODISK == {1}
Done == 24  \* the bit 0x01000000
Results == {RES_OK, RES_ERROR, RES_NOTRDY, STA_NODISK}

R1 == {"busy", "none", "error", "idle", "ready"}

\* After sdcard_init.
Init ==
  /\ lock = NULL
  /\ cpc = [c \in Callers |-> "idle"]
  /\ value = [c \in Callers |-> {}]
  /\ pending = [c \in Callers |-> FALSE]
  /\ ret = [c \in Callers |-> NULL]
  /\ jobs = <<>>
  /\ tpc = "receive" /\ job = NULL
  /\ retries = 0 /\ result = RES_OK /\ block = 0
  /\ cs = TRUE
  /\ baud = "startup"
  /\ card_available = FALSE /\ reg_ocr = FALSE
  /\ truth = [c \in Callers |-> NULL]
  /\ buff = [c \in Callers |-> <<>>]

-----------------------------------------------------------------------------
(* Callers                                                                 *)

\* A file system call asks for the volume.
fs_call(c) ==
  /\ cpc[c] = "idle"
  /\ cpc' = [cpc EXCEPT ![c] = "grant"]
  /\ UNCHANGED <<lock, value, pending, ret, jobs, taskVars, truth, buff>>

ff_req_grant(c) ==
  /\ cpc[c] = "grant"
  /\ \/ /\ lock = NULL
        /\ lock' = c
        /\ cpc' = [cpc EXCEPT ![c] = "held"]
     \/ /\ lock # NULL  \* FF_FS_TIMEOUT
        /\ cpc' = [cpc EXCEPT ![c] = "idle"]
        /\ UNCHANGED lock
  /\ UNCHANGED <<value, pending, ret, jobs, taskVars, truth, buff>>

ff_rel_grant(c) ==
  /\ cpc[c] = "held"
  /\ lock' = NULL
  /\ cpc' = [cpc EXCEPT ![c] = "idle"]
  /\ ret' = [ret EXCEPT ![c] = NULL]
  /\ UNCHANGED <<value, pending, jobs, taskVars, truth, buff>>

\* The jobs of sdcard_dacc_initialize, status, read, write and ioctl; the
\* last one is sent with the id of a write.
Jobs(c) ==
  [calling_task : {c}, job_id : {"INITIALIZE", "STATUS", "WRITE"}, count : {0}]
    \cup
  [calling_task : {c}, job_id : {"READ"}, count : 1 .. MaxCount]

\* sdcard_dacc_exec_job up to its wait.  The value is cleared, the state of
\* the notification is not.
exec_job_send(c, j) ==
  /\ cpc[c] = "held"
  /\ Len(jobs) < QueueLen
  /\ value' = [value EXCEPT ![c] = {}]
  /\ jobs' = Append(jobs, j)
  /\ cpc' = [cpc EXCEPT ![c] = "wait"]
  /\ ret' = [ret EXCEPT ![c] = NULL]
  /\ truth' = [truth EXCEPT ![c] = NULL]
  /\ buff' = [buff EXCEPT ![c] = <<>>]
  /\ UNCHANGED <<lock, pending, taskVars>>

\* Mutant of exec_job_wait: the wait has a timeout.
exec_job_wait_timeout(c) ==
  /\ cpc[c] = "wait"
  /\ ret' = [ret EXCEPT ![c] = value[c] \ {Done}]
  /\ value' = [value EXCEPT ![c] = {}]
  /\ pending' = [pending EXCEPT ![c] = FALSE]
  /\ cpc' = [cpc EXCEPT ![c] = "held"]
  /\ UNCHANGED <<lock, jobs, taskVars, truth, buff>>

\* Any notification ends the wait; the caller takes the result from it.
\* (An initialize that fails with any result is STA_NODISK to FatFs.)
exec_job_wait(c) ==
  /\ cpc[c] = "wait"
  /\ pending[c]
  /\ ret' = [ret EXCEPT ![c] = value[c] \ {Done}]
  /\ value' = [value EXCEPT ![c] = {}]
  /\ pending' = [pending EXCEPT ![c] = FALSE]
  /\ cpc' = [cpc EXCEPT ![c] = "held"]
  /\ UNCHANGED <<lock, jobs, taskVars, truth, buff>>

\* disk_initialize and the other functions FatFs calls: the driver of the
\* volume's disk gets the call.
disk_call(c) == \E j \in Jobs(c) : exec_job_send(c, j)

-----------------------------------------------------------------------------
(* sdcard_task                                                             *)

\* The first step of a job: an initialisation slows SPI down, a status or an
\* error is answered at once.
task_receive ==
  /\ tpc = "receive"
  /\ jobs # <<>>
  /\ job' = Head(jobs)
  /\ jobs' = Tail(jobs)
  /\ \/ /\ job'.job_id = "INITIALIZE"
        /\ tpc' = "start"
        /\ retries' = InitRetries
        /\ baud' = "startup"
        /\ UNCHANGED <<result, block>>
     \/ /\ job'.job_id = "READ" /\ card_available
        /\ tpc' = "CMD17"
        /\ result' = RES_OK /\ block' = 0
        /\ UNCHANGED <<retries, baud>>
     \/ /\ job'.job_id # "INITIALIZE"
        /\ job'.job_id = "READ" => ~card_available
        /\ tpc' = "notify"
        /\ result' = CASE job'.job_id = "STATUS" ->
                            (IF card_available THEN RES_OK ELSE STA_NODISK)
                       [] job'.job_id = "READ" -> RES_NOTRDY
                       [] job'.job_id = "WRITE" -> RES_ERROR
        /\ UNCHANGED <<retries, block, baud>>
  /\ UNCHANGED <<callerVars, cs, card_available, reg_ocr, truth, buff>>

\* sdcard_init_card: clocks with the card deselected, then select it.
init_card_start ==
  /\ tpc = "start"
  /\ cs' = FALSE
  /\ tpc' = "CMD0"
  /\ UNCHANGED <<callerVars, jobs, job, retries, result, block, baud,
                 card_available, reg_ocr, truth, buff>>

\* Mutant of attempt_ends: the attempts are not counted.
attempt_ends_uncounted(ok) ==
  /\ result' = IF ok THEN RES_OK ELSE RES_ERROR
  /\ retries' = retries
  /\ tpc' = IF ok THEN "configure" ELSE "start"

\* while(result != 0 && --retries)
attempt_ends(ok) ==
  /\ result' = IF ok THEN RES_OK ELSE RES_ERROR
  /\ retries' = IF ok THEN retries ELSE retries - 1
  /\ tpc' = IF ok \/ retries' = 0 THEN "configure" ELSE "start"

\* The answers with which sdcard_init_card goes on after a command, and the
\* command that follows.
Follow == [
  CMD0   |-> [idle |-> "CMD8"],
  CMD8   |-> [idle |-> "CMD55"],
  CMD55  |-> [idle |-> "ACMD41"],
  ACMD41 |-> [idle |-> "CMD55", ready |-> "CMD58"],
  CMD58  |-> [ready |-> "CMD9"]]

\* A command of sdcard_init_card that has no data block.  good is the echo
\* of CMD8, and the high capacity bit in the answer of CMD58.
init_card_command(r1, good) ==
  /\ tpc \in DOMAIN Follow
  /\ tpc = "CMD0" => r1 # "busy"
  /\ IF r1 \in DOMAIN Follow[tpc] /\ (tpc = "CMD8" => good)
     THEN /\ tpc' = Follow[tpc][r1]
          /\ cs' = (tpc = "CMD58")
          /\ UNCHANGED <<retries, result>>
     ELSE /\ cs' = TRUE
          /\ attempt_ends(FALSE)
  /\ reg_ocr' = IF tpc = "CMD58" THEN good ELSE reg_ocr
  /\ UNCHANGED <<callerVars, jobs, job, block, baud, card_available, truth,
                 buff>>

\* sdcard_read_block selects the card ...
read_block_select ==
  /\ tpc \in {"CMD9", "CMD10", "CMD17"}
  /\ cs
  /\ cs' = FALSE
  /\ UNCHANGED <<callerVars, jobs, tpc, job, retries, result, block, baud,
                 card_available, reg_ocr, truth, buff>>

\* What comes back: the command fails before there is data, or there is data
\* that is as it was sent (crc) or not.
Data == {"refused", "damaged", "sound"}

\* Mutant of read_block: the card stays selected after an error.
read_block_selected(d) == cs' = (d = "sound")

\* Mutant of read_block_ok: the checksum of the data is not compared.
read_block_ok_unchecked(d) == d # "refused"

read_block_ok(d) == d = "sound"

\* ... and deselects it on every path.
read_block(d) == cs' = TRUE

\* The registers CSD (CMD9) and CID (CMD10).  good: CSD has version 2, CID a
\* valid crc7.
init_card_register(d, good) ==
  /\ tpc \in {"CMD9", "CMD10"}
  /\ ~cs
  /\ read_block(d)
  /\ LET ok == read_block_ok(d) /\ good /\ (tpc = "CMD9" => reg_ocr)
     IN IF tpc = "CMD9" /\ ok
        THEN /\ tpc' = "CMD10"
             /\ UNCHANGED <<retries, result, card_available>>
        ELSE /\ attempt_ends(ok)
             /\ card_available' = (card_available \/ ok)
  /\ UNCHANGED <<callerVars, jobs, job, block, baud, reg_ocr, truth, buff>>

\* sdcard_spi_configure_running, after the last attempt.
task_configure ==
  /\ tpc = "configure"
  /\ baud' = "running"
  /\ tpc' = "notify"
  /\ UNCHANGED <<callerVars, jobs, job, retries, result, block, cs,
                 card_available, reg_ocr, truth, buff>>

\* One block of a read.  The data is in the caller's buffer before its
\* checksum is compared.
task_read(d) ==
  /\ tpc = "CMD17"
  /\ ~cs
  /\ read_block(d)
  /\ block' = block + 1
  /\ buff' = [buff EXCEPT ![job.calling_task] =
                IF d = "refused" THEN @ ELSE Append(@, <<block, d>>)]
  /\ result' = IF read_block_ok(d) THEN result ELSE RES_ERROR
  /\ tpc' = IF block' < job.count /\ result' = RES_OK THEN "CMD17" ELSE "notify"
  /\ UNCHANGED <<callerVars, jobs, job, retries, baud, card_available, reg_ocr,
                 truth>>

task_notify ==
  /\ tpc = "notify"
  /\ LET c == job.calling_task IN
     /\ value' = [value EXCEPT ![c] = @ \cup {Done} \cup result]
     /\ pending' = [pending EXCEPT ![c] = TRUE]
     /\ truth' = [truth EXCEPT ![c] = result]
  /\ tpc' = "receive"
  /\ job' = NULL
  /\ UNCHANGED <<lock, cpc, ret, jobs, retries, result, block, cs, baud,
                 card_available, reg_ocr, buff>>

-----------------------------------------------------------------------------
Caller(c) ==
  \/ fs_call(c) \/ ff_req_grant(c) \/ ff_rel_grant(c)
  \/ disk_call(c) \/ exec_job_wait(c)

Task ==
  \/ task_receive \/ init_card_start \/ read_block_select \/ task_configure
  \/ task_notify
  \/ \E r1 \in R1, good \in BOOLEAN : init_card_command(r1, good)
  \/ \E d \in Data, good \in BOOLEAN : init_card_register(d, good)
  \/ \E d \in Data : task_read(d)

Next == Task \/ \E c \in Callers : Caller(c)

Spec == Init /\ [][Next]_vars

\* The driver's task runs, and so does a caller that was notified.  Nothing is
\* assumed of the card.
FairSpec ==
  /\ Spec
  /\ WF_vars(Task)
  /\ \A c \in Callers : WF_vars(exec_job_wait(c))

-----------------------------------------------------------------------------
(* Properties                                                              *)

\* Every variable keeps its type.
TypeOK ==
  /\ lock \in Callers \cup {NULL}
  /\ cpc \in [Callers -> {"idle", "grant", "held", "wait"}]
  /\ value \in [Callers -> SUBSET {0, 1, Done}]
  /\ pending \in [Callers -> BOOLEAN]
  /\ ret \in [Callers -> Results \cup {NULL}]
  /\ Len(jobs) <= QueueLen
  /\ tpc \in {"receive", "start", "CMD9", "CMD10", "CMD17", "configure",
              "notify"} \cup DOMAIN Follow
  /\ retries \in 0 .. InitRetries
  /\ result \in Results
  /\ block \in 0 .. MaxCount
  /\ cs \in BOOLEAN /\ card_available \in BOOLEAN /\ reg_ocr \in BOOLEAN
  /\ baud \in {"startup", "running"}

\* However a job ended, with whichever of the many error returns, the chip
\* select is released before its caller is told and before the next job; the
\* card is identified at the start-up speed and read at the running one.
BusFollowsPhase ==
  /\ tpc \in {"receive", "configure", "notify"} => cs
  /\ tpc \in DOMAIN Follow \cup {"start", "CMD9", "CMD10"} => baud = "startup"
  /\ tpc = "CMD17" => baud = "running"

\* A read that returns RES_OK left every block asked for in the buffer, in
\* order and as the card sent it.
OkMeansAllBlocks ==
  \A c \in Callers :
    tpc = "notify" /\ job.calling_task = c /\ job.job_id = "READ"
      /\ result = RES_OK =>
        buff[c] = [i \in 1 .. job.count |-> <<i - 1, "sound">>]

\* A call returns the result of its own job, and not before the driver has
\* finished with that job and with the buffer it points to; and a good result
\* means good data.
ReturnsOwnResult ==
  /\ \A c \in Callers : cpc[c] = "held" /\ ret[c] # NULL => ret[c] = truth[c]
  /\ OkMeansAllBlocks

\* Repeating ACMD41 (with CMD55 before it) while the card says it is idle.
PollsIdle == tpc \in {"CMD55", "ACMD41"}

\* With a card that fails at any command every call of the driver returns, and
\* those behind it in the queue, but for one case that the code does not bound:
\* a card that stays in its idle state is asked for ever (sdcard.c:443).
CallsReturn ==
  (\A c \in Callers : cpc[c] = "wait" ~> cpc[c] = "held") \/ <>[]PollsIdle
=============================================================================
