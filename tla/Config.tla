-------------------------------- MODULE Config --------------------------------
(***************************************************************************)
(* core/config.c: cf_init reads configuration files in the order in which  *)
(* they were queued, starting with /int/boot.cfg; an "inc" line queues     *)
(* another file.  The queue is a ring of paths.                            *)
(*                                                                         *)
(* The boot file starts with the lines of Prelude; every other line may be *)
(* any of Lines, and files end anywhere: MaxLines bounds what is read in   *)
(* all, so that no file includes itself for ever.  A line is split into    *)
(* words; lines starting with "sch" and "mod" are processed by Boot.       *)
(***************************************************************************)
EXTENDS Map, SequencesExt

CONSTANTS
  Paths,
  BootFile,  \* /int/boot.cfg
  QueueLen,  \* CONFIG_PATH_QUEUE_LENGTH
  Prelude, Lines,
  MaxLines   \* bound: lines read after the prelude

AllLines == Lines \cup ToSet(Prelude)
PerLines == {l \in AllLines : l[1] = "per"}
Words == UNION {ToSet(l[3]) : l \in PerLines}

ASSUME PathsAssumption == BootFile \in Paths /\ NULL \notin Paths
ASSUME QueueAssumption == QueueLen \in Nat \ {0, 1}
ASSUME LinesAssumption ==
  /\ Prelude \in Seq(AllLines)
  /\ \A l \in AllLines : l[1] = "inc" => l[2] \in Paths
  /\ \A l \in PerLines :
       l[3] \in Seq(Words) /\ l[3] # NULL /\ <<l[2], l[3]>> # NULL

VARIABLES
  cf_path_queue, cf_queue_head, cf_queue_tail,
  cf_peripherals, \* a map from tags to the words of per lines
  pc,             \* "next": the while loop; "read": in a file; "line", "args",
                  \* "init": processing a line; "done", "failed": returned
  line,           \* cf_linebuf
  prelude, count, \* lines of the prelude still to be read; lines read after it
  pushed, loaded, \* history: paths queued, files opened
  peak,           \* history: the most paths that were pending at one time
  pers            \* history: the per lines processed

cfVars == <<cf_path_queue, cf_queue_head, cf_queue_tail, cf_peripherals, pc, line,
            prelude, count, pushed, loaded, peak, pers>>
queueVars == <<cf_path_queue, cf_queue_head, cf_queue_tail, pushed, loaded, peak>>

Ring == 0 .. (QueueLen - 1)

Slot(i) == (i + 1) % QueueLen

\* cf_init queues its argument.
CfInit ==
  /\ cf_path_queue = [i \in Ring |-> IF i = 0 THEN BootFile ELSE NULL]
  /\ cf_queue_head = 0
  /\ cf_queue_tail = Slot(0)
  /\ cf_peripherals = map_create
  /\ pc = "next" /\ line = NULL
  /\ prelude = Prelude /\ count = 0
  /\ pushed = <<BootFile>> /\ loaded = <<>> /\ peak = 1
  /\ pers = <<>>

\* f_open succeeds; the path leaves the queue before the lines are read.
cf_open(mounted) ==
  /\ pc = "next"
  /\ cf_queue_head # cf_queue_tail
  /\ cf_path_queue[cf_queue_head] \in mounted
  /\ loaded' = Append(loaded, cf_path_queue[cf_queue_head])
  /\ cf_queue_head' = Slot(cf_queue_head)
  /\ pc' = "read"
  /\ UNCHANGED <<cf_path_queue, cf_queue_tail, cf_peripherals, line, prelude, count,
                 pushed, peak, pers>>

\* f_open fails, with or without the volume: cf_init returns -1 and main_task
\* suspends itself.
cf_open_fail ==
  /\ pc = "next"
  /\ cf_queue_head # cf_queue_tail
  /\ pc' = "failed"
  /\ UNCHANGED <<queueVars, cf_peripherals, line, prelude, count, pers>>

\* f_gets and strops_split_argv.
cf_gets ==
  /\ pc = "read"
  /\ IF prelude # <<>>
     THEN line' = Head(prelude) /\ prelude' = Tail(prelude) /\ UNCHANGED count
     ELSE /\ count < MaxLines
          /\ line' \in Lines
          /\ count' = count + 1
          /\ UNCHANGED prelude
  /\ pc' = "line"
  /\ UNCHANGED <<queueVars, cf_peripherals, pers>>

cf_close ==
  /\ pc = "read" /\ prelude = <<>>
  /\ pc' = "next"
  /\ UNCHANGED <<queueVars, cf_peripherals, line, prelude, count, pers>>

\* cf_process_line returns 0, or -1, and then so does cf_init.
Return0 == pc' = "read" /\ line' = NULL
ReturnError == pc' = "failed" /\ line' = NULL

cf_process_per ==
  /\ pc = "line" /\ line[1] = "per"
  /\ cf_peripherals' = map_set(cf_peripherals, line[2], line[3])
  /\ pers' = Append(pers, <<line[2], line[3]>>)
  /\ Return0
  /\ UNCHANGED <<queueVars, prelude, count>>

\* Mutant of cf_process_inc: the tail is not advanced.
process_inc_no_tail ==
  /\ pc = "line" /\ line[1] = "inc"
  /\ cf_path_queue' = [cf_path_queue EXCEPT ![cf_queue_tail] = line[2]]
  /\ pushed' = Append(pushed, line[2])
  /\ peak' = Max({peak, Len(pushed') - Len(loaded)})
  /\ Return0
  /\ UNCHANGED <<cf_queue_head, cf_queue_tail, loaded, cf_peripherals, prelude, count,
                 pers>>

cf_process_inc ==
  /\ pc = "line" /\ line[1] = "inc"
  /\ cf_path_queue' = [cf_path_queue EXCEPT ![cf_queue_tail] = line[2]]
  /\ cf_queue_tail' = Slot(cf_queue_tail)
  /\ pushed' = Append(pushed, line[2])
  /\ peak' = Max({peak, Len(pushed') - Len(loaded)})
  /\ Return0
  /\ UNCHANGED <<cf_queue_head, loaded, cf_peripherals, prelude, count, pers>>

\* A comment, and a line that is none of the instructions.
cf_process_other ==
  /\ pc = "line" /\ line[1] \in {"#", "bad"}
  /\ IF line[1] = "#" THEN Return0 ELSE ReturnError
  /\ UNCHANGED <<queueVars, cf_peripherals, prelude, count, pers>>

\* The queue looks empty: cf_init returns 0.
cf_done ==
  /\ pc = "next"
  /\ cf_queue_head = cf_queue_tail
  /\ pc' = "done"
  /\ UNCHANGED <<queueVars, cf_peripherals, line, prelude, count, pers>>

CfTypeOK ==
  /\ cf_path_queue \in [Ring -> Paths \cup {NULL}]
  /\ cf_queue_head \in Ring /\ cf_queue_tail \in Ring
  /\ pushed \in Seq(Paths) /\ loaded \in Seq(Paths)

\* configuration.md: "Add file to a configuration read queue. Files are
\* loaded one at a time, and is read in order": so it is, and when cf_init
\* returns 0 every file that was queued has been read, as long as fewer than
\* QueueLen paths were ever pending at one time.  (With QueueLen of them the
\* full ring looks empty, and none is read.)
ReadsAllWithinCapacity ==
  peak < QueueLen => /\ IsPrefix(loaded, pushed)
                     /\ pc = "done" => loaded = pushed

=============================================================================
