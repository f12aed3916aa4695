------------------------------- MODULE EventLog -------------------------------
(***************************************************************************)
(* overcrow-logging: any thread of a process offers events to a bounded    *)
(* queue and never waits; one worker thread writes them to the component's *)
(* log file, which is rotated through ARCHIVE_COUNT archives.  Here are    *)
(* one component's files over the lives of its process, the threads that   *)
(* log, the worker, the shutdown, and a process that reads the files while *)
(* they are written and rotated (Control's diagnostics).                   *)
(*                                                                         *)
(* Events are numbered as they are offered, lines as they are written to   *)
(* the files; a line is one unit long.  A failed write leaves the line out *)
(* or a piece of it in; the piece has the line's number.                   *)
(***************************************************************************)
EXTENDS Integers, Sequences, FiniteSets

CONSTANTS QUEUE_CAPACITY, ARCHIVE_COUNT,
          MaxFile,    \* MAX_FILE_BYTES, in lines
          Budgets     \* records [events, faults, starts, reads]

VARIABLES process,  \* "up", "stopping" (in Drop) or "down"
          shutdown, \* the flag the worker polls
          queue, dropped,
          worker,   \* [pc, event, count, drains]: drains is -1 before the flag is seen
          sink,     \* "file" or "stderr"
          rotation, \* the step of FileSink::rotate under way, or NotRotating
          file,     \* the lines of the log file, or Gone
          archives, \* 1..ARCHIVE_COUNT -> lines, or Gone
          serial,   \* the number of the last line written to the files
          reader,   \* [at, lines]: read_recent_logs_in, the file it reads next
          next,     \* the number of the next event
          life,     \* [first, early, out, lost, reported]: of this life of the process
          budget

vars == <<process, shutdown, queue, dropped, worker, sink, rotation, file, archives, serial,
          reader, next, life, budget>>

Gone == <<0>>
Lines(f) == IF f = Gone THEN <<>> ELSE f
Loop == [pc |-> "loop", event |-> 0, count |-> 0, drains |-> -1]
Ended == [Loop EXCEPT !.pc = "ended"]
NotRotating == -2
NotReading == [at |-> -1, lines |-> <<>>]
Born(n) == [first |-> n, early |-> 0, out |-> {}, lost |-> {}, reported |-> 0]

Init ==
    /\ process = "down" /\ shutdown = FALSE /\ queue = <<>> /\ dropped = 0
    /\ worker = Ended /\ sink = "stderr" /\ rotation = NotRotating
    /\ file = Gone /\ archives = [g \in 1..ARCHIVE_COUNT |-> Gone] /\ serial = 0
    /\ reader = NotReading
    /\ next = 1 /\ life = Born(1)
    /\ budget \in Budgets

Spent(kind) == [budget EXCEPT ![kind] = @ - 1]
MayFail == {x \in BOOLEAN : x => budget.faults > 0}
Charge(fails) == budget' = IF fails THEN Spent("faults") ELSE budget

------------------------------------------------------------------------------
(* The process.                                                            *)

\* open_log_file: made if it is missing, appended to otherwise.
OpenLogFile(f) == Lines(f)

\* LoggerRuntime::start_in and FileSink::open: a directory, an archive or a file that
\* cannot be opened, is not private or is too large leaves stderr.
Start ==
    /\ process = "down" /\ budget.starts > 0
    /\ process' = "up" /\ shutdown' = FALSE
    /\ queue' = <<>> /\ dropped' = 0
    /\ worker' = Loop
    /\ \E opens \in BOOLEAN :
         /\ sink' = IF opens THEN "file" ELSE "stderr"
         /\ file' = IF opens THEN OpenLogFile(file) ELSE file
    /\ life' = Born(next)
    /\ budget' = Spent("starts")
    /\ UNCHANGED <<rotation, archives, serial, reader, next>>

\* EventLogger::enqueue, by any thread, also while Drop waits.
Enqueue ==
    /\ process # "down" /\ budget.events > 0
    /\ budget' = Spent("events")
    /\ next' = next + 1
    /\ IF Len(queue) < QUEUE_CAPACITY /\ worker.pc # "ended"
         THEN queue' = Append(queue, next) /\ UNCHANGED <<dropped, life>>
         ELSE dropped' = dropped + 1 /\ life' = [life EXCEPT !.lost = @ \cup {next}] /\ UNCHANGED queue
    /\ UNCHANGED <<process, shutdown, worker, sink, rotation, file, archives, serial, reader>>

\* Drop sets the flag and waits for the worker ...
BeginDrop ==
    /\ process = "up"
    /\ process' = "stopping" /\ shutdown' = TRUE
    /\ life' = [life EXCEPT !.early = next - 1]
    /\ UNCHANGED <<queue, dropped, worker, sink, rotation, file, archives, serial, reader,
                   next, budget>>

\* ... until it has stopped, or for WORKER_SHUTDOWN_TIMEOUT; then the process ends, the
\* worker with it wherever it is.  A crash ends it the same way.
Exit ==
    /\ process # "down"
    /\ process' = "down" /\ worker' = Ended /\ rotation' = NotRotating
    /\ queue' = <<>> /\ dropped' = 0 /\ life' = Born(next)
    /\ UNCHANGED <<shutdown, sink, file, archives, serial, reader, next, budget>>

------------------------------------------------------------------------------
(* run_worker.                                                             *)

WorkerStays == UNCHANGED <<process, shutdown, reader, next>>
FilesStay == UNCHANGED <<sink, rotation, file, archives, serial>>

PollShutdown ==
    /\ worker.pc = "loop"
    /\ worker' = IF shutdown THEN [worker EXCEPT !.pc = "drain", !.drains = 0]
                 ELSE [worker EXCEPT !.pc = "recv"]
    /\ FilesStay /\ WorkerStays /\ UNCHANGED <<queue, dropped, life, budget>>

Taking(drains) ==
    /\ queue' = Tail(queue)
    /\ worker' = [worker EXCEPT !.pc = "swap", !.event = Head(queue), !.drains = drains]

\* recv_timeout.
Recv ==
    /\ worker.pc = "recv"
    /\ IF queue = <<>> THEN worker' = Loop /\ UNCHANGED queue ELSE Taking(-1)
    /\ FilesStay /\ WorkerStays /\ UNCHANGED <<dropped, life, budget>>

DrainsLeft(drains) == drains < QUEUE_CAPACITY

\* The loop after the flag: what the queue held, and no more than it can hold.
Drain ==
    /\ worker.pc = "drain"
    /\ IF queue # <<>> /\ DrainsLeft(worker.drains) THEN Taking(worker.drains + 1)
       ELSE worker' = [worker EXCEPT !.pc = "swap", !.event = 0] /\ UNCHANGED queue
    /\ FilesStay /\ WorkerStays /\ UNCHANGED <<dropped, life, budget>>

\* Where the worker goes when the line of the event, or after the drain the last count
\* of dropped events, has been written.
AfterReport == IF worker.event = 0 THEN Ended ELSE [worker EXCEPT !.pc = "write", !.count = 0]
AfterWrite ==
    IF worker.drains < 0 THEN Loop ELSE [worker EXCEPT !.pc = "drain", !.event = 0, !.count = 0]

\* Mutant: the count of dropped lines is read and not taken.
TakeDropped_peek == UNCHANGED dropped

TakeDropped == dropped' = 0

\* The first half of write_dropped.
SwapDropped ==
    /\ worker.pc = "swap"
    /\ worker' = IF dropped > 0 THEN [worker EXCEPT !.pc = "report", !.count = dropped] ELSE AfterReport
    /\ TakeDropped
    /\ FilesStay /\ WorkerStays /\ UNCHANGED <<queue, life, budget>>

Written ==
    /\ worker' = IF worker.pc = "report" THEN AfterReport ELSE AfterWrite
    /\ life' = IF worker.pc = "report" THEN [life EXCEPT !.reported = @ + worker.count]
               ELSE [life EXCEPT !.out = @ \cup {worker.event}]

Writing == worker.pc \in {"report", "write"} /\ rotation = NotRotating
Fits == Len(file) < MaxFile

\* Sink::write once a file sink has failed, or was never opened.
WriteStderr ==
    /\ Writing /\ sink = "stderr"
    /\ Written
    /\ FilesStay /\ WorkerStays /\ UNCHANGED <<queue, dropped, budget>>

\* FileSink::write with room in the file; a write that fails falls back to stderr.
WriteFile ==
    /\ Writing /\ sink = "file" /\ Fits
    /\ \E fails \in MayFail, piece \in BOOLEAN :
         /\ IF fails THEN sink' = "stderr" /\ UNCHANGED <<worker, life>>
            ELSE Written /\ UNCHANGED sink
         /\ IF fails /\ ~piece THEN UNCHANGED <<file, serial>>
            ELSE file' = Append(file, serial + 1) /\ serial' = serial + 1
         /\ Charge(fails)
    /\ WorkerStays /\ UNCHANGED <<rotation, archives, queue, dropped>>

------------------------------------------------------------------------------
(* FileSink::rotate, one file operation at a time.  rotation is            *)
(* ARCHIVE_COUNT while the archives are validated and the oldest removed,  *)
(* then the archive to be renamed, 0 for the log file, -1 to open it anew. *)

BeginRotate ==
    /\ Writing /\ sink = "file" /\ ~Fits
    /\ rotation' = ARCHIVE_COUNT
    /\ WorkerStays
    /\ UNCHANGED <<worker, sink, file, archives, serial, queue, dropped, life, budget>>

\* Mutant: the shift of the archives starts at the second.
RotateFiles_off_by_one(step) ==
    CASE step = ARCHIVE_COUNT -> <<file, [archives EXCEPT ![step] = Gone]>>
      [] step \in 2..(ARCHIVE_COUNT - 1) ->
           <<file, IF archives[step] = Gone THEN archives
                   ELSE [archives EXCEPT ![step + 1] = archives[step], ![step] = Gone]>>
      [] step = 1 -> <<file, archives>>
      [] step = 0 -> <<Gone, IF file = Gone THEN archives ELSE [archives EXCEPT ![1] = file]>>
      [] OTHER -> <<OpenLogFile(file), archives>>

\* What one step of rotate_files does to <<file, archives>>.
RotateFiles(step) ==
    CASE step = ARCHIVE_COUNT -> <<file, [archives EXCEPT ![step] = Gone]>>
      [] step \in 1..(ARCHIVE_COUNT - 1) ->
           <<file, IF archives[step] = Gone THEN archives
                   ELSE [archives EXCEPT ![step + 1] = archives[step], ![step] = Gone]>>
      [] step = 0 -> <<Gone, IF file = Gone THEN archives ELSE [archives EXCEPT ![1] = file]>>
      [] OTHER -> <<OpenLogFile(file), archives>>

RotateStep ==
    /\ rotation # NotRotating
    /\ \E fails \in MayFail :
         /\ file' = IF fails THEN file ELSE RotateFiles(rotation)[1]
         /\ archives' = IF fails THEN archives ELSE RotateFiles(rotation)[2]
         /\ rotation' = IF fails THEN NotRotating ELSE rotation - 1
         /\ sink' = IF fails THEN "stderr" ELSE sink
         /\ Charge(fails)
    /\ WorkerStays /\ UNCHANGED <<worker, serial, queue, dropped, life>>

------------------------------------------------------------------------------
(* read_recent_logs_in for this component: the archives from the oldest    *)
(* on, then the log file; the lines are then sorted by their time.         *)

BeginRead ==
    /\ reader.at < 0 /\ budget.reads > 0
    /\ reader' = [at |-> ARCHIVE_COUNT, lines |-> <<>>]
    /\ budget' = Spent("reads")
    /\ FilesStay /\ UNCHANGED <<process, shutdown, queue, dropped, worker, next, life>>

Generation(at) == at

ReadSafeLines ==
    /\ reader.at >= 0
    /\ LET g == Generation(reader.at)
       IN  reader' = [at |-> reader.at - 1,
                      lines |-> reader.lines \o Lines(IF g = 0 THEN file ELSE archives[g])]
    /\ FilesStay /\ UNCHANGED <<process, shutdown, queue, dropped, worker, next, life, budget>>

Work == PollShutdown \/ Recv \/ Drain \/ SwapDropped \/ WriteStderr \/ WriteFile \/ BeginRotate
        \/ RotateStep

Next == Start \/ Enqueue \/ BeginDrop \/ Exit \/ Work \/ BeginRead \/ ReadSafeLines

Spec == Init /\ [][Next]_vars

------------------------------------------------------------------------------
(* Properties.                                                             *)

\* Every event a live process has offered is written, or counted in an events_dropped
\* line, or still to be: in the queue, in the counter, or in the worker's hands.
Accounted ==
    process # "down" =>
      next - life.first = Cardinality(life.out) + life.reported + Len(queue) + dropped
                          + (IF worker.event > 0 THEN 1 ELSE 0) + worker.count

\* When the worker has stopped in time, everything that was offered before Drop has been
\* written, or counted in an events_dropped line, also if the queue was full.
EarlyIsWritten ==
    process = "stopping" /\ worker.pc = "ended" =>
      LET early == life.first..life.early
      IN  /\ early \subseteq life.out \cup life.lost
          /\ life.reported >= Cardinality(early \cap life.lost)

\* The numbers of the lines in a file, and in all of them.
Numbers(f) == {Lines(f)[k] : k \in DOMAIN Lines(f)}
Held == Numbers(file) \cup UNION {Numbers(archives[g]) : g \in 1..ARCHIVE_COUNT}

\* Whatever step of a rotation fails or is the last one before a crash, and however the
\* next start goes on from there, a line is only ever lost with the oldest archive.
LosesOnlyTheOldest == Held \ Held' \subseteq Numbers(archives[ARCHIVE_COUNT])

\* A reader that meets a rotation may miss lines, but it never shows one twice.
ReadsNoLineTwice ==
    \A j, k \in DOMAIN reader.lines : j # k => reader.lines[j] # reader.lines[k]

\* What is said of an event, and of a line: none of them is lost or shown twice unnoticed.
LinesAreAccounted == Accounted /\ EarlyIsWritten /\ ReadsNoLineTwice

\* The same of every step.
OnlyTheOldestIsLost == [][LosesOnlyTheOldest]_vars
==============================================================================
