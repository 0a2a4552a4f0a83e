-------------------------------- MODULE Log --------------------------------
(***************************************************************************)
(* The asynchronous logger of server/srcs/log/log.c.  The main thread      *)
(* formats a line in log_msg and puts it in a ring buffer under log_mutex; *)
(* log_worker_thread takes lines out under the same mutex and writes them  *)
(* to the log file and to the console without it.  log_close clears        *)
(* log_running, wakes the worker, joins it and closes the file.            *)
(*                                                                         *)
(* One step of a thread is what it does between two points where the other *)
(* thread can observe it: acquiring the mutex, the critical section with   *)
(* its release, a write, a join.  The critical section of either thread    *)
(* touches only what the mutex protects.                                   *)
(***************************************************************************)
EXTENDS Integers, Sequences

CONSTANTS
    LOG_QUEUE_SIZE,  \* slots of the ring; one always stays empty
    CallLevels,      \* levels log_msg is called with
    Thresholds,      \* values LOG_LEVEL may have in the configuration file
    InitOutcomes,    \* what fopen and pthread_create may do in log_init
    MaxCalls         \* bound on the calls of log_msg

ASSUME QueueSizeAssumption == LOG_QUEUE_SIZE \in Nat /\ LOG_QUEUE_SIZE >= 2
ASSUME LevelAssumption == CallLevels \subseteq Nat /\ Thresholds \subseteq Nat
ASSUME OutcomeAssumption == InitOutcomes \subseteq {"ok", "nofile", "nothread"}
ASSUME MaxCallsAssumption == MaxCalls \in Nat

LOG_LEVEL_ERROR == 0
LOG_LEVEL_BOOT == 1
LOG_LEVEL_WARN == 2

VARIABLES
    m_log_fp,         \* the log file is open
    m_log_threshold,
    log_running,
    log_mutex,        \* "free", or the thread that holds it
    log_queue,        \* the ring
    log_queue_head,   \* next slot to fill
    log_queue_tail,   \* next slot to take
    mpc,              \* where the main thread is
    line,             \* log_line and level of the log_msg call in progress
    wpc,              \* where the worker is; "none" before pthread_create
    entry,            \* the worker's copy of the slot it took
    file,             \* lines written to the log file
    console,          \* lines written to stdout and stderr, with their stream
    calls,            \* calls of log_msg so far
    accepted,         \* history: lines put in the ring
    lost              \* history: lines that found the ring full

ring == <<log_queue, log_queue_head, log_queue_tail>>
output == <<file, console>>
history == <<accepted, lost>>
vars == <<m_log_fp, m_log_threshold, log_running, log_mutex, ring, mpc, line,
          wpc, entry, output, calls, history>>

Slots == 0..(LOG_QUEUE_SIZE - 1)
Line == [id : 1..MaxCalls, level : CallLevels]

\* What malloc left in a slot, and what entry and line hold before their
\* first use.
NoLine == [id |-> 0, level |-> 0]

-----------------------------------------------------------------------------

NextSlotNoWrap(i) == i + 1    \* mutant: the index never wraps

NextSlot(i) == (i + 1) % LOG_QUEUE_SIZE

RingEmpty == log_queue_head = log_queue_tail

RingFullNever == FALSE    \* mutant: the line is put without a look at the tail

RingFull == NextSlot(log_queue_head) = log_queue_tail

\* The filter of log_msg, and again of the worker's console output.
PassesFilter(level, threshold) ==
    level <= threshold \/ level = LOG_LEVEL_BOOT

EchoesThreshold(e) == e.level <= m_log_threshold    \* mutant: BOOT forgotten

Echoes(e) == PassesFilter(e.level, m_log_threshold)

Stream(level) ==
    IF level \in {LOG_LEVEL_ERROR, LOG_LEVEL_WARN} THEN "stderr" ELSE "stdout"

WakeUpNobody(w) == w    \* mutant: the signal is missing

\* pthread_cond_signal: a worker asleep on log_cond goes for the mutex again.
WakeUp(w) == IF w = "wait" THEN "lock" ELSE w

Init ==
    /\ m_log_fp = FALSE
    /\ m_log_threshold = 3
    /\ log_running = TRUE
    /\ log_mutex = "free"
    /\ log_queue = [i \in Slots |-> NoLine]
    /\ log_queue_head = 0
    /\ log_queue_tail = 0
    /\ mpc = "boot"
    /\ line = NoLine
    /\ wpc = "none"
    /\ entry = NoLine
    /\ file = <<>>
    /\ console = <<>>
    /\ calls = 0
    /\ accepted = <<>>
    /\ lost = <<>>

-----------------------------------------------------------------------------
(* The main thread.                                                        *)

\* log_init.  A failed fopen returns before the ring and the worker exist; a
\* failed pthread_create goes unnoticed.  main ignores the result of both.
log_init(outcome) ==
    /\ mpc = "boot"
    /\ \E t \in Thresholds : m_log_threshold' = t
    /\ m_log_fp' = (outcome # "nofile")
    /\ log_running' = TRUE
    /\ wpc' = IF outcome = "ok" THEN "lock" ELSE "none"
    /\ mpc' = "run"
    /\ UNCHANGED <<log_mutex, ring, line, entry, output, calls, history>>

\* log_msg up to pthread_mutex_lock: the early returns and the formatting.
log_msg(level) ==
    /\ mpc = "run"
    /\ calls < MaxCalls
    /\ calls' = calls + 1
    /\ IF m_log_fp /\ PassesFilter(level, m_log_threshold)
       THEN /\ line' = [id |-> calls + 1, level |-> level]
            /\ mpc' = "msgLock"
       ELSE UNCHANGED <<line, mpc>>
    /\ UNCHANGED <<m_log_fp, m_log_threshold, log_running, log_mutex, ring,
                   wpc, entry, output, history>>

MainLock(from, to) ==
    /\ mpc = from
    /\ log_mutex = "free"
    /\ log_mutex' = "main"
    /\ mpc' = to
    /\ UNCHANGED <<m_log_fp, m_log_threshold, log_running, ring, line, wpc,
                   entry, output, calls, history>>

\* log_msg's critical section: the line goes in the ring and the worker is
\* signalled, or the ring is full and the line is dropped without a word.
log_msg_put ==
    /\ mpc = "msgPut"
    /\ IF ~RingFull
       THEN /\ log_queue' = [log_queue EXCEPT ![log_queue_head] = line]
            /\ log_queue_head' = NextSlot(log_queue_head)
            /\ wpc' = WakeUp(wpc)
            /\ accepted' = Append(accepted, line)
            /\ UNCHANGED lost
       ELSE /\ lost' = Append(lost, line)
            /\ UNCHANGED <<log_queue, log_queue_head, wpc, accepted>>
    /\ log_mutex' = "free"
    /\ mpc' = "run"
    /\ UNCHANGED <<m_log_fp, m_log_threshold, log_running, log_queue_tail,
                   line, entry, output, calls>>

log_close ==
    /\ mpc = "run"
    /\ mpc' = "closeLock"
    /\ UNCHANGED <<m_log_fp, m_log_threshold, log_running, log_mutex, ring,
                   line, wpc, entry, output, calls, history>>

log_close_stop ==
    /\ mpc = "closeStop"
    /\ log_running' = FALSE
    /\ wpc' = WakeUp(wpc)
    /\ log_mutex' = "free"
    /\ mpc' = "join"
    /\ UNCHANGED <<m_log_fp, m_log_threshold, ring, line, entry, output, calls,
                   history>>

WorkerJoinedAtOnce == wpc # "none"    \* mutant: the worker is not waited for

WorkerJoined == wpc = "done"

\* pthread_join returns once the worker is done; then the file is closed.
log_close_join ==
    /\ mpc = "join"
    /\ WorkerJoined
    /\ m_log_fp' = FALSE
    /\ mpc' = "closed"
    /\ UNCHANGED <<m_log_threshold, log_running, log_mutex, ring, line, wpc,
                   entry, output, calls, history>>

\* pthread_join on a log_thread that pthread_create never filled in is
\* undefined.  The handle is still zero when log_init stopped at fopen, and
\* the library reads through it; after a failed pthread_create its content is
\* unspecified, so the call may also return and the file be closed.
log_close_join_undefined ==
    /\ mpc = "join"
    /\ wpc = "none"
    /\ \/ /\ mpc' = "crashed"
          /\ UNCHANGED m_log_fp
       \/ /\ m_log_fp
          /\ m_log_fp' = FALSE
          /\ mpc' = "closed"
    /\ UNCHANGED <<m_log_threshold, log_running, log_mutex, ring, line, wpc,
                   entry, output, calls, history>>

\* The process ends with log_close never called or not finished: main's error
\* path returns without it, and a signal without a handler kills it anywhere.
ProcessEnds ==
    /\ mpc \notin {"closed", "crashed", "exited"}
    /\ mpc' = "exited"
    /\ UNCHANGED <<m_log_fp, m_log_threshold, log_running, log_mutex, ring,
                   line, wpc, entry, output, calls, history>>

-----------------------------------------------------------------------------
(* log_worker_thread.  It stops with the process.                          *)

Alive == mpc \notin {"exited", "crashed"}

log_worker_lock ==
    /\ Alive
    /\ wpc = "lock"
    /\ log_mutex = "free"
    /\ log_mutex' = "worker"
    /\ wpc' = "test"
    /\ UNCHANGED <<m_log_fp, m_log_threshold, log_running, ring, mpc, line,
                   entry, output, calls, history>>

\* Nothing to do: pthread_cond_wait releases the mutex and sleeps at once.
log_worker_wait ==
    /\ Alive
    /\ wpc = "test"
    /\ RingEmpty
    /\ log_running
    /\ log_mutex' = "free"
    /\ wpc' = "wait"
    /\ UNCHANGED <<m_log_fp, m_log_threshold, log_running, ring, mpc, line,
                   entry, output, calls, history>>

\* pthread_cond_wait may return without a signal; the loop tests again.
log_worker_spurious_wakeup ==
    /\ Alive
    /\ wpc = "wait"
    /\ wpc' = "lock"
    /\ UNCHANGED <<m_log_fp, m_log_threshold, log_running, log_mutex, ring,
                   mpc, line, entry, output, calls, history>>

WorkerStopsNoDrain == ~log_running    \* mutant: stops with lines in the ring

WorkerStops == ~log_running /\ RingEmpty

log_worker_exit ==
    /\ Alive
    /\ wpc = "test"
    /\ WorkerStops
    /\ log_mutex' = "free"
    /\ wpc' = "done"
    /\ UNCHANGED <<m_log_fp, m_log_threshold, log_running, ring, mpc, line,
                   entry, output, calls, history>>

log_worker_take ==
    /\ Alive
    /\ wpc = "test"
    /\ ~(RingEmpty /\ log_running)
    /\ ~WorkerStops
    /\ entry' = log_queue[log_queue_tail]
    /\ log_queue_tail' = NextSlot(log_queue_tail)
    /\ log_mutex' = "free"
    /\ wpc' = "write"
    /\ UNCHANGED <<m_log_fp, m_log_threshold, log_running, log_queue,
                   log_queue_head, mpc, line, output, calls, history>>

\* fprintf and fflush, outside the mutex.
log_worker_write ==
    /\ Alive
    /\ wpc = "write"
    /\ file' = Append(file, entry)
    /\ wpc' = IF Echoes(entry) THEN "echo" ELSE "lock"
    /\ UNCHANGED <<m_log_fp, m_log_threshold, log_running, log_mutex, ring,
                   mpc, line, entry, console, calls, history>>

log_worker_echo ==
    /\ Alive
    /\ wpc = "echo"
    /\ console' = Append(console, [out |-> Stream(entry.level), line |-> entry])
    /\ wpc' = "lock"
    /\ UNCHANGED <<m_log_fp, m_log_threshold, log_running, log_mutex, ring,
                   mpc, line, entry, file, calls, history>>

-----------------------------------------------------------------------------

\* What the main thread does inside log_msg and log_close once it is there.
MainWorks ==
    \/ MainLock("msgLock", "msgPut")
    \/ log_msg_put
    \/ MainLock("closeLock", "closeStop")
    \/ log_close_stop
    \/ log_close_join
    \/ log_close_join_undefined

WorkerWorks ==
    \/ log_worker_lock
    \/ log_worker_wait
    \/ log_worker_exit
    \/ log_worker_take
    \/ log_worker_write
    \/ log_worker_echo

\* Both threads are through; stuttering here is not a deadlock.
Ended == mpc \in {"closed", "crashed", "exited"} /\ UNCHANGED vars

Next ==
    \/ \E outcome \in InitOutcomes : log_init(outcome)
    \/ \E level \in CallLevels : log_msg(level)
    \/ log_close
    \/ MainWorks
    \/ WorkerWorks
    \/ log_worker_spurious_wakeup
    \/ ProcessEnds
    \/ Ended

Spec == Init /\ [][Next]_vars

\* A thread that can run is eventually scheduled.  Nothing obliges the program
\* to log, to close or to end.  The mutex need not be fair: the main thread
\* takes it at most MaxCalls + 1 times and the worker goes back to it only for
\* a line, for a signal or for a spurious wakeup, which do not recur for ever.
Fairness ==
    /\ WF_vars(MainWorks)
    /\ WF_vars(WorkerWorks)
    /\ <>[][~log_worker_spurious_wakeup]_vars

FairSpec == Spec /\ Fairness

-----------------------------------------------------------------------------
(* Safety.                                                                 *)

\* The ring as a queue: how many lines wait, and the k-th oldest of them.
RingCount ==
    IF log_queue_head >= log_queue_tail
    THEN log_queue_head - log_queue_tail
    ELSE log_queue_head - log_queue_tail + LOG_QUEUE_SIZE

RingSlot(k) ==
    IF log_queue_tail + k - 1 < LOG_QUEUE_SIZE
    THEN log_queue_tail + k - 1
    ELSE log_queue_tail + k - 1 - LOG_QUEUE_SIZE

\* 1 while the worker holds a line it has not yet written.
InHand == IF wpc = "write" THEN 1 ELSE 0

\* Type correctness of every variable; both indexes stay inside the ring.
TypeOK ==
    /\ m_log_fp \in BOOLEAN
    /\ m_log_threshold \in Nat
    /\ log_running \in BOOLEAN
    /\ log_mutex \in {"free", "main", "worker"}
    /\ log_queue \in [Slots -> Line \cup {NoLine}]
    /\ log_queue_head \in Slots
    /\ log_queue_tail \in Slots
    /\ mpc \in {"boot", "run", "msgLock", "msgPut", "closeLock", "closeStop",
                "join", "closed", "crashed", "exited"}
    /\ line \in Line \cup {NoLine}
    /\ wpc \in {"none", "lock", "test", "wait", "write", "echo", "done"}
    /\ entry \in Line \cup {NoLine}
    /\ file \in Seq(Line)
    /\ console \in Seq([out : {"stdout", "stderr"}, line : Line])
    /\ calls \in 0..MaxCalls
    /\ accepted \in Seq(Line)
    /\ lost \in Seq(Line)

\* Every line put in the ring is, exactly once and in the order of the
\* log_msg calls, in the file, in the worker's hands or in the ring: nothing
\* is overwritten, skipped, repeated or reordered while head and tail wrap.
DeliveredInOrder ==
    /\ Len(accepted) = Len(file) + InHand + RingCount
    /\ \A k \in 1..Len(file) : file[k] = accepted[k]
    /\ wpc = "write" => entry = accepted[Len(file) + 1]
    /\ \A k \in 1..RingCount :
          log_queue[RingSlot(k)] = accepted[Len(file) + InHand + k]

\* The worker never sleeps on log_cond with a line in the ring or after
\* log_close has asked it to stop: no signal is lost (log.c:40-41,131,171).
NoSleepWithWork == wpc = "wait" => RingEmpty /\ log_running

\* The worker never uses the FILE after log_close has closed it (log.c:54,138).
StreamOpenWhileWriting == wpc \in {"lock", "test", "wait", "write", "echo"} => m_log_fp

\* When log_close returns and a worker ran, the worker is gone and every
\* accepted line is in the file: the ring is drained before the join returns.
ClosedMeansFlushed ==
    mpc = "closed" /\ wpc # "none" => wpc = "done" /\ file = accepted

\* The console shows the file's lines, all and in order, each on the stream of
\* its level, at most the last one still to come: the worker's second
\* application of the filter (log.c:57) never drops what log_msg let through.
EchoMirrorsFile ==
    /\ Len(console) = Len(file) - (IF wpc = "echo" THEN 1 ELSE 0)
    /\ \A k \in 1..Len(console) :
          /\ console[k].line = file[k]
          /\ console[k].out = "stderr" <=>
                file[k].level \in {LOG_LEVEL_ERROR, LOG_LEVEL_WARN}

-----------------------------------------------------------------------------
(* Liveness, under FairSpec.                                               *)

\* log_close returns, if there is a worker to join: neither the mutex nor the
\* join holds it forever.
CloseReturns ==
    mpc = "closeLock" /\ wpc # "none" ~> mpc \in {"closed", "exited"}

-----------------------------------------------------------------------------
(* Refinement: the logger implements the bounded channel.                  *)

Unread == [k \in 1..RingCount |-> log_queue[RingSlot(k)]]

Pending == IF wpc = "write" THEN <<entry>> \o Unread ELSE Unread

\* Without a worker nothing is promised: the channel is never opened, whatever
\* the main thread puts in the ring, and a log_close that joins no thread
\* abandons it.
Phase ==
    IF mpc \in {"crashed", "exited"} THEN "dead"
    ELSE IF wpc = "none" THEN IF mpc = "closed" THEN "dead" ELSE "new"
    ELSE IF mpc = "closed" THEN "closed" ELSE "open"

IfWorker(lines) == IF wpc = "none" THEN <<>> ELSE lines

Channel == INSTANCE LogChannel WITH
    Capacity <- LOG_QUEUE_SIZE - 1,
    Lines <- Line,
    phase <- Phase,
    pending <- IfWorker(Pending),
    written <- file,
    refused <- IfWorker(lost)

\* Every step of the two threads is a step of the channel or none at all.
ImplementsChannel == Channel!Spec

\* And the file grows for as long as the channel is open and owes lines.
ImplementsFairChannel == Channel!FairSpec
=============================================================================
