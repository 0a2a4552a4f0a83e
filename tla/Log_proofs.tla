----------------------------- MODULE Log_proofs -----------------------------
(***************************************************************************)
(* Proofs about Log for every ring size, every set of levels and any       *)
(* number of calls.  Inv is the inductive invariant: the type invariant,   *)
(* who holds the mutex, how far main has come when the worker is where it  *)
(* is, and the position of every accepted line.                            *)
(***************************************************************************)
EXTENDS Log, SequenceTheorems, TLAPS

\* The mutex is held by the thread whose critical section is under way.  A
\* process that ended inside one leaves it locked.
MutexInv ==
    /\ wpc = "test" <=> log_mutex = "worker"
    /\ mpc \in {"msgPut", "closeStop"} => log_mutex = "main"

\* The main thread: nothing runs before log_init, a line is formatted before
\* it is put, and log_running is cleared exactly on the way out of log_close.
MainInv ==
    /\ mpc = "boot" => wpc = "none"
    /\ mpc \in {"msgLock", "msgPut"} => line \in Line
    /\ mpc \in {"boot", "run", "msgLock", "msgPut", "closeLock", "closeStop"}
         => log_running
    /\ mpc \in {"join", "closed"} => ~log_running

\* The worker: it holds an accepted line when it writes or echoes one, and it
\* is done only after log_close asked and the ring was empty.
WorkerInv ==
    /\ wpc \in {"write", "echo"} => entry \in Line
    /\ wpc = "done" => ~log_running /\ RingEmpty
    /\ mpc = "closed" => wpc \in {"done", "none"}

Control ==
    /\ MutexInv
    /\ MainInv
    /\ WorkerInv
    /\ StreamOpenWhileWriting
    /\ NoSleepWithWork

Inv ==
    /\ TypeOK
    /\ Control
    /\ DeliveredInOrder

\* What the console needs.  The threshold is set before the first line, so a
\* line that passed the filter of log_msg passes the worker's as well.
EchoInv ==
    /\ mpc = "boot" => accepted = <<>> /\ lost = <<>>
    /\ mpc \in {"msgLock", "msgPut"} => PassesFilter(line.level, m_log_threshold)
    /\ \A k \in 1..Len(accepted) : PassesFilter(accepted[k].level, m_log_threshold)
    /\ wpc = "echo" => Len(file) > 0 /\ entry = file[Len(file)]
    /\ EchoMirrorsFile

-----------------------------------------------------------------------------
(* The ring's index arithmetic.                                            *)

\* The next index, without the modulo.
LEMMA NextSlotValue ==
    ASSUME NEW i \in Slots
    PROVE  NextSlot(i) = IF i + 1 = LOG_QUEUE_SIZE THEN 0 ELSE i + 1
<1> DEFINE q == (i + 1) \div LOG_QUEUE_SIZE
<1> DEFINE r == (i + 1) % LOG_QUEUE_SIZE
<1>1. q \in Int /\ r \in 0..(LOG_QUEUE_SIZE - 1)
  BY QueueSizeAssumption DEF Slots
<1>2. i + 1 = LOG_QUEUE_SIZE * q + r
  BY QueueSizeAssumption DEF Slots
<1> QED
  BY <1>1, <1>2, QueueSizeAssumption DEF Slots, NextSlot

\* The next index is an index.
LEMMA NextSlotType ==
    ASSUME NEW i \in Slots
    PROVE  NextSlot(i) \in Slots
BY NextSlotValue, QueueSizeAssumption DEF Slots

\* The ring holds at most LOG_QUEUE_SIZE - 1 lines, none exactly when the
\* indexes meet, and its positions are indexes.
LEMMA RingShape ==
    ASSUME log_queue_head \in Slots, log_queue_tail \in Slots
    PROVE  /\ RingCount \in 0..(LOG_QUEUE_SIZE - 1)
           /\ RingCount = 0 <=> RingEmpty
           /\ \A k \in 1..LOG_QUEUE_SIZE : RingSlot(k) \in Slots
BY QueueSizeAssumption DEF Slots, RingCount, RingSlot, RingEmpty

\* Filling the head slot of a ring that is not full adds one position at the
\* end and moves no other.
LEMMA PutShape ==
    ASSUME log_queue_head \in Slots, log_queue_tail \in Slots, ~RingFull,
           log_queue_head' = NextSlot(log_queue_head),
           log_queue_tail' = log_queue_tail
    PROVE  /\ RingCount' = RingCount + 1
           /\ \A k \in 1..RingCount' : RingSlot(k)' = RingSlot(k)
           /\ \A k \in 1..RingCount : RingSlot(k) # log_queue_head
           /\ RingSlot(RingCount + 1) = log_queue_head
<1>1. NextSlot(log_queue_head) = IF log_queue_head + 1 = LOG_QUEUE_SIZE
                                 THEN 0 ELSE log_queue_head + 1
  BY NextSlotValue
<1>2. RingCount' = RingCount + 1
  BY <1>1, QueueSizeAssumption DEF Slots, RingCount, RingFull
<1>3. \A k \in 1..RingCount' : RingSlot(k)' = RingSlot(k)
  BY DEF RingSlot
<1>4. \A k \in 1..RingCount : RingSlot(k) # log_queue_head
  BY QueueSizeAssumption DEF Slots, RingCount, RingSlot
<1>5. RingSlot(RingCount + 1) = log_queue_head
  BY <1>1, QueueSizeAssumption DEF Slots, RingCount, RingSlot, RingFull
<1> QED
  BY <1>2, <1>3, <1>4, <1>5

\* Taking the tail slot of a ring that is not empty removes the first position
\* and moves every other one place forward.
LEMMA TakeShape ==
    ASSUME log_queue_head \in Slots, log_queue_tail \in Slots, ~RingEmpty,
           log_queue_head' = log_queue_head,
           log_queue_tail' = NextSlot(log_queue_tail)
    PROVE  /\ RingCount' = RingCount - 1
           /\ RingSlot(1) = log_queue_tail
           /\ \A k \in 1..RingCount' : RingSlot(k)' = RingSlot(k + 1)
<1>1. NextSlot(log_queue_tail) = IF log_queue_tail + 1 = LOG_QUEUE_SIZE
                                 THEN 0 ELSE log_queue_tail + 1
  BY NextSlotValue
<1>2. RingCount' = RingCount - 1
  BY <1>1, QueueSizeAssumption DEF Slots, RingCount, RingEmpty
<1>3. RingSlot(1) = log_queue_tail
  BY QueueSizeAssumption DEF Slots, RingSlot
<1>4. ASSUME NEW k \in 1..RingCount'
      PROVE  RingSlot(k)' = RingSlot(k + 1)
  BY <1>1, <1>4, QueueSizeAssumption DEF Slots, RingCount, RingSlot, RingEmpty
<1> QED
  BY <1>2, <1>3, <1>4

-----------------------------------------------------------------------------
(* The initial state.                                                      *)

\* The invariant holds before log_init.
LEMMA InvInit == Init => Inv
<1> SUFFICES ASSUME Init PROVE Inv
  OBVIOUS
<1>1. TypeOK
  <2>1. 0 \in Slots /\ 0 \in 0..MaxCalls
    BY QueueSizeAssumption, MaxCallsAssumption DEF Slots
  <2>2. log_queue \in [Slots -> Line \cup {NoLine}]
    BY DEF Init
  <2> QED
    BY <2>1, <2>2 DEF Init, TypeOK
<1>2. MutexInv /\ MainInv /\ WorkerInv
  BY DEF Init, MutexInv, MainInv, WorkerInv
<1>3. StreamOpenWhileWriting /\ NoSleepWithWork
  BY DEF Init, StreamOpenWhileWriting, NoSleepWithWork
<1>4. RingCount = 0 /\ InHand = 0
  BY DEF Init, RingCount, InHand
<1>5. DeliveredInOrder
  BY <1>4 DEF Init, DeliveredInOrder
<1> QED
  BY <1>1, <1>2, <1>3, <1>5 DEF Inv, Control

-----------------------------------------------------------------------------
(* The position of every accepted line.                                    *)

\* A step that moves no line keeps every position.
LEMMA OrderUnmoved ==
    ASSUME DeliveredInOrder, UNCHANGED <<ring, file, accepted, entry>>,
           wpc' = "write" <=> wpc = "write"
    PROVE  DeliveredInOrder'
<1>1. RingCount' = RingCount /\ InHand' = InHand
  BY DEF ring, RingCount, InHand
<1>2. \A k \in 1..RingCount : RingSlot(k)' = RingSlot(k)
  BY DEF ring, RingSlot
<1> QED
  BY <1>1, <1>2 DEF DeliveredInOrder, ring

\* Putting a line adds it after every accepted one.
LEMMA OrderPut ==
    ASSUME Inv, log_msg_put
    PROVE  DeliveredInOrder'
<1> USE DEF Inv
<1>1. CASE RingFull
  BY <1>1, OrderUnmoved DEF log_msg_put, ring, output, history
<1>2. CASE ~RingFull
  <2>1. /\ log_queue' = [log_queue EXCEPT ![log_queue_head] = line]
        /\ accepted' = Append(accepted, line)
        /\ UNCHANGED <<file, entry>>
        /\ InHand' = InHand
    BY <1>2 DEF log_msg_put, InHand, WakeUp, output
  <2>2. /\ RingCount' = RingCount + 1
        /\ \A k \in 1..RingCount' : RingSlot(k)' = RingSlot(k)
        /\ \A k \in 1..RingCount : RingSlot(k) # log_queue_head
        /\ RingSlot(RingCount + 1) = log_queue_head
    BY <1>2, PutShape DEF log_msg_put, TypeOK
  <2>3. /\ RingCount \in Nat /\ InHand \in {0, 1}
        /\ RingCount + 1 <= LOG_QUEUE_SIZE
        /\ \A k \in 1..LOG_QUEUE_SIZE : RingSlot(k) \in Slots
    BY RingShape, QueueSizeAssumption DEF TypeOK, InHand
  <2>4. /\ accepted \in Seq(Line) /\ file \in Seq(Line) /\ line \in Line
        /\ log_queue \in [Slots -> Line \cup {NoLine}]
        /\ log_queue_head \in Slots
    BY DEF TypeOK, Control, MainInv, log_msg_put
  <2>5. Len(accepted') = Len(file') + InHand' + RingCount'
    BY <2>1, <2>2, <2>3, <2>4 DEF DeliveredInOrder
  <2>6. \A k \in 1..Len(file') : file'[k] = accepted'[k]
    BY <2>1, <2>3, <2>4 DEF DeliveredInOrder
  <2>7. wpc' = "write" => entry' = accepted'[Len(file') + 1]
    BY <2>1, <2>3, <2>4 DEF DeliveredInOrder, InHand, log_msg_put, WakeUp
  <2>8. ASSUME NEW k \in 1..RingCount'
        PROVE  log_queue'[RingSlot(k)'] = accepted'[Len(file') + InHand' + k]
    <3>1. CASE k = RingCount + 1
      <4>1. log_queue'[RingSlot(k)'] = line
        BY <3>1, <2>1, <2>2, <2>4
      <4>2. Len(file') + InHand' + k = Len(accepted) + 1
        BY <3>1, <2>1, <2>3, <2>4 DEF DeliveredInOrder
      <4> QED
        BY <4>1, <4>2, <2>1, <2>4
    <3>2. CASE k \in 1..RingCount
      <4>1. RingSlot(k) \in Slots
        BY <3>2, <2>3, QueueSizeAssumption
      <4>2. log_queue'[RingSlot(k)'] = log_queue[RingSlot(k)]
        BY <3>2, <4>1, <2>1, <2>2, <2>4
      <4>3. Len(file') + InHand' + k \in 1..Len(accepted)
        BY <3>2, <2>1, <2>3, <2>4 DEF DeliveredInOrder
      <4>4. accepted'[Len(file') + InHand' + k] = accepted[Len(file) + InHand + k]
        BY <4>3, <2>1, <2>4
      <4> QED
        BY <3>2, <4>2, <4>4 DEF DeliveredInOrder
    <3> QED
      BY <3>1, <3>2, <2>2, <2>3
  <2> QED
    BY <2>5, <2>6, <2>7, <2>8 DEF DeliveredInOrder
<1> QED
  BY <1>1, <1>2

\* The worker tests with the mutex in hand and leaves with the oldest line.
LEMMA OrderTake ==
    ASSUME Inv, log_worker_take
    PROVE  DeliveredInOrder' /\ entry' \in Line
<1> USE DEF Inv
<1>1. ~RingEmpty
  BY DEF log_worker_take, WorkerStops
<1>2. /\ RingCount' = RingCount - 1
      /\ RingSlot(1) = log_queue_tail
      /\ \A k \in 1..RingCount' : RingSlot(k)' = RingSlot(k + 1)
  BY <1>1, TakeShape DEF log_worker_take, TypeOK
<1>3. RingCount \in Nat /\ RingCount >= 1
  BY <1>1, RingShape, QueueSizeAssumption DEF TypeOK
<1>4. /\ InHand = 0 /\ InHand' = 1
      /\ entry' = log_queue[log_queue_tail]
      /\ UNCHANGED <<file, accepted, log_queue>>
  BY DEF InHand, log_worker_take, output, history
<1>5. accepted \in Seq(Line) /\ file \in Seq(Line)
  BY DEF TypeOK
<1>6. Len(accepted) = Len(file) + RingCount
  BY <1>3, <1>4, <1>5 DEF DeliveredInOrder
<1>7. entry' = accepted[Len(file) + 1]
  <2>1. log_queue[RingSlot(1)] = accepted[Len(file) + InHand + 1]
    BY <1>3 DEF DeliveredInOrder
  <2> QED
    BY <2>1, <1>2, <1>4, <1>5
<1>8. entry' \in Line
  BY <1>3, <1>5, <1>6, <1>7
<1>9. Len(accepted') = Len(file') + InHand' + RingCount'
  BY <1>2, <1>3, <1>4, <1>5, <1>6
<1>10. ASSUME NEW k \in 1..RingCount'
       PROVE  log_queue'[RingSlot(k)'] = accepted'[Len(file') + InHand' + k]
  <2>1. k + 1 \in 1..RingCount
    BY <1>2, <1>3
  <2>2. log_queue[RingSlot(k + 1)] = accepted[Len(file) + InHand + (k + 1)]
    BY <2>1 DEF DeliveredInOrder
  <2>3. Len(file) + InHand + (k + 1) = Len(file') + InHand' + k
    BY <2>1, <1>4, <1>5
  <2> QED
    BY <2>2, <2>3, <1>2, <1>4
<1> QED
  BY <1>4, <1>7, <1>8, <1>9, <1>10 DEF DeliveredInOrder

\* The line in the worker's hands is the next one the file is owed.
LEMMA OrderWrite ==
    ASSUME Inv, log_worker_write
    PROVE  DeliveredInOrder'
<1> USE DEF Inv
<1>1. /\ InHand = 1 /\ InHand' = 0
      /\ file' = Append(file, entry)
      /\ UNCHANGED <<accepted, ring>>
      /\ wpc' # "write"
  BY DEF InHand, log_worker_write, history
<1>2. RingCount' = RingCount /\ \A k \in 1..RingCount : RingSlot(k)' = RingSlot(k)
  BY <1>1 DEF ring, RingCount, RingSlot
<1>3. /\ accepted \in Seq(Line) /\ file \in Seq(Line) /\ entry \in Line
      /\ RingCount \in Nat
  BY RingShape DEF TypeOK, Control, WorkerInv, log_worker_write
<1>4. Len(file') = Len(file) + 1 /\ entry = accepted[Len(file) + 1]
  BY <1>1, <1>3 DEF DeliveredInOrder, log_worker_write
<1>5. Len(accepted') = Len(file') + InHand' + RingCount'
  BY <1>1, <1>2, <1>3, <1>4 DEF DeliveredInOrder
<1>6. \A k \in 1..Len(file') : file'[k] = accepted'[k]
  BY <1>1, <1>3, <1>4 DEF DeliveredInOrder
<1>7. ASSUME NEW k \in 1..RingCount'
      PROVE  log_queue'[RingSlot(k)'] = accepted'[Len(file') + InHand' + k]
  <2>1. log_queue[RingSlot(k)] = accepted[Len(file) + InHand + k]
    BY <1>2 DEF DeliveredInOrder
  <2>2. Len(file) + InHand + k = Len(file') + InHand' + k
    BY <1>1, <1>2, <1>3, <1>4
  <2> QED
    BY <2>1, <2>2, <1>1, <1>2 DEF ring
<1> QED
  BY <1>1, <1>5, <1>6, <1>7 DEF DeliveredInOrder

-----------------------------------------------------------------------------
(* Every step preserves the invariant.                                     *)

\* Every variable keeps its type.
LEMMA TypeStep ==
    ASSUME Inv, [Next]_vars
    PROVE  TypeOK'
<1> USE DEF Inv
<1>1. ASSUME NEW outcome \in InitOutcomes, log_init(outcome)
      PROVE  TypeOK'
  BY <1>1, LevelAssumption DEF log_init, TypeOK, ring, output, history
<1>2. ASSUME NEW level \in CallLevels, log_msg(level)
      PROVE  TypeOK'
  <2>1. calls' \in 0..MaxCalls /\ calls + 1 \in 1..MaxCalls
    BY <1>2, MaxCallsAssumption DEF log_msg, TypeOK
  <2>2. line' \in Line \cup {NoLine}
    BY <1>2, <2>1 DEF log_msg, TypeOK, Line
  <2> QED
    BY <1>2, <2>1, <2>2 DEF log_msg, TypeOK, ring, output, history
<1>3. CASE MainLock("msgLock", "msgPut")
  BY <1>3 DEF MainLock, TypeOK, ring, output, history
<1>4. CASE log_msg_put
  <2>1. line \in Line /\ NextSlot(log_queue_head) \in Slots
    BY <1>4, NextSlotType DEF log_msg_put, TypeOK, Control, MainInv
  <2>2. log_queue' \in [Slots -> Line \cup {NoLine}] /\ log_queue_head' \in Slots
    BY <1>4, <2>1 DEF log_msg_put, TypeOK
  <2>3. accepted' \in Seq(Line) /\ lost' \in Seq(Line)
    <3>1. /\ accepted' = accepted \/ accepted' = Append(accepted, line)
          /\ lost' = lost \/ lost' = Append(lost, line)
      BY <1>4 DEF log_msg_put
    <3>2. accepted \in Seq(Line) /\ lost \in Seq(Line)
      BY DEF TypeOK
    <3>3. Append(accepted, line) \in Seq(Line) /\ Append(lost, line) \in Seq(Line)
      BY <2>1, <3>2
    <3> QED
      BY <3>1, <3>2, <3>3
  <2> QED
    BY <1>4, <2>2, <2>3 DEF log_msg_put, WakeUp, TypeOK, output
<1>5. CASE log_close
  BY <1>5 DEF log_close, TypeOK, ring, output, history
<1>6. CASE MainLock("closeLock", "closeStop")
  BY <1>6 DEF MainLock, TypeOK, ring, output, history
<1>7. CASE log_close_stop
  BY <1>7 DEF log_close_stop, WakeUp, TypeOK, ring, output, history
<1>8. CASE log_close_join
  BY <1>8 DEF log_close_join, TypeOK, ring, output, history
<1>9. CASE log_close_join_undefined
  BY <1>9 DEF log_close_join_undefined, TypeOK, ring, output, history
<1>10. CASE log_worker_lock
  BY <1>10 DEF log_worker_lock, TypeOK, ring, output, history
<1>11. CASE log_worker_wait
  BY <1>11 DEF log_worker_wait, TypeOK, ring, output, history
<1>12. CASE log_worker_spurious_wakeup
  BY <1>12 DEF log_worker_spurious_wakeup, TypeOK, ring, output, history
<1>13. CASE log_worker_exit
  BY <1>13 DEF log_worker_exit, TypeOK, ring, output, history
<1>14. CASE log_worker_take
  <2>1. log_queue_tail' \in Slots /\ entry' \in Line
    BY <1>14, NextSlotType, OrderTake DEF log_worker_take, TypeOK
  <2> QED
    BY <1>14, <2>1 DEF log_worker_take, TypeOK, output, history
<1>15. CASE log_worker_write
  <2>1. file' \in Seq(Line)
    BY <1>15 DEF log_worker_write, TypeOK, Control, WorkerInv
  <2> QED
    BY <1>15, <2>1 DEF log_worker_write, TypeOK, ring, history
<1>16. CASE log_worker_echo
  <2>1. [out |-> Stream(entry.level), line |-> entry]
          \in [out : {"stdout", "stderr"}, line : Line]
    BY <1>16 DEF log_worker_echo, Control, WorkerInv, Stream
  <2>2. console' \in Seq([out : {"stdout", "stderr"}, line : Line])
    BY <1>16, <2>1 DEF log_worker_echo, TypeOK
  <2> QED
    BY <1>16, <2>2 DEF log_worker_echo, TypeOK, ring, history
<1>17. CASE ProcessEnds
  BY <1>17 DEF ProcessEnds, TypeOK, ring, output, history
<1>18. CASE UNCHANGED vars
  BY <1>18 DEF vars, ring, output, history, TypeOK
<1> QED
  BY <1>1, <1>2, <1>3, <1>4, <1>5, <1>6, <1>7, <1>8, <1>9, <1>10, <1>11,
     <1>12, <1>13, <1>14, <1>15, <1>16, <1>17, <1>18 DEF Next, MainWorks,
     WorkerWorks, Ended

\* The mutex, the main thread and the worker stay in step, the file outlives
\* the worker, and the worker does not fall asleep on work.
LEMMA ControlStep ==
    ASSUME Inv, [Next]_vars
    PROVE  Control'
<1> USE DEF Inv
<1>1. ASSUME NEW outcome \in InitOutcomes, log_init(outcome)
      PROVE  Control'
  BY <1>1 DEF log_init, Control, MutexInv, MainInv, WorkerInv,
     StreamOpenWhileWriting, NoSleepWithWork, RingEmpty, ring, output,
     history
<1>2. ASSUME NEW level \in CallLevels, log_msg(level)
      PROVE  Control'
  <2>1. mpc' = "msgLock" => line' \in Line
    BY <1>2, MaxCallsAssumption DEF log_msg, TypeOK, Line
  <2> QED
    BY <1>2, <2>1 DEF log_msg, Control, MutexInv, MainInv, WorkerInv,
       StreamOpenWhileWriting, NoSleepWithWork, RingEmpty, ring, output,
       history
<1>3. CASE MainLock("msgLock", "msgPut")
  BY <1>3 DEF MainLock, Control, MutexInv, MainInv, WorkerInv,
     StreamOpenWhileWriting, NoSleepWithWork, RingEmpty, ring, output,
     history
<1>4. CASE log_msg_put
  <2>1. wpc' = "wait" => UNCHANGED ring
    BY <1>4 DEF log_msg_put, WakeUp, ring
  <2>2. log_running /\ log_running' /\ mpc' = "run" /\ log_mutex' = "free"
    BY <1>4 DEF log_msg_put, Control, MainInv
  <2>3. wpc' = wpc \/ (wpc = "wait" /\ wpc' = "lock")
    BY <1>4 DEF log_msg_put, WakeUp
  <2> QED
    BY <1>4, <2>1, <2>2, <2>3 DEF log_msg_put, Control, MutexInv, MainInv,
       WorkerInv, StreamOpenWhileWriting, NoSleepWithWork, RingEmpty,
       ring, output, history
<1>5. CASE log_close
  BY <1>5 DEF log_close, Control, MutexInv, MainInv, WorkerInv,
     StreamOpenWhileWriting, NoSleepWithWork, RingEmpty, ring, output,
     history
<1>6. CASE MainLock("closeLock", "closeStop")
  BY <1>6 DEF MainLock, Control, MutexInv, MainInv, WorkerInv,
     StreamOpenWhileWriting, NoSleepWithWork, RingEmpty, ring, output,
     history
<1>7. CASE log_close_stop
  BY <1>7 DEF log_close_stop, WakeUp, Control, MutexInv, MainInv, WorkerInv,
     StreamOpenWhileWriting, NoSleepWithWork, RingEmpty, ring, output,
     history
<1>8. CASE log_close_join
  BY <1>8 DEF log_close_join, WorkerJoined, Control, MutexInv, MainInv,
     WorkerInv, StreamOpenWhileWriting, NoSleepWithWork, RingEmpty, ring,
     output, history
<1>9. CASE log_close_join_undefined
  BY <1>9 DEF log_close_join_undefined, Control, MutexInv, MainInv,
     WorkerInv, StreamOpenWhileWriting, NoSleepWithWork, RingEmpty, ring,
     output,
     history
<1>10. CASE log_worker_lock
  BY <1>10 DEF log_worker_lock, Control, MutexInv, MainInv, WorkerInv,
     StreamOpenWhileWriting, NoSleepWithWork, RingEmpty, ring, output,
     history
<1>11. CASE log_worker_wait
  BY <1>11 DEF log_worker_wait, Control, MutexInv, MainInv, WorkerInv,
     StreamOpenWhileWriting, NoSleepWithWork, RingEmpty, ring, output,
     history
<1>12. CASE log_worker_spurious_wakeup
  BY <1>12 DEF log_worker_spurious_wakeup, Control, MutexInv, MainInv,
     WorkerInv, StreamOpenWhileWriting, NoSleepWithWork, RingEmpty, ring,
     output, history
<1>13. CASE log_worker_exit
  BY <1>13 DEF log_worker_exit, WorkerStops, Control, MutexInv, MainInv,
     WorkerInv, StreamOpenWhileWriting, NoSleepWithWork, RingEmpty, ring,
     output, history
<1>14. CASE log_worker_take
  BY <1>14, OrderTake DEF log_worker_take, Control, MutexInv, MainInv,
     WorkerInv, StreamOpenWhileWriting, NoSleepWithWork, RingEmpty, ring,
     output, history
<1>15. CASE log_worker_write
  BY <1>15 DEF log_worker_write, Control, MutexInv, MainInv, WorkerInv,
     StreamOpenWhileWriting, NoSleepWithWork, RingEmpty, ring, output,
     history
<1>16. CASE log_worker_echo
  BY <1>16 DEF log_worker_echo, Control, MutexInv, MainInv, WorkerInv,
     StreamOpenWhileWriting, NoSleepWithWork, RingEmpty, ring, output,
     history
<1>17. CASE ProcessEnds
  BY <1>17 DEF ProcessEnds, Control, MutexInv, MainInv, WorkerInv,
     StreamOpenWhileWriting, NoSleepWithWork, RingEmpty, ring, output,
     history
<1>18. CASE UNCHANGED vars
  BY <1>18 DEF vars, ring, output, history, Control, MutexInv, MainInv,
     WorkerInv, StreamOpenWhileWriting, NoSleepWithWork, RingEmpty
<1> QED
  BY <1>1, <1>2, <1>3, <1>4, <1>5, <1>6, <1>7, <1>8, <1>9, <1>10, <1>11,
     <1>12, <1>13, <1>14, <1>15, <1>16, <1>17, <1>18 DEF Next, MainWorks,
     WorkerWorks, Ended

\* No step disturbs the position of a line, whether it moves one or not.
LEMMA OrderStep ==
    ASSUME Inv, [Next]_vars
    PROVE  DeliveredInOrder'
<1> USE DEF Inv
<1>1. ASSUME NEW outcome \in InitOutcomes, log_init(outcome)
      PROVE  DeliveredInOrder'
  BY <1>1, OrderUnmoved DEF log_init, ring, output, history, Control, MainInv
<1>2. ASSUME NEW level \in CallLevels, log_msg(level)
      PROVE  DeliveredInOrder'
  BY <1>2, OrderUnmoved DEF log_msg, ring, output, history
<1>3. CASE MainLock("msgLock", "msgPut")
  BY <1>3, OrderUnmoved DEF MainLock, ring, output, history
<1>4. CASE log_msg_put
  BY <1>4, OrderPut
<1>5. CASE log_close
  BY <1>5, OrderUnmoved DEF log_close, ring, output, history
<1>6. CASE MainLock("closeLock", "closeStop")
  BY <1>6, OrderUnmoved DEF MainLock, ring, output, history
<1>7. CASE log_close_stop
  BY <1>7, OrderUnmoved DEF log_close_stop, WakeUp, ring, output, history
<1>8. CASE log_close_join
  BY <1>8, OrderUnmoved DEF log_close_join, ring, output, history
<1>9. CASE log_close_join_undefined
  BY <1>9, OrderUnmoved DEF log_close_join_undefined, ring, output, history
<1>10. CASE log_worker_lock
  BY <1>10, OrderUnmoved DEF log_worker_lock, ring, output, history
<1>11. CASE log_worker_wait
  BY <1>11, OrderUnmoved DEF log_worker_wait, ring, output, history
<1>12. CASE log_worker_spurious_wakeup
  BY <1>12, OrderUnmoved DEF log_worker_spurious_wakeup, ring, output,
     history
<1>13. CASE log_worker_exit
  BY <1>13, OrderUnmoved DEF log_worker_exit, ring, output, history
<1>14. CASE log_worker_take
  BY <1>14, OrderTake
<1>15. CASE log_worker_write
  BY <1>15, OrderWrite
<1>16. CASE log_worker_echo
  BY <1>16, OrderUnmoved DEF log_worker_echo, ring, output, history
<1>17. CASE ProcessEnds
  BY <1>17, OrderUnmoved DEF ProcessEnds, ring, output, history
<1>18. CASE UNCHANGED vars
  BY <1>18, OrderUnmoved DEF vars, ring, output, history
<1> QED
  BY <1>1, <1>2, <1>3, <1>4, <1>5, <1>6, <1>7, <1>8, <1>9, <1>10, <1>11,
     <1>12, <1>13, <1>14, <1>15, <1>16, <1>17, <1>18 DEF Next, MainWorks,
     WorkerWorks, Ended

-----------------------------------------------------------------------------
(* The console.                                                            *)

\* A step that neither writes, echoes nor accepts a line keeps EchoInv, if the
\* line and the threshold stay what they are.
LEMMA EchoUnmoved ==
    ASSUME EchoInv,
           UNCHANGED <<m_log_threshold, line, entry, file, console, accepted>>,
           wpc' = "echo" <=> wpc = "echo",
           mpc' = "boot" => mpc = "boot" /\ lost' = lost,
           mpc' \in {"msgLock", "msgPut"} => mpc \in {"msgLock", "msgPut"}
    PROVE  EchoInv'
BY DEF EchoInv, EchoMirrorsFile, PassesFilter

\* The line the worker writes has passed the filter, so it is echoed.
LEMMA EchoWrite ==
    ASSUME Inv, EchoInv, log_worker_write
    PROVE  EchoInv'
<1>1. /\ file \in Seq(Line) /\ accepted \in Seq(Line)
      /\ console \in Seq([out : {"stdout", "stderr"}, line : Line])
      /\ entry \in Line /\ wpc = "write"
  BY DEF Inv, TypeOK, Control, WorkerInv, log_worker_write
<1>2. /\ file' = Append(file, entry)
      /\ UNCHANGED <<m_log_threshold, accepted, lost, line, mpc, console, entry>>
  BY DEF log_worker_write, history
<1>3. entry = accepted[Len(file) + 1] /\ Len(file) + 1 \in 1..Len(accepted)
  BY <1>1, RingShape DEF Inv, TypeOK, DeliveredInOrder, InHand
<1>4. wpc' = "echo"
  BY <1>3 DEF EchoInv, Echoes, log_worker_write
<1>5. Len(file') = Len(file) + 1 /\ entry' = file'[Len(file')]
  BY <1>1, <1>2
<1>6. EchoMirrorsFile'
  <2>1. Len(console) = Len(file)
    BY <1>1 DEF EchoInv, EchoMirrorsFile
  <2>2. \A k \in 1..Len(console) : file'[k] = file[k]
    BY <1>1, <1>2, <2>1
  <2> QED
    BY <1>1, <1>2, <1>4, <1>5, <2>1, <2>2 DEF EchoInv, EchoMirrorsFile
<1> QED
  BY <1>1, <1>2, <1>4, <1>5, <1>6 DEF EchoInv

\* The line the worker echoes is the last one of the file.
LEMMA EchoEcho ==
    ASSUME Inv, EchoInv, log_worker_echo
    PROVE  EchoInv'
<1> DEFINE shown == [out |-> Stream(entry.level), line |-> entry]
<1>1. /\ file \in Seq(Line)
      /\ console \in Seq([out : {"stdout", "stderr"}, line : Line])
      /\ entry \in Line /\ wpc = "echo"
  BY DEF Inv, TypeOK, Control, WorkerInv, log_worker_echo
<1>2. /\ console' = Append(console, shown)
      /\ wpc' = "lock"
      /\ UNCHANGED <<m_log_threshold, accepted, lost, line, mpc, file, entry>>
  BY DEF log_worker_echo, history
<1>3. Len(file) = Len(console) + 1 /\ entry = file[Len(file)]
  BY <1>1 DEF EchoInv, EchoMirrorsFile
<1>4. shown \in [out : {"stdout", "stderr"}, line : Line]
  BY <1>1 DEF Stream
<1>5. /\ Len(console') = Len(console) + 1
      /\ console'[Len(console) + 1] = shown
      /\ \A k \in 1..Len(console) : console'[k] = console[k]
  BY <1>1, <1>2, <1>4
<1>6. /\ shown.line = entry
      /\ shown.out = "stderr" <=> entry.level \in {LOG_LEVEL_ERROR, LOG_LEVEL_WARN}
  BY DEF Stream
<1>7. ASSUME NEW k \in 1..Len(console')
      PROVE  /\ console'[k].line = file[k]
             /\ console'[k].out = "stderr" <=>
                   file[k].level \in {LOG_LEVEL_ERROR, LOG_LEVEL_WARN}
  <2>1. CASE k = Len(console) + 1
    BY <2>1, <1>3, <1>5, <1>6
  <2>2. CASE k \in 1..Len(console)
    BY <2>2, <1>5 DEF EchoInv, EchoMirrorsFile
  <2> QED
    BY <2>1, <2>2, <1>1, <1>5
<1>8. EchoMirrorsFile'
  BY <1>1, <1>2, <1>3, <1>5, <1>7 DEF EchoMirrorsFile
<1> QED
  BY <1>2, <1>8 DEF EchoInv

\* No step breaks the console's agreement with the file.
LEMMA EchoStep ==
    ASSUME Inv, EchoInv, [Next]_vars
    PROVE  EchoInv'
<1>1. ASSUME NEW outcome \in InitOutcomes, log_init(outcome)
      PROVE  EchoInv'
  BY <1>1 DEF log_init, EchoInv, EchoMirrorsFile, output, history, Inv,
     Control, MainInv
<1>2. ASSUME NEW level \in CallLevels, log_msg(level)
      PROVE  EchoInv'
  <2>1. mpc' = "msgLock" => line'.level = level /\ PassesFilter(level, m_log_threshold)
    BY <1>2 DEF log_msg
  <2> QED
    BY <1>2, <2>1 DEF log_msg, EchoInv, EchoMirrorsFile, output, history
<1>3. CASE MainLock("msgLock", "msgPut")
  BY <1>3, EchoUnmoved DEF MainLock, output, history
<1>4. CASE log_msg_put
  <2>1. accepted \in Seq(Line) /\ line \in Line
    BY <1>4 DEF log_msg_put, Inv, TypeOK, Control, MainInv
  <2>2. accepted' \in {accepted, Append(accepted, line)}
    BY <1>4 DEF log_msg_put
  <2>3. \A k \in 1..Len(accepted') : PassesFilter(accepted'[k].level, m_log_threshold)
    BY <1>4, <2>1, <2>2 DEF log_msg_put, EchoInv
  <2> QED
    BY <1>4, <2>3 DEF log_msg_put, WakeUp, EchoInv, EchoMirrorsFile, output
<1>5. CASE log_close
  BY <1>5, EchoUnmoved DEF log_close, output, history
<1>6. CASE MainLock("closeLock", "closeStop")
  BY <1>6, EchoUnmoved DEF MainLock, output, history
<1>7. CASE log_close_stop
  BY <1>7, EchoUnmoved DEF log_close_stop, WakeUp, output, history
<1>8. CASE log_close_join
  BY <1>8, EchoUnmoved DEF log_close_join, output, history
<1>9. CASE log_close_join_undefined
  BY <1>9, EchoUnmoved DEF log_close_join_undefined, output, history
<1>10. CASE log_worker_lock
  BY <1>10, EchoUnmoved DEF log_worker_lock, output, history
<1>11. CASE log_worker_wait
  BY <1>11, EchoUnmoved DEF log_worker_wait, output, history
<1>12. CASE log_worker_spurious_wakeup
  BY <1>12, EchoUnmoved DEF log_worker_spurious_wakeup, output, history
<1>13. CASE log_worker_exit
  BY <1>13, EchoUnmoved DEF log_worker_exit, output, history
<1>14. CASE log_worker_take
  BY <1>14 DEF log_worker_take, EchoInv, EchoMirrorsFile, output, history
<1>15. CASE log_worker_write
  BY <1>15, EchoWrite
<1>16. CASE log_worker_echo
  BY <1>16, EchoEcho
<1>17. CASE ProcessEnds
  BY <1>17, EchoUnmoved DEF ProcessEnds, output, history
<1>18. CASE UNCHANGED vars
  BY <1>18, EchoUnmoved DEF vars, output, history
<1> QED
  BY <1>1, <1>2, <1>3, <1>4, <1>5, <1>6, <1>7, <1>8, <1>9, <1>10, <1>11,
     <1>12, <1>13, <1>14, <1>15, <1>16, <1>17, <1>18 DEF Next, MainWorks,
     WorkerWorks, Ended

-----------------------------------------------------------------------------
(* The theorems.                                                           *)

\* Inv is an invariant of the logger.
THEOREM InvInvariant == Spec => []Inv
<1>1. Inv /\ [Next]_vars => Inv'
  BY TypeStep, ControlStep, OrderStep DEF Inv
<1> QED
  BY <1>1, InvInit, PTL DEF Spec

\* Type correctness: the indexes never leave the ring (log.c:50,164).
THEOREM TypeCorrect == Spec => []TypeOK
<1>1. Inv => TypeOK
  BY DEF Inv
<1> QED
  BY <1>1, InvInvariant, PTL

\* Whatever the ring's size, no accepted line is overwritten, skipped, repeated
\* or reordered on its way to the file (log.c:49-54,163-172).
THEOREM InOrder == Spec => []DeliveredInOrder
<1>1. Inv => DeliveredInOrder
  BY DEF Inv
<1> QED
  BY <1>1, InvInvariant, PTL

\* The worker never sleeps on a line or on the end (log.c:40,131,171).
THEOREM NoLostWakeup == Spec => []NoSleepWithWork
<1>1. Inv => NoSleepWithWork
  BY DEF Inv, Control
<1> QED
  BY <1>1, InvInvariant, PTL

\* The file is open as long as there is a worker to use it (log.c:54,134-139).
THEOREM StreamSafe == Spec => []StreamOpenWhileWriting
<1>1. Inv => StreamOpenWhileWriting
  BY DEF Inv, Control
<1> QED
  BY <1>1, InvInvariant, PTL

\* When log_close has returned, all that was accepted is in the file.
THEOREM Flushed == Spec => []ClosedMeansFlushed
<1>1. Inv => ClosedMeansFlushed
  <2> SUFFICES ASSUME Inv, mpc = "closed", wpc # "none"
               PROVE  wpc = "done" /\ file = accepted
    BY DEF ClosedMeansFlushed
  <2>1. wpc = "done" /\ RingEmpty /\ InHand = 0
    BY DEF Inv, Control, WorkerInv, InHand
  <2>2. RingCount = 0
    BY <2>1, RingShape DEF Inv, TypeOK
  <2>3. file \in Seq(Line) /\ accepted \in Seq(Line)
    BY DEF Inv, TypeOK
  <2>4. Len(accepted) = Len(file) /\ \A k \in 1..Len(file) : file[k] = accepted[k]
    BY <2>1, <2>2, <2>3 DEF Inv, DeliveredInOrder
  <2> QED
    BY <2>1, <2>3, <2>4
<1> QED
  BY <1>1, InvInvariant, PTL

\* EchoInv is an invariant of the logger.
THEOREM EchoInvariant == Spec => []EchoInv
<1>1. Init => EchoInv
  BY DEF Init, EchoInv, EchoMirrorsFile
<1>2. Inv /\ EchoInv /\ [Next]_vars => EchoInv'
  BY EchoStep
<1> QED
  BY <1>1, <1>2, InvInvariant, PTL DEF Spec

\* The console shows every line of the file, in order, on the right stream: the
\* worker's second application of the filter never drops a line (log.c:54-66).
THEOREM ConsoleComplete == Spec => []EchoMirrorsFile
<1>1. EchoInv => EchoMirrorsFile
  BY DEF EchoInv
<1> QED
  BY <1>1, EchoInvariant, PTL

-----------------------------------------------------------------------------
(* The logger implements the channel.                                      *)

\* The accepted lines the file does not hold yet, oldest first.
Owed == [k \in 1..(Len(accepted) - Len(file)) |-> accepted[Len(file) + k]]

OwedIsTheRest ==
    /\ Owed \in Seq(Line)
    /\ Len(Owed) = Len(accepted) - Len(file)
    /\ Len(Owed) = InHand + RingCount
    /\ \A k \in 1..Len(Owed) : Owed[k] = accepted[Len(file) + k]

\* Owed is a sequence of lines, one for each accepted line not yet written.
LEMMA OwedShape == Inv => OwedIsTheRest
<1> SUFFICES ASSUME Inv PROVE OwedIsTheRest
  OBVIOUS
<1>1. accepted \in Seq(Line) /\ file \in Seq(Line)
  BY DEF Inv, TypeOK
<1>2. RingCount \in Nat /\ InHand \in {0, 1}
  BY RingShape DEF Inv, TypeOK, InHand
<1>3. Len(accepted) - Len(file) = InHand + RingCount
  BY <1>1, <1>2 DEF Inv, DeliveredInOrder
<1>4. Len(accepted) - Len(file) \in Nat
  BY <1>2, <1>3
<1>5. \A k \in 1..(Len(accepted) - Len(file)) : accepted[Len(file) + k] \in Line
  BY <1>1, <1>4
<1>6. Owed \in Seq(Line) /\ Len(Owed) = Len(accepted) - Len(file)
  BY <1>4, <1>5, IsASeq DEF Owed
<1> QED
  BY <1>3, <1>6 DEF Owed, OwedIsTheRest

\* What the worker holds and what waits in the ring is what the file is owed.
LEMMA PendingIsOwed == Inv => Pending = Owed
<1> SUFFICES ASSUME Inv PROVE Pending = Owed
  OBVIOUS
<1>1. RingCount \in Nat /\ Len(file) \in Nat
  BY RingShape DEF Inv, TypeOK
<1>2. \A k \in 1..RingCount : Unread[k] = accepted[Len(file) + InHand + k]
  BY DEF Unread, Inv, DeliveredInOrder
<1>3. /\ Len(Owed) = InHand + RingCount
      /\ Owed \in Seq(Line)
      /\ \A k \in 1..Len(Owed) : Owed[k] = accepted[Len(file) + k]
  BY OwedShape DEF OwedIsTheRest
<1>4. CASE wpc = "write"
  <2>1. InHand = 1 /\ entry = Owed[1]
    BY <1>1, <1>3, <1>4 DEF InHand, Inv, DeliveredInOrder
  <2>2. \A k \in 1..RingCount : Unread[k] = Owed[k + 1]
    BY <1>1, <1>2, <1>3, <2>1
  <2>3. \A k \in 1..RingCount : Unread[k] \in Line
    BY <1>1, <1>3, <2>1, <2>2
  <2>4. Unread \in Seq(Line) /\ Len(Unread) = RingCount
    BY <1>1, <2>3, IsASeq DEF Unread
  <2>5. <<entry>> \in Seq(Line) /\ Len(<<entry>>) = 1
    BY <1>1, <1>3, <2>1
  <2>6. /\ Pending \in Seq(Line)
        /\ Len(Pending) = 1 + RingCount
        /\ \A k \in 1..(1 + RingCount) :
              Pending[k] = IF k <= 1 THEN entry ELSE Unread[k - 1]
    BY <1>4, <2>4, <2>5, ConcatProperties DEF Pending
  <2>7. ASSUME NEW k \in 1..(1 + RingCount)
        PROVE  Pending[k] = Owed[k]
    <3>1. CASE k = 1
      BY <3>1, <2>1, <2>6
    <3>2. CASE k - 1 \in 1..RingCount
      BY <3>2, <2>2, <2>6
    <3> QED
      BY <3>1, <3>2, <1>1
  <2> QED
    BY <1>3, <2>1, <2>6, <2>7, SeqEqual
<1>5. CASE wpc # "write"
  <2>1. Len(Owed) = RingCount /\ \A k \in 1..RingCount : Unread[k] = Owed[k]
    BY <1>1, <1>2, <1>3, <1>5 DEF InHand
  <2>2. Owed = [k \in 1..RingCount |-> Owed[k]]
    BY <1>3, <2>1
  <2> QED
    BY <1>5, <2>1, <2>2 DEF Pending, Unread
<1> QED
  BY <1>4, <1>5

\* The same two facts of the next state.
LEMMA OwedNext == Inv' => (Pending = Owed)' /\ OwedIsTheRest'
BY OwedShape, PendingIsOwed, PTL

\* The ring is full with one line less than it has slots.
LEMMA FullShape ==
    ASSUME Inv
    PROVE  RingFull <=> RingCount = LOG_QUEUE_SIZE - 1
<1>1. NextSlot(log_queue_head) = IF log_queue_head + 1 = LOG_QUEUE_SIZE
                                 THEN 0 ELSE log_queue_head + 1
  BY NextSlotValue DEF Inv, TypeOK
<1> QED
  BY <1>1, QueueSizeAssumption DEF Inv, TypeOK, Slots, RingFull, RingCount

\* A step that accepts, writes and refuses nothing and leaves the phase alone
\* is none of the channel's.
LEMMA ChannelUnmoved ==
    ASSUME Inv, Inv', Phase' = Phase, wpc' = "none" <=> wpc = "none",
           UNCHANGED <<file, accepted, lost>>
    PROVE  UNCHANGED Channel!chan
<1>1. Pending' = Pending
  <2>1. Owed' = Owed
    BY DEF Owed
  <2> QED
    BY <2>1, PendingIsOwed, OwedNext
<1> QED
  BY <1>1 DEF Channel!chan, IfWorker

\* A line put in the ring is accepted, a line that found it full refused.
LEMMA ChannelPut ==
    ASSUME Inv, Inv', log_msg_put
    PROVE  [Channel!Next]_Channel!chan
<1>1. /\ wpc' \in {wpc, "lock"} /\ (wpc' = "none" <=> wpc = "none")
      /\ mpc = "msgPut" /\ mpc' = "run" /\ file' = file
      /\ line \in Line
  BY DEF log_msg_put, WakeUp, output, Inv, Control, MainInv
<1>2. Phase' = Phase
  BY <1>1 DEF Phase
<1>3. CASE wpc = "none"
  BY <1>1, <1>2, <1>3 DEF Channel!chan, IfWorker
<1>4. CASE wpc # "none" /\ ~RingFull
  <2>1. accepted' = Append(accepted, line) /\ lost' = lost
    BY <1>4 DEF log_msg_put
  <2>2. accepted \in Seq(Line) /\ file \in Seq(Line)
    BY DEF Inv, TypeOK
  <2>3. Pending' = Append(Pending, line)
    <3>1. /\ Owed \in Seq(Line) /\ Len(Owed) = Len(accepted) - Len(file)
          /\ \A k \in 1..Len(Owed) : Owed[k] = accepted[Len(file) + k]
      BY OwedShape DEF OwedIsTheRest
    <3>2. /\ Owed' \in Seq(Line) /\ Len(Owed') = Len(accepted') - Len(file')
          /\ \A k \in 1..Len(Owed') : Owed'[k] = accepted'[Len(file') + k]
      BY OwedNext DEF OwedIsTheRest
    <3>3. Append(Owed, line) \in Seq(Line) /\ Len(Owed') = Len(Append(Owed, line))
      BY <1>1, <2>1, <2>2, <3>1, <3>2
    <3>4. ASSUME NEW k \in 1..Len(Owed')
          PROVE  Owed'[k] = Append(Owed, line)[k]
      <4>1. /\ Len(accepted') = Len(accepted) + 1
            /\ accepted'[Len(accepted) + 1] = line
            /\ \A i \in 1..Len(accepted) : accepted'[i] = accepted[i]
        BY <1>1, <2>1, <2>2
      <4>2. /\ Len(Owed') = Len(Owed) + 1
            /\ Append(Owed, line)[Len(Owed) + 1] = line
            /\ \A i \in 1..Len(Owed) : Append(Owed, line)[i] = Owed[i]
        BY <1>1, <3>1, <3>3
      <4>3. CASE k = Len(Owed) + 1
        <5>1. Len(file) + k = Len(accepted) + 1
          BY <4>3, <2>2, <3>1
        <5> QED
          BY <4>3, <4>1, <4>2, <5>1, <1>1, <3>2
      <4>4. CASE k \in 1..Len(Owed)
        <5>1. Len(file) + k \in 1..Len(accepted)
          BY <4>4, <2>2, <3>1
        <5> QED
          BY <4>4, <4>1, <4>2, <5>1, <1>1, <3>1, <3>2
      <4> QED
        BY <4>2, <4>3, <4>4, <3>1
    <3>5. Owed' = Append(Owed, line)
      BY <3>2, <3>3, <3>4, SeqEqual
    <3> QED
      BY <3>5, PendingIsOwed, OwedNext
  <2>4. Len(Pending) <= LOG_QUEUE_SIZE - 1
    <3>1. Len(Pending) = InHand + RingCount
      BY PendingIsOwed, OwedShape DEF OwedIsTheRest
    <3>2. RingCount \in 0..(LOG_QUEUE_SIZE - 1) /\ InHand \in {0, 1}
      BY RingShape DEF Inv, TypeOK, InHand
    <3> QED
      BY <1>4, <3>1, <3>2, FullShape, QueueSizeAssumption
  <2>5. Channel!Accept(line)
    BY <1>1, <1>2, <1>4, <2>1, <2>3, <2>4 DEF Channel!Accept, Phase, IfWorker
  <2> QED
    BY <1>1, <2>5 DEF Channel!Next
<1>5. CASE wpc # "none" /\ RingFull
  <2>1. accepted' = accepted /\ lost' = Append(lost, line)
    BY <1>5 DEF log_msg_put
  <2>2. Pending' = Pending
    <3>1. Owed' = Owed
      BY <1>1, <2>1 DEF Owed
    <3> QED
      BY <3>1, PendingIsOwed, OwedNext
  <2>3. Len(Pending) >= LOG_QUEUE_SIZE - 1
    <3>1. Len(Pending) = InHand + RingCount
      BY PendingIsOwed, OwedShape DEF OwedIsTheRest
    <3>2. RingCount \in 0..(LOG_QUEUE_SIZE - 1) /\ InHand \in {0, 1}
      BY RingShape DEF Inv, TypeOK, InHand
    <3> QED
      BY <1>5, <3>1, <3>2, FullShape, QueueSizeAssumption
  <2>4. Channel!Refuse(line)
    BY <1>1, <1>2, <1>5, <2>1, <2>2, <2>3 DEF Channel!Refuse, Phase, IfWorker
  <2> QED
    BY <1>1, <2>4 DEF Channel!Next
<1> QED
  BY <1>3, <1>4, <1>5

\* The worker's write delivers the oldest line.
LEMMA ChannelWrite ==
    ASSUME Inv, Inv', log_worker_write
    PROVE  Channel!Deliver
<1>1. /\ wpc = "write" /\ wpc' \in {"echo", "lock"} /\ mpc' = mpc
      /\ UNCHANGED <<accepted, lost>> /\ file' = Append(file, entry)
      /\ mpc \notin {"exited", "crashed", "closed"}
  BY DEF log_worker_write, history, Alive, Inv, Control, WorkerInv
<1>2. accepted \in Seq(Line) /\ file \in Seq(Line) /\ entry \in Line
  BY <1>1 DEF Inv, TypeOK, Control, WorkerInv
<1>3. /\ Owed \in Seq(Line) /\ Len(Owed) = Len(accepted) - Len(file)
      /\ Len(Owed) = InHand + RingCount
      /\ \A k \in 1..Len(Owed) : Owed[k] = accepted[Len(file) + k]
  BY OwedShape DEF OwedIsTheRest
<1>4. /\ Owed' \in Seq(Line) /\ Len(Owed') = Len(accepted') - Len(file')
      /\ \A k \in 1..Len(Owed') : Owed'[k] = accepted'[Len(file') + k]
  BY OwedNext DEF OwedIsTheRest
<1>5. Len(Owed) > 0 /\ Owed # <<>>
  BY <1>1, <1>3, RingShape DEF InHand, Inv, TypeOK
<1>6. Head(Owed) = entry
  BY <1>1, <1>2, <1>3, <1>5 DEF Inv, DeliveredInOrder
<1>7. /\ Tail(Owed) \in Seq(Line) /\ Len(Tail(Owed)) = Len(Owed) - 1
      /\ \A k \in 1..Len(Tail(Owed)) : Tail(Owed)[k] = Owed[k + 1]
  BY <1>3, <1>5, HeadTailProperties
<1>8. Len(Owed') = Len(Tail(Owed))
  <2>1. Len(file') = Len(file) + 1 /\ Len(accepted') = Len(accepted)
    BY <1>1, <1>2
  <2>2. Len(file) \in Nat /\ Len(accepted) \in Nat
    BY <1>2
  <2> QED
    BY <1>3, <1>4, <1>7, <2>1, <2>2
<1>9. ASSUME NEW k \in 1..Len(Owed')
      PROVE  Owed'[k] = Tail(Owed)[k]
  <2>1. k + 1 \in 1..Len(Owed)
    BY <1>3, <1>7, <1>8
  <2>2. Owed[k + 1] = accepted[Len(file) + (k + 1)]
    BY <1>3, <2>1
  <2>3. Len(file') + k = Len(file) + (k + 1)
    BY <1>1, <1>2
  <2> QED
    BY <1>1, <1>4, <1>7, <1>8, <2>2, <2>3
<1>10. Owed' = Tail(Owed)
  BY <1>4, <1>7, <1>8, <1>9, SeqEqual
<1>11. Pending = Owed /\ Pending' = Owed'
  BY PendingIsOwed, OwedNext
<1> QED
  BY <1>1, <1>5, <1>6, <1>10, <1>11 DEF Channel!Deliver, Phase, IfWorker

\* Every step of main or the worker is one step of the channel or none.
LEMMA ChannelStep ==
    ASSUME Inv, Inv', EchoInv, [Next]_vars
    PROVE  [Channel!Next]_Channel!chan
<1>1. ASSUME NEW outcome \in InitOutcomes, log_init(outcome)
      PROVE  [Channel!Next]_Channel!chan
  <2>1. /\ wpc = "none" /\ mpc = "boot" /\ mpc' = "run"
        /\ accepted = <<>> /\ lost = <<>>
        /\ UNCHANGED <<file, accepted, lost>>
    BY <1>1 DEF log_init, output, history, Inv, Control, MainInv, EchoInv
  <2>2. CASE outcome = "ok"
    <3>1. Pending' = <<>>
      <4>1. Len(Owed') = 0 /\ Owed' \in Seq(Line)
        BY <2>1, OwedNext DEF OwedIsTheRest, Inv, TypeOK, DeliveredInOrder
      <4> QED
        BY <4>1, OwedNext
    <3>2. wpc' = "lock"
      BY <1>1, <2>2 DEF log_init
    <3> QED
      BY <2>1, <3>1, <3>2 DEF Channel!Next, Channel!Open, Phase, IfWorker
  <2>3. CASE outcome # "ok"
    <3>1. wpc' = "none"
      BY <1>1, <2>3 DEF log_init
    <3> QED
      BY <2>1, <3>1 DEF Channel!chan, Phase, IfWorker
  <2> QED
    BY <2>2, <2>3
<1>2. ASSUME NEW level \in CallLevels, log_msg(level)
      PROVE  [Channel!Next]_Channel!chan
  BY <1>2, ChannelUnmoved DEF log_msg, Phase, output, history
<1>3. CASE MainLock("msgLock", "msgPut")
  BY <1>3, ChannelUnmoved DEF MainLock, Phase, output, history
<1>4. CASE log_msg_put
  BY <1>4, ChannelPut
<1>5. CASE log_close
  BY <1>5, ChannelUnmoved DEF log_close, Phase, output, history
<1>6. CASE MainLock("closeLock", "closeStop")
  BY <1>6, ChannelUnmoved DEF MainLock, Phase, output, history
<1>7. CASE log_close_stop
  BY <1>7, ChannelUnmoved DEF log_close_stop, WakeUp, Phase, output, history
<1>8. CASE log_close_join
  <2>1. /\ wpc = "done" /\ wpc' = "done" /\ mpc = "join" /\ mpc' = "closed"
        /\ UNCHANGED <<file, accepted, lost>>
    BY <1>8 DEF log_close_join, WorkerJoined, output, history
  <2>2. Pending = <<>>
    <3>1. InHand = 0 /\ RingCount = 0
      BY <2>1, RingShape DEF InHand, Inv, TypeOK, Control, WorkerInv
    <3>2. Len(Owed) = 0 /\ Owed \in Seq(Line)
      BY <3>1, OwedShape DEF OwedIsTheRest
    <3> QED
      BY <3>2, PendingIsOwed
  <2>3. Pending' = Pending
    <3>1. Owed' = Owed
      BY <2>1 DEF Owed
    <3> QED
      BY <3>1, PendingIsOwed, OwedNext
  <2> QED
    BY <2>1, <2>2, <2>3 DEF Channel!Next, Channel!Close, Phase, IfWorker
<1>9. CASE log_close_join_undefined
  <2>1. /\ wpc = "none" /\ wpc' = "none" /\ mpc = "join"
        /\ mpc' \in {"crashed", "closed"}
        /\ UNCHANGED <<file, accepted, lost>>
    BY <1>9 DEF log_close_join_undefined, output, history
  <2> QED
    BY <2>1 DEF Channel!Next, Channel!Abandon, Phase, IfWorker
<1>10. CASE log_worker_lock
  BY <1>10, ChannelUnmoved DEF log_worker_lock, Phase, output, history
<1>11. CASE log_worker_wait
  BY <1>11, ChannelUnmoved DEF log_worker_wait, Phase, output, history
<1>12. CASE log_worker_spurious_wakeup
  BY <1>12, ChannelUnmoved DEF log_worker_spurious_wakeup, Phase, output, history
<1>13. CASE log_worker_exit
  BY <1>13, ChannelUnmoved DEF log_worker_exit, Phase, output, history
<1>14. CASE log_worker_take
  BY <1>14, ChannelUnmoved DEF log_worker_take, Phase, output, history
<1>15. CASE log_worker_write
  BY <1>15, ChannelWrite DEF Channel!Next
<1>16. CASE log_worker_echo
  BY <1>16, ChannelUnmoved DEF log_worker_echo, Phase, output, history
<1>17. CASE ProcessEnds
  <2>1. /\ mpc \notin {"closed", "crashed", "exited"} /\ mpc' = "exited"
        /\ wpc' = wpc /\ UNCHANGED <<file, accepted, lost>>
    BY <1>17 DEF ProcessEnds, output, history
  <2>2. Pending' = Pending
    <3>1. Owed' = Owed
      BY <2>1 DEF Owed
    <3> QED
      BY <3>1, PendingIsOwed, OwedNext
  <2> QED
    BY <2>1, <2>2 DEF Channel!Next, Channel!Abandon, Phase, IfWorker
<1>18. CASE UNCHANGED vars
  BY <1>18, ChannelUnmoved DEF vars, output, history, Phase
<1> QED
  BY <1>1, <1>2, <1>3, <1>4, <1>5, <1>6, <1>7, <1>8, <1>9, <1>10, <1>11,
     <1>12, <1>13, <1>14, <1>15, <1>16, <1>17, <1>18 DEF Next, MainWorks,
     WorkerWorks, Ended

\* The ring, the mutex and the two threads together are a bounded first-in
\* first-out channel to the file, whatever the ring's size and however the
\* threads are interleaved: the step half of ImplementsFairChannel.
THEOREM ChannelImplemented == Spec => ImplementsChannel
<1>1. Init => Channel!Init
  BY DEF Init, Channel!Init, Phase, IfWorker
<1>2. Inv /\ Inv' /\ EchoInv /\ [Next]_vars => [Channel!Next]_Channel!chan
  BY ChannelStep
<1> QED
  BY <1>1, <1>2, InvInvariant, EchoInvariant, PTL DEF Spec, ImplementsChannel,
     Channel!Spec
=============================================================================
