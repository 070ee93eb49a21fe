------------------------------- MODULE Logger -------------------------------
(***************************************************************************)
(* core::Logger: one producer, a bounded queue (LFQueue, used here as the  *)
(* BoundedFifo it implements) and a worker that formats and writes.  After *)
(* the producer has stopped, close() stops and joins the worker and drains *)
(* what is left itself.  The stream buffers lines; formatting, a write, a  *)
(* flush and the closing of the file may fail.  Records are numbers in the *)
(* order of the calls.                                                     *)
(***************************************************************************)
EXTENDS Integers, Sequences, SequencesExt

CONSTANTS
    Capacity,       \* the capacity of the queue
    MinimumLevel,   \* a level
    MaxCalls        \* bound on the calls of the producer

Level == [Debug |-> 0, Info |-> 1, Warn |-> 2, Error |-> 3, Fatal |-> 4, Off |-> 5]

ASSUME LoggerAssumption ==
    Capacity \in Nat \ {0} /\ MinimumLevel \in DOMAIN Level /\ MaxCalls \in Nat

VARIABLES
    calls,          \* the number of calls so far
    accepted,       \* the records for which try_log returned true (history)
    queue_,         \* the records in the queue
    dropped_,       \* the number of records refused by a full queue
    unformatted,    \* the records that could not be formatted; the code counts them
    buffer, file,   \* the records in the stream and in the file
    file_write_failed_,
    is_stop_,
    worker,         \* "waiting", "flushing" or "ended"
    closer,         \* "none", "joining", "flushing", "closing" or "closed"
    wrote           \* the local variable of the flush that runs

producerVars == <<calls, accepted, dropped_>>
outputVars == <<unformatted, buffer, file, file_write_failed_, wrote>>
vars == <<producerVars, outputVars, queue_, is_stop_, worker, closer>>

-----------------------------------------------------------------------------
(* The producer *)

try_log(level) ==
    /\ closer = "none" /\ calls < MaxCalls
    /\ calls' = calls + 1
    /\ IF \/ is_stop_ \/ level = "Off" \/ Level[level] < Level[MinimumLevel]
          \/ file_write_failed_
       THEN UNCHANGED <<queue_, accepted, dropped_>>
       ELSE IF Len(queue_) = Capacity
       THEN dropped_' = dropped_ + 1 /\ UNCHANGED <<queue_, accepted>>
       ELSE /\ queue_' = Append(queue_, calls')
            /\ accepted' = Append(accepted, calls')
            /\ UNCHANGED dropped_
    /\ UNCHANGED <<outputVars, is_stop_, worker, closer>>

LevelOf(result) ==
    IF result = "Ok" THEN "Debug" ELSE IF result = "AllocationFailed" THEN "Error" ELSE "Warn"

log_event(result) == try_log(LevelOf(result))

-----------------------------------------------------------------------------
(* flush, run by the worker and, once that has ended, by close *)

Flushing == worker = "flushing" \/ closer = "flushing"

FlushReturns ==
    /\ worker' = IF worker = "flushing" THEN "waiting" ELSE worker
    /\ closer' = IF closer = "flushing" THEN "closing" ELSE closer
    /\ wrote' = FALSE

FlushGoesOn == UNCHANGED <<worker, closer>>

\* A record is popped and formatted, and handed to the stream if it can be.
WriteOne ==
    /\ Flushing /\ queue_ # <<>>
    /\ queue_' = Tail(queue_)
    /\ \/ /\ unformatted' = unformatted \cup {Head(queue_)}
          /\ FlushGoesOn
          /\ UNCHANGED <<buffer, file_write_failed_, wrote>>
       \/ /\ buffer' = Append(buffer, Head(queue_))
          /\ wrote' = TRUE
          /\ FlushGoesOn
          /\ UNCHANGED <<unformatted, file_write_failed_>>
       \/ /\ file_write_failed_' = TRUE
          /\ buffer' = <<>>
          /\ FlushReturns
          /\ UNCHANGED unformatted
    /\ UNCHANGED <<producerVars, file, is_stop_>>

\* The lines of the stream reach the file, or the stream fails.
FlushStream ==
    \/ /\ file' = file \o buffer /\ buffer' = <<>>
       /\ UNCHANGED file_write_failed_
    \/ /\ file_write_failed_' = TRUE /\ buffer' = <<>>
       /\ UNCHANGED file

\* Fault: the stream is not flushed.
FlushEnds_Buffered ==
    /\ Flushing /\ queue_ = <<>>
    /\ FlushReturns
    /\ UNCHANGED <<producerVars, unformatted, queue_, is_stop_, buffer, file, file_write_failed_>>

\* The queue is empty.
FlushEnds ==
    /\ Flushing /\ queue_ = <<>>
    /\ IF wrote THEN FlushStream ELSE UNCHANGED <<buffer, file, file_write_failed_>>
    /\ FlushReturns
    /\ UNCHANGED <<producerVars, unformatted, queue_, is_stop_>>

-----------------------------------------------------------------------------
(* The worker and close *)

\* Fault: the worker does not look whether it is to stop.
Work_Deaf ==
    /\ worker = "waiting"
    /\ worker' = IF file_write_failed_ THEN "ended" ELSE "flushing"
    /\ UNCHANGED <<producerVars, outputVars, queue_, is_stop_, closer>>

\* do_work, at the head of its loop
Work ==
    /\ worker = "waiting"
    /\ worker' = IF is_stop_ \/ file_write_failed_ THEN "ended" ELSE "flushing"
    /\ UNCHANGED <<producerVars, outputVars, queue_, is_stop_, closer>>

\* close begins, the producer being done.
Close ==
    /\ closer = "none"
    /\ is_stop_' = TRUE
    /\ closer' = "joining"
    /\ UNCHANGED <<producerVars, outputVars, queue_, worker>>

\* Fault: what the worker left is not drained.
Join_NoDrain ==
    /\ closer = "joining" /\ worker = "ended"
    /\ closer' = "closing"
    /\ UNCHANGED <<producerVars, outputVars, queue_, is_stop_, worker>>

Join ==
    /\ closer = "joining" /\ worker = "ended"
    /\ closer' = IF file_write_failed_ THEN "closing" ELSE "flushing"
    /\ UNCHANGED <<producerVars, outputVars, queue_, is_stop_, worker>>

\* file_.close
CloseFile ==
    /\ closer = "closing"
    /\ FlushStream
    /\ closer' = "closed"
    /\ UNCHANGED <<producerVars, unformatted, wrote, queue_, is_stop_, worker>>

-----------------------------------------------------------------------------

Init ==
    /\ calls = 0 /\ dropped_ = 0
    /\ accepted = <<>> /\ queue_ = <<>> /\ buffer = <<>> /\ file = <<>>
    /\ unformatted = {}
    /\ file_write_failed_ = FALSE /\ is_stop_ = FALSE /\ wrote = FALSE
    /\ worker = "waiting" /\ closer = "none"

Produce ==
    \/ \E level \in DOMAIN Level : try_log(level)
    \/ \E result \in {"Ok", "UnknownOrder", "AllocationFailed"} : log_event(result)

Next == Produce \/ WriteOne \/ FlushEnds \/ Work \/ Close \/ Join \/ CloseFile

Spec == Init /\ [][Next]_vars

\* The worker's loop and a close that has begun are not stopped.
FairSpec ==
    /\ Spec
    /\ WF_vars(Work) /\ WF_vars(WriteOne) /\ WF_vars(FlushEnds)
    /\ WF_vars(Join) /\ WF_vars(CloseFile)

-----------------------------------------------------------------------------
(* Properties *)

\* When close returns every record that was accepted is in the file, in order
\* and once, or is counted as one that could not be formatted, unless
\* has_file_write_error says so ("drains accepted records and exposes final
\* write errors", logger.hpp).
CloseDrains ==
    closer = "closed" =>
        \/ file_write_failed_
        \/ file = SelectSeq(accepted, LAMBDA r : r \notin unformatted)

\* A record that is accepted gets to the file without a close: it does not stay
\* in the queue or in the stream of a worker that has nothing more to do, unless
\* it cannot be formatted or writing fails.
AcceptedIsWritten ==
    \A r \in 1..MaxCalls :
        Contains(accepted, r) ~> (Contains(file, r) \/ r \in unformatted \/ file_write_failed_)

\* close always returns: neither the worker nor the drain can keep it.
CloseReturns == closer = "joining" ~> closer = "closed"

=============================================================================
