------------------------------ MODULE Tracing ------------------------------
(***************************************************************************)
(* TraceManager: threads record finished spans in a bounded queue, one     *)
(* worker thread exports them in batches to a collector that may refuse,   *)
(* flush() does the same on its caller's thread, and shutdown() at the end *)
(* of the process waits for the worker.  Spans are numbered.               *)
(***************************************************************************)
EXTENDS Integers, Sequences, FiniteSets, SequencesExt

CONSTANTS
    MaxQueueSize,   \* trace.max_queue_size
    TraceBatch,     \* trace.batch_size
    MaxSpans        \* bound: spans recorded

ASSUME TracingAssumption == MaxQueueSize \in Nat \ {0} /\ TraceBatch \in Nat \ {0}

VARIABLES
    spans,              \* queue_
    carried,            \* the batch that the worker and flush() hold
    tracer,             \* the worker: "none", "waiting", "exporting" or "ended"
    flusher,            \* flush(): "idle", "taking" or "exporting"
    stopping,           \* stopping_
    droppedSpans,       \* dropped_spans_
    exported,           \* what the collector took
    rejectedSpans,      \* ... and what it did not
    lastSpan,           \* the number of spans recorded
    lastBefore          \* ... when shutdown() was called

traceVars == <<spans, carried, tracer, flusher, stopping, droppedSpans, exported, rejectedSpans,
               lastSpan, lastBefore>>

TracingInit ==
    /\ spans = <<>> /\ carried = [worker |-> <<>>, flush |-> <<>>] /\ tracer = "none"
    /\ flusher = "idle" /\ stopping = FALSE /\ droppedSpans = 0 /\ exported = {} /\ rejectedSpans = {}
    /\ lastSpan = 0 /\ lastBefore = 0

\* TraceManager::configure with tracing enabled starts the worker
configure ==
    /\ tracer = "none" /\ tracer' = "waiting"
    /\ UNCHANGED <<spans, carried, flusher, stopping, droppedSpans, exported, rejectedSpans, lastSpan, lastBefore>>

\* TraceManager::record, called as a TraceSpan finishes
record ==
    /\ tracer # "none" /\ lastSpan < MaxSpans /\ lastSpan' = lastSpan + 1
    /\ IF Len(spans) >= MaxQueueSize
       THEN spans' = Append(Tail(spans), lastSpan + 1) /\ droppedSpans' = droppedSpans + 1
       ELSE spans' = Append(spans, lastSpan + 1) /\ UNCHANGED droppedSpans
    /\ UNCHANGED <<carried, tracer, flusher, stopping, exported, rejectedSpans, lastBefore>>

\* TraceManager::takeBatchLocked
takeBatchLocked(who) ==
    LET count == IF Len(spans) < TraceBatch THEN Len(spans) ELSE TraceBatch IN
    /\ carried' = [carried EXCEPT ![who] = [i \in 1 .. count |-> spans[i]]]
    /\ spans' = [i \in 1 .. Len(spans) - count |-> spans[count + i]]

\* OtlpTraceExporter::exportSpans: an unreachable collector, a failed write, a timeout and
\* a refusal all lose the batch
exportSpans(who) ==
    /\ \/ exported' = exported \cup Range(carried[who]) /\ UNCHANGED rejectedSpans
       \/ rejectedSpans' = rejectedSpans \cup Range(carried[who]) /\ UNCHANGED exported
    /\ carried' = [carried EXCEPT ![who] = <<>>]

\* Mutation: the worker waits for a full batch
traceWorkerLoopWaits ==
    /\ tracer = "waiting"
    /\ IF spans = <<>> THEN stopping /\ tracer' = "ended" /\ UNCHANGED <<spans, carried>>
       ELSE Len(spans) >= TraceBatch /\ takeBatchLocked("worker") /\ tracer' = "exporting"
    /\ UNCHANGED <<flusher, stopping, droppedSpans, exported, rejectedSpans, lastSpan, lastBefore>>

\* TraceManager::workerLoop wakes when a batch is full, when it is to stop, and after the
\* flush interval: it takes what there is, and ends when it is to stop and there is nothing
traceWorkerLoop ==
    /\ tracer = "waiting"
    /\ IF spans = <<>> THEN stopping /\ tracer' = "ended" /\ UNCHANGED <<spans, carried>>
       ELSE takeBatchLocked("worker") /\ tracer' = "exporting"
    /\ UNCHANGED <<flusher, stopping, droppedSpans, exported, rejectedSpans, lastSpan, lastBefore>>

workerExport ==
    /\ tracer = "exporting" /\ exportSpans("worker") /\ tracer' = "waiting"
    /\ UNCHANGED <<spans, flusher, stopping, droppedSpans, lastSpan, lastBefore>>

\* TraceManager::flush: batch after batch until the queue is empty or an export fails
flush ==
    /\ \/ flusher = "idle" /\ tracer # "none" /\ flusher' = "taking"
          /\ UNCHANGED <<spans, carried, exported, rejectedSpans>>
       \/ /\ flusher = "taking" /\ UNCHANGED <<exported, rejectedSpans>>
          /\ IF spans = <<>> THEN flusher' = "idle" /\ UNCHANGED <<spans, carried>>
             ELSE takeBatchLocked("flush") /\ flusher' = "exporting"
       \/ /\ flusher = "exporting" /\ exportSpans("flush") /\ UNCHANGED spans
          /\ flusher' = IF rejectedSpans' = rejectedSpans THEN "taking" ELSE "idle"
    /\ UNCHANGED <<tracer, stopping, droppedSpans, lastSpan, lastBefore>>

\* TraceManager::shutdown, called by ~TraceManager; its join() is over when tracer = "ended"
shutdown ==
    /\ tracer # "none" /\ ~ stopping /\ stopping' = TRUE /\ lastBefore' = lastSpan
    /\ UNCHANGED <<spans, carried, tracer, flusher, droppedSpans, exported, rejectedSpans, lastSpan>>

TracerStep == traceWorkerLoop \/ workerExport
TracingNext == configure \/ record \/ TracerStep \/ flush \/ shutdown

TracingSpec == TracingInit /\ [][TracingNext]_traceVars

-----------------------------------------------------------------------------
\* No span is lost unseen or sent twice, whoever takes it from the queue: each is in one
\* place, queued, carried, exported or refused, except those that droppedSpans() counts
SpansAreConserved ==
    LET places == <<Range(spans), Range(carried.worker), Range(carried.flush), exported, rejectedSpans>> IN
    /\ \A i, j \in DOMAIN places : i # j => places[i] \cap places[j] = {}
    /\ Cardinality(UNION Range(places)) + droppedSpans = lastSpan

\* When shutdown() returns, no span recorded before it was called waits in the queue
ShutdownFlushes == tracer = "ended" => \A s \in Range(spans) : s > lastBefore

\* shutdown() returns: it waits for no collector and for no further span for ever.  By
\* then every span recorded before was taken from the queue, and of all spans none was
\* lost unseen or sent twice (record, flush, workerLoop, shutdown).
ShutdownReturns == [](SpansAreConserved /\ ShutdownFlushes) /\ []<>(stopping => tracer = "ended")
=============================================================================
