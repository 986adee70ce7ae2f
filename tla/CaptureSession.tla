--------------------------- MODULE CaptureSession ---------------------------
(***************************************************************************)
(* A camera session as the camera framework sees it:                       *)
(* hal/aidl-v1/VirtualCameraSession.cpp, processCaptureRequest against     *)
(* flush(), close() and configureStreams(), and what becomes of each       *)
(* output buffer and its fences on every path of processSingleRequest.     *)
(*                                                                         *)
(* mRequestLock serializes the calls; it is recursive, and held while a    *)
(* request waits for fences, for its slot in time and for a frame.         *)
(* flush() and close() cancel that wait without it: mFlushing, mClosed and *)
(* mCancelEpoch are set first, and the lock is taken afterwards, to drain. *)
(* The frame source is the endpoint of StableHal, reduced to its answers.  *)
(***************************************************************************)
EXTENDS Naturals, Sequences, SequencesExt

CONSTANTS
    Buffers,     \* the framework's output buffers, each of a stream of its own
    Batches,     \* the calls it may make: the outputs of each request in turn
    Flushers,    \* threads that call flush()
    MaxCalls,    \* bound on calls of processCaptureRequest
    MaxConfigs,  \* bound on calls of configureStreams
    MaxFlushes   \* bound on calls of flush()

\* The framework does not send a buffer that it does not own.
ASSUME SessionAssumption ==
    /\ Batches \subseteq Seq(Seq(Buffers))
    /\ \A batch \in Batches: \A n, m \in DOMAIN batch:
         \A i \in DOMAIN batch[n], j \in DOMAIN batch[m]:
             batch[n][i] = batch[m][j] => n = m /\ i = j
    /\ {MaxCalls, MaxConfigs, MaxFlushes} \subseteq Nat

VARIABLES
    requestLock,   \* holder of mRequestLock
    closed,        \* mClosed
    flushing,      \* mFlushing
    cancelEpoch,   \* mCancelEpoch
    streams,       \* mStreams is not empty
    cached,        \* mBufferCache
    token,         \* mConfigurationToken > 0
    req,           \* the thread in processCaptureRequest
    flusher,       \* where each flush() is
    closer,        \* where close() is
    notified,      \* notifyCameraClosed calls
    ours,          \* buffers the session has; all others are the framework's
    busy,          \* work outstanding on each: "none", "consumer", or "gpu" (ours)
    guarded,       \* buffers that came with a fence for that work
    known,         \* buffers the framework refers to by id alone
    ready,         \* the framework holds a successful configuration
    calls          \* calls made so far

vars == <<requestLock, closed, flushing, cancelEpoch, streams, cached, token, req, flusher,
          closer, notified, ours, busy, guarded, known, ready, calls>>

Nobody == "nobody"
\* batch: the outputs of each request of the call; done: requests accepted, all
\* of them answered; held: buffers whose acquire fence was duplicated; results:
\* what became of the outputs processed; source: a frame is reserved.
NoCall == [pc |-> "idle", epoch |-> 0, batch |-> <<>>, done |-> 0, answers |-> 0, i |-> 1,
           held |-> {}, results |-> <<>>, source |-> FALSE, removed |-> {}]

Init ==
    /\ requestLock = Nobody
    /\ closed = FALSE /\ flushing = FALSE /\ cancelEpoch = 0
    /\ streams = FALSE /\ cached = {} /\ token = FALSE
    /\ req = NoCall
    /\ flusher = [f \in Flushers |-> "idle"]
    /\ closer = "idle" /\ notified = 0
    /\ ours = {}
    /\ busy = [b \in Buffers |-> "none"]
    /\ guarded = {}
    /\ known = {} /\ ready = FALSE
    /\ calls = [process |-> 0, configure |-> 0, flush |-> 0]

-----------------------------------------------------------------------------
At(step) == req.pc = step
Outputs == req.batch[req.done + 1]
Out == Outputs[req.i]
Cancelled == closed \/ cancelEpoch # req.epoch

cancelVars == <<closed, flushing, cancelEpoch, flusher, closer>>
bufferVars == <<ours, busy, guarded>>
configVars == <<streams, token, ready>>

-----------------------------------------------------------------------------
\* The framework and the consumers of its buffers (external).

\* The work on a buffer ends, and its fence with it.
WorkEnds(b) ==
    /\ busy[b] # "none"
    /\ busy' = [busy EXCEPT ![b] = "none"]
    /\ guarded' = guarded \ {b}
    /\ UNCHANGED <<requestLock, cancelVars, configVars, cached, req, notified, ours, known, calls>>

\* A consumer takes a buffer it owns and leaves work on it.
Consume(b) ==
    /\ b \notin ours /\ busy[b] = "none"
    /\ busy' = [busy EXCEPT ![b] = "consumer"]
    /\ guarded' = guarded \cup {b}
    /\ UNCHANGED <<requestLock, cancelVars, configVars, cached, req, notified, ours, known, calls>>

\* A buffer known is sent by its id, any other with its handle; work the
\* framework has a fence for comes as the acquire fence.
Call(batch, gone) ==
    /\ At("idle") /\ ready /\ calls.process < MaxCalls
    /\ LET sent == UNION {ToSet(batch[n]): n \in DOMAIN batch} IN
       /\ gone \subseteq known \ sent
       /\ ours' = ours \cup sent
       /\ busy' = [b \in Buffers |-> IF b \notin sent THEN busy[b]
                                     ELSE IF b \in guarded THEN "consumer" ELSE "none"]
    /\ req' = [NoCall EXCEPT !.pc = "enter", !.batch = batch, !.removed = gone]
    /\ known' = known \ gone
    /\ calls' = [calls EXCEPT !.process = @ + 1]
    /\ UNCHANGED <<requestLock, cancelVars, configVars, cached, notified, guarded>>

-----------------------------------------------------------------------------
\* processCaptureRequest.

\* The call returns: what was not accepted is the framework's again, as it was.
Return ==
    LET rest == UNION {ToSet(req.batch[n]): n \in req.done + 1 .. Len(req.batch)} IN
    /\ ours' = ours \ rest
    /\ req' = NoCall
    /\ requestLock' = Nobody
    /\ UNCHANGED <<busy, guarded>>

Enter ==
    /\ At("enter") /\ requestLock = Nobody
    /\ IF closed \/ flushing
       THEN Return /\ UNCHANGED cached
       ELSE /\ requestLock' = "request"
            /\ cached' = cached \ req.removed
            /\ req' = [req EXCEPT !.pc = "epoch"]
            /\ UNCHANGED bufferVars
    /\ UNCHANGED <<cancelVars, configVars, notified, known, calls>>

Internal == UNCHANGED <<cancelVars, configVars, notified, known, calls>>
Holding == UNCHANGED <<requestLock, bufferVars>>

LoadEpoch ==
    /\ At("epoch")
    /\ req' = [req EXCEPT !.pc = "next", !.epoch = cancelEpoch]
    /\ Internal /\ Holding /\ UNCHANGED cached

AllDone ==
    /\ At("next") /\ req.done = Len(req.batch)
    /\ Return
    /\ Internal /\ UNCHANGED cached

\* No outputs, a stream that is not configured, or a buffer without handle not cached.
Valid == Outputs # <<>> /\ streams /\ \A n \in DOMAIN Outputs: Outputs[n] \in known => Outputs[n] \in cached

\* The request is invalid, or updateTargetFps finds the registration stale, the
\* rate not offered, or no configuration for it.
RejectRequest ==
    /\ At("next") /\ req.done < Len(req.batch)
    /\ Return
    /\ Internal /\ UNCHANGED cached

\* The acquire fences are duplicated before anything else.
DuplicateFences ==
    /\ At("next") /\ req.done < Len(req.batch) /\ Valid
    /\ req' = [req EXCEPT !.pc = "import", !.i = 1, !.results = <<>>,
                          !.held = ToSet(Outputs) \cap guarded]
    /\ Internal /\ Holding /\ UNCHANGED cached

\* A duplication fails: the session closes itself, under the lock it holds.
DuplicateFails ==
    /\ At("next") /\ req.done < Len(req.batch) /\ Valid
    /\ ToSet(Outputs) \cap guarded # {}
    /\ closed' = TRUE
    /\ cancelEpoch' = cancelEpoch + 1
    /\ notified' = IF closed THEN notified ELSE notified + 1
    /\ Return
    /\ UNCHANGED <<flushing, flusher, closer, configVars, cached, known, calls>>

\* Mutant of ImportBuffers: a handle is used for this request and not cached.
ImportUncached ==
    /\ At("import")
    /\ req' = [req EXCEPT !.pc = "destination"]
    /\ Internal /\ Holding /\ UNCHANGED cached

\* importBuffer of every output; a handle that cannot be imported ends the call.
ImportBuffers ==
    /\ At("import")
    /\ cached' = cached \cup ToSet(Outputs)
    /\ req' = [req EXCEPT !.pc = "destination"]
    /\ Internal /\ Holding

ImportFails ==
    /\ At("import")
    /\ \E n \in DOMAIN Outputs:
         /\ Outputs[n] \notin cached
         /\ cached' = cached \cup {Outputs[m]: m \in 1 .. n - 1}
    /\ Return
    /\ Internal

\* Mutant of Answer: the duplicates not waited for stay open.
AnswerLeaks(attached) ==
    /\ ours' = ours \ ToSet(Outputs)
    /\ guarded' = (guarded \ ToSet(Outputs)) \cup attached
    /\ known' = known \cup ToSet(Outputs)
    /\ req' = [req EXCEPT !.pc = "next", !.done = @ + 1, !.answers = @ + 1, !.i = 1,
                          !.source = FALSE]
    /\ UNCHANGED <<requestLock, cancelVars, configVars, cached, notified, busy, calls>>

\* The answer to a request: the callbacks, the outputs and the fences attached.
\* The reserved frame is released with the call's scope.
Answer(attached) ==
    /\ ours' = ours \ ToSet(Outputs)
    /\ guarded' = (guarded \ ToSet(Outputs)) \cup attached
    /\ known' = known \cup ToSet(Outputs)
    /\ req' = [req EXCEPT !.pc = "next", !.done = @ + 1, !.answers = @ + 1, !.i = 1,
                          !.held = {}, !.source = FALSE]
    /\ UNCHANGED <<requestLock, cancelVars, configVars, cached, notified, busy, calls>>

\* Mutant of FailUntouched: "a failed dup replaced with the no-fence sentinel".
FailUnfenced == Answer({})

\* failUntouched: every output in error, the fences not waited for given back.
FailUntouched == Answer(req.held)

\* Mutant of DestinationReady: a fence that did not signal in time is passed over.
DestinationAssumed ==
    /\ At("destination") /\ ~Cancelled
    /\ req' = [req EXCEPT !.held = @ \ {Out},
                          !.i = IF @ = Len(Outputs) THEN 1 ELSE @ + 1,
                          !.pc = IF req.i = Len(Outputs) THEN "pace" ELSE "destination"]
    /\ Internal /\ Holding /\ UNCHANGED cached

\* sync_wait on each acquire fence in turn; the duplicate is then closed.
DestinationReady ==
    /\ At("destination") /\ ~Cancelled
    /\ busy[Out] = "none" \/ Out \notin req.held
    /\ req' = [req EXCEPT !.held = @ \ {Out},
                          !.i = IF @ = Len(Outputs) THEN 1 ELSE @ + 1,
                          !.pc = IF req.i = Len(Outputs) THEN "pace" ELSE "destination"]
    /\ Internal /\ Holding /\ UNCHANGED cached

\* Cancelled, or 100 ms are over.
DestinationFails ==
    /\ At("destination")
    /\ Cancelled \/ (Out \in req.held /\ busy[Out] # "none")
    /\ FailUntouched

Paced ==
    /\ At("pace") /\ ~Cancelled
    /\ req' = [req EXCEPT !.pc = "source"]
    /\ Internal /\ Holding /\ UNCHANGED cached

PaceCancelled == At("pace") /\ Cancelled /\ FailUntouched

\* acquireLatest answers before the deadline.
SourceAcquired ==
    /\ At("source") /\ token /\ ~Cancelled
    /\ req' = [req EXCEPT !.pc = "sourceFence", !.source = TRUE]
    /\ Internal /\ Holding /\ UNCHANGED cached

\* Mutant of SourceFails: the wait for a frame has no deadline.
SourceCancelled == At("source") /\ Cancelled /\ FailUntouched

\* Cancelled, not configured, or the deadline passed: always possible.
SourceFails == At("source") /\ FailUntouched

\* The frame's fence signalled and the frame is current still.
SourceReady ==
    /\ At("sourceFence") /\ ~Cancelled
    /\ req' = [req EXCEPT !.pc = "output"]
    /\ Internal /\ Holding /\ UNCHANGED cached

\* Cancelled, replaced, or the deadline passed.
SourceNotReady == At("sourceFence") /\ FailUntouched

\* One output: not attempted once cancelled or when the frame is not current;
\* else written by the CPU, or by the GPU, which goes on writing; or not filled.
Output(result) ==
    /\ At("output")
    /\ Cancelled => result = "error"
    /\ busy' = [busy EXCEPT ![Out] = IF result \in {"gpu", "unfenced"} THEN "gpu" ELSE @]
    /\ req' = [req EXCEPT !.results = Append(@, result), !.i = @ + 1,
                          !.pc = IF req.i = Len(Outputs) THEN "answer" ELSE "output"]
    /\ Internal /\ UNCHANGED <<requestLock, ours, guarded, cached>>

\* The shutter or ERROR_REQUEST, ERROR_BUFFER for each output not filled, and
\* the result: done fences were duplicated for the outputs, if they could be.
SendResult ==
    /\ At("answer")
    /\ Answer({Outputs[n]: n \in {m \in DOMAIN Outputs: req.results[m] = "gpu"}})

\* What happens without a frame arriving or a frame's fence signalling.
Process ==
    \/ Enter \/ LoadEpoch \/ AllDone \/ RejectRequest \/ DuplicateFences \/ DuplicateFails
    \/ ImportBuffers \/ ImportFails
    \/ DestinationReady \/ DestinationFails \/ Paced \/ PaceCancelled
    \/ SourceFails \/ SourceNotReady
    \/ (\E r \in {"cpu", "gpu", "unfenced", "error"}: Output(r)) \/ SendResult

-----------------------------------------------------------------------------
\* configureStreams, called while no request is in progress.  It is refused with
\* nothing changed (closed, unsupported); after the streams were cleared (no
\* mode, stale registration); or with the streams stored but no token.
ConfigureStreams(result) ==
    /\ At("idle") /\ calls.configure < MaxConfigs
    /\ requestLock = Nobody
    /\ closed => result = "refused"
    /\ calls' = [calls EXCEPT !.configure = @ + 1]
    /\ ready' = (result = "configured")
    /\ IF result = "refused"
       THEN UNCHANGED <<streams, cached, token, known>>
       ELSE /\ cached' = {} /\ known' = {}
            /\ streams' = (result \in {"configured", "noToken"})
            /\ token' = CASE result = "configured" -> TRUE [] result = "noToken" -> FALSE
                          [] OTHER -> token
    /\ UNCHANGED <<requestLock, cancelVars, req, notified, bufferVars>>

-----------------------------------------------------------------------------
\* flush(): mFlushing, the epoch, then the lock to drain what was cancelled.
FlushVars == <<requestLock, closed, configVars, cached, req, closer, notified, bufferVars, known>>

Flush(f) ==
    /\ flusher[f] = "idle" /\ calls.flush < MaxFlushes
    /\ flushing' = TRUE
    /\ flusher' = [flusher EXCEPT ![f] = "cancel"]
    /\ calls' = [calls EXCEPT !.flush = @ + 1]
    /\ UNCHANGED <<FlushVars, cancelEpoch>>

FlushCancels(f) ==
    /\ flusher[f] = "cancel"
    /\ cancelEpoch' = cancelEpoch + 1
    /\ flusher' = [flusher EXCEPT ![f] = "drain"]
    /\ UNCHANGED <<FlushVars, flushing, calls>>

FlushDrained(f) ==
    /\ flusher[f] = "drain" /\ requestLock = Nobody
    /\ flushing' = FALSE
    /\ flusher' = [flusher EXCEPT ![f] = "idle"]
    /\ UNCHANGED <<FlushVars, cancelEpoch, calls>>

-----------------------------------------------------------------------------
\* close(): the first caller tells the HAL, once the lock is its own.
CloseVars == <<requestLock, flushing, configVars, cached, req, flusher, bufferVars, known, calls>>

Close ==
    /\ closer = "idle"
    /\ closer' = IF closed THEN "again" ELSE "cancel"
    /\ closed' = TRUE
    /\ UNCHANGED <<CloseVars, cancelEpoch, notified>>

CloseCancels ==
    /\ closer \in {"cancel", "again"}
    /\ cancelEpoch' = cancelEpoch + 1
    /\ closer' = IF closer = "cancel" THEN "drain" ELSE "drainAgain"
    /\ UNCHANGED <<CloseVars, closed, notified>>

\* Mutant of CloseDrained: the lock is not taken.
CloseNow ==
    /\ closer \in {"drain", "drainAgain"}
    /\ notified' = IF closer = "drain" THEN notified + 1 ELSE notified
    /\ closer' = "closed"
    /\ UNCHANGED <<CloseVars, closed, cancelEpoch>>

CloseDrained ==
    /\ closer \in {"drain", "drainAgain"} /\ requestLock = Nobody
    /\ notified' = IF closer = "drain" THEN notified + 1 ELSE notified
    /\ closer' = "closed"
    /\ UNCHANGED <<CloseVars, closed, cancelEpoch>>

-----------------------------------------------------------------------------
Next ==
    \/ Process \/ SourceAcquired \/ SourceReady
    \/ \E batch \in Batches, gone \in SUBSET Buffers: Call(batch, gone)
    \/ \E b \in Buffers: WorkEnds(b) \/ Consume(b)
    \/ \E r \in {"refused", "cleared", "noToken", "configured"}: ConfigureStreams(r)
    \/ \E f \in Flushers: Flush(f) \/ FlushCancels(f) \/ FlushDrained(f)
    \/ Close \/ CloseCancels \/ CloseDrained

\* The session's threads are scheduled, every wait ends (its budget is spent if
\* nothing else happens), and a mutex that is free again and again is got.
\* Fences need never signal, and frames never come.
Fairness ==
    /\ WF_vars(Process) /\ SF_vars(Enter)
    /\ \A f \in Flushers: WF_vars(FlushCancels(f)) /\ SF_vars(FlushDrained(f))
    /\ WF_vars(CloseCancels) /\ SF_vars(CloseDrained)

Spec == Init /\ [][Next]_vars /\ Fairness

-----------------------------------------------------------------------------
(***************************************************************************)
(* No output is written while a consumer still works on it: every acquire  *)
(* fence was waited for, on every path that reaches the outputs.           *)
(***************************************************************************)
NoEarlyWrite ==
    At("output") => \A n \in req.i .. Len(Outputs): busy[Outputs[n]] # "consumer"

(***************************************************************************)
(* A buffer goes back to the framework with a fence for the work that a    *)
(* consumer has left on it, answered, refused or cancelled: "Never replace *)
(* a failed dup with the no-fence sentinel".                               *)
(***************************************************************************)
ConsumersGuarded ==
    \A b \in Buffers \ ours: busy[b] = "consumer" => b \in guarded

(***************************************************************************)
(* What the framework refers to by id the session has a handle for: a      *)
(* request that failed but was accepted has cached its buffers too.        *)
(***************************************************************************)
KnownIsCached == At("next") \/ At("idle") => known \subseteq cached

(***************************************************************************)
(* Between calls every buffer is the framework's: each was answered with   *)
(* an accepted request or given back with the call's error.  A duplicated  *)
(* acquire fence stays open no longer than its request.                    *)
(***************************************************************************)
NothingKept ==
    /\ At("idle") => ours = {}
    /\ req.answers = req.done
    /\ req.held # {} => (At("import") \/ At("destination")) /\ req.held \subseteq ToSet(Outputs)

(***************************************************************************)
(* close() drains: once it returned no request is processed any more, and  *)
(* the HAL was told of the end, once however often the session closed.     *)
(***************************************************************************)
CloseDrains ==
    /\ notified <= 1
    /\ closer = "closed" => req.pc \in {"idle", "enter"} /\ notified = 1

(***************************************************************************)
(* Calls return, whether or not fences signal and frames come.             *)
(***************************************************************************)
CallsReturn ==
    /\ ~At("idle") ~> At("idle")
    /\ \A f \in Flushers: flusher[f] = "drain" ~> flusher[f] = "idle"
    /\ closer = "cancel" ~> closer = "closed"
=============================================================================
