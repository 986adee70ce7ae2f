----------------------------- MODULE StableHal -----------------------------
(***************************************************************************)
(* The vendor endpoint of the stable AIDL boundary:                        *)
(* hal/aidl-v1/VirtualCameraStableHal.cpp, with the parts of its clients   *)
(* that decide in which order it is called.                                *)
(*                                                                         *)
(* The endpoint keeps, for each camera slot, the producer descriptor that  *)
(* is published, the session that owns the slot, the configuration token   *)
(* in force, and the newest producer frame.  Everything is guarded by      *)
(* mLock, so an action below is one critical section.  What makes it hard  *)
(* is what happens between critical sections:                              *)
(*                                                                         *)
(*  - a session checks its registration in one critical section and        *)
(*    configures in the next (VirtualCameraSession::configureStreams);     *)
(*  - enqueue() gives up mLock while it waits for a reader;                *)
(*  - a reader works on a frame outside mLock, and the GPU works on it     *)
(*    after the reader has left;                                           *)
(*  - slot presence is published outside mLock, under mPresenceLock;       *)
(*  - callbacks to the platform are made outside mLock.                    *)
(***************************************************************************)
EXTENDS Integers, FiniteSets

CONSTANTS
    NumSlots,        \* kMaxVirtualCameras
    Platforms,       \* callback binders: one per incarnation of the relay
    Registrations,   \* ids of producer descriptors
    Sessions,        \* camera sessions over the life of the HAL process
    Callers,         \* binder threads that execute queueFrameForConfiguration
    Ahbs,            \* addresses AHardwareBuffer objects can have
    Jobs,            \* GPU jobs whose completion a fence can stand for
    MaxIdentity,     \* INT64_MAX, where mNextIdentity saturates
    MaxFrames,       \* bound on mFramesReceived (a uint64_t)
    MaxPendingReads, \* kMaxPendingReads
    None             \* a null pointer, binder or descriptor

ASSUME HalAssumption ==
    /\ NumSlots \in Nat \ {0}
    /\ MaxIdentity \in Nat
    /\ MaxFrames \in Nat
    /\ MaxPendingReads \in Nat \ {0}
    /\ None \notin Platforms \cup Registrations \cup Ahbs
    /\ IsFiniteSet(Sessions)

Slots == 0 .. NumSlots - 1

VARIABLES
    callback,        \* mCallback
    capabilities,    \* mCapabilities: the registration published per slot
    configurations,  \* mConfigurations: the token in force, 0 when closed
    sessionOwners,   \* mSessionOwners
    ownerClosed,     \* mOwnerClosed
    ready,           \* mReady
    nextIdentity,    \* mNextIdentity
    latest,          \* mLatest: the one frame kept per slot
    framesReceived,  \* mFramesReceived
    publishing,      \* slots the holder of mPresenceLock still has to publish
    publishAs,       \* the presence it publishes
    slotPresent,     \* VirtualCameraProvider::mSlotPresent
    session,         \* the camera sessions
    caller,          \* the threads inside enqueue()
    pending,         \* GPU jobs that have not signalled
    reads,           \* the frame a pending job reads, 0 for a producer's job
    returned         \* pending reads covered by a fence given back to the relay

control   == <<callback, capabilities, configurations, sessionOwners, ownerClosed, ready,
               nextIdentity>>
presence  == <<publishing, publishAs, slotPresent>>
frames    == <<latest, framesReceived>>
gpu       == <<pending, reads, returned>>
vars      == <<control, presence, frames, session, caller, gpu>>

(***************************************************************************)
(* Fences.  A fence descriptor is the set of jobs it stands for; {} is no  *)
(* fence.  It has signalled when none of its jobs is pending.              *)
(***************************************************************************)
Fence == SUBSET Jobs
Signalled(f) == f \cap pending = {}

\* pruneReadFences: only a fence whose wait succeeds is dropped.
Prune(fences) == {f \in fences : ~Signalled(f)}

\* consolidateReadFences: what is left after the prune is merged pairwise into
\* one fence until a merge fails, which keeps both descriptors.
Consolidations(fences) ==
    LET live == Prune(fences)
    IN {(live \ merged) \cup {UNION merged} : merged \in (SUBSET live) \ {{}}} \cup {live}

\* consolidateFences returned true: there is at most one dependency left.
Consolidated(fences) == \A f, g \in fences : f = g

(***************************************************************************)
(* Frames.                                                                 *)
(***************************************************************************)
Frame == [ahb : Ahbs \cup {None}, seq : Nat, token : Nat, acquire : Fence,
          readFences : SUBSET Fence, inflight : Nat, retiring : BOOLEAN]

NoFrame == [ahb |-> None, seq |-> 0, token |-> 0, acquire |-> {}, readFences |-> {},
            inflight |-> 0, retiring |-> FALSE]

\* Mutant of Reaped: the read fences of a retiring frame are not looked at.
ReapedUnfenced(frame) ==
    IF frame.retiring /\ frame.inflight = 0 THEN NoFrame ELSE frame

\* reapRetiringLocked: a retiring frame goes when the last reader has left and
\* every read fence has signalled.
Reaped(frame) ==
    LET live == Prune(frame.readFences)
    IN IF ~frame.retiring THEN frame
       ELSE IF frame.inflight = 0 /\ live = {} THEN NoFrame
       ELSE [frame EXCEPT !.readFences = live]

\* Mutant of Dropped: the frame goes at once, as if it had no reader.
DroppedAtOnce(frame) == NoFrame

\* dropLatestLocked
Dropped(frame) == Reaped([frame EXCEPT !.retiring = TRUE])

NoHold == [ahb |-> None, seq |-> 0, acquire |-> {}, fences |-> {}]
NoCall == [to |-> None, registration |-> None, token |-> 0, closed |-> FALSE]
NewSession == [phase |-> "none", slot |-> 0, registration |-> None, identity |-> 0,
               token |-> 0, last |-> 0, closing |-> FALSE, held |-> NoHold, call |-> NoCall]
IdleCaller == [waiting |-> FALSE, slot |-> 0, token |-> 0, fits |-> FALSE, ahb |-> None,
               acquire |-> {}]

\* AHardwareBuffer_createFromHandle returns an object nobody holds a reference
\* to: neither the HAL's frames, nor a reader, nor a thread in enqueue().
LiveAhbs == {latest[s].ahb : s \in Slots} \cup {session[n].held.ahb : n \in Sessions}
                \cup {caller[c].ahb : c \in Callers}

\* Jobs no descriptor of the HAL stands for any more.
FreeJobs ==
    Jobs \ (pending \cup UNION {latest[s].acquire \cup UNION latest[s].readFences : s \in Slots}
                \cup UNION {session[n].held.acquire \cup UNION session[n].held.fences : n \in Sessions}
                \cup UNION {caller[c].acquire : c \in Callers})

Init ==
    /\ callback = None
    /\ capabilities = [s \in Slots |-> None]
    /\ configurations = [s \in Slots |-> 0]
    /\ sessionOwners = [s \in Slots |-> 0]
    /\ ownerClosed = [s \in Slots |-> FALSE]
    /\ ready = [s \in Slots |-> FALSE]
    /\ nextIdentity = 0
    /\ latest = [s \in Slots |-> NoFrame]
    /\ framesReceived = 0
    /\ publishing = {}
    /\ publishAs = FALSE
    /\ slotPresent = [s \in Slots |-> FALSE]
    /\ session = [n \in Sessions |-> NewSession]
    /\ caller = [c \in Callers |-> IdleCaller]
    /\ pending = {}
    /\ reads = [j \in Jobs |-> 0]
    /\ returned = {}
----------------------------------------------------------------------------
(***************************************************************************)
(* The platform's control calls.                                           *)
(***************************************************************************)

\* Mutants of RetireOwners: the counter is not checked against its limit; the
\* slot is given back to whoever asks.
RetireOwnersUnchecked(S) ==
    LET rank(s) == Cardinality({r \in S : r <= s})
    IN /\ sessionOwners' = [s \in Slots |->
              IF s \in S THEN nextIdentity + rank(s) ELSE sessionOwners[s]]
       /\ nextIdentity' = nextIdentity + Cardinality(S)

RetireOwnersToZero(S) ==
    /\ sessionOwners' = [s \in Slots |-> IF s \in S THEN 0 ELSE sessionOwners[s]]
    /\ UNCHANGED nextIdentity

\* The slots of S lose their session for good: each gets a fresh owner identity
\* no existing session reaches, until the counter saturates.
RetireOwners(S) ==
    LET rank(s) == Cardinality({r \in S : r <= s})
        issued == nextIdentity + Cardinality(S)
    IN /\ sessionOwners' = [s \in Slots |->
              IF s \in S /\ nextIdentity + rank(s) <= MaxIdentity
              THEN nextIdentity + rank(s) ELSE sessionOwners[s]]
       /\ nextIdentity' = IF issued <= MaxIdentity THEN issued ELSE MaxIdentity

\* Mutant of ClearSlots: the slots are cleared but stay published.
ClearSlotsSilently(S) ==
    /\ configurations' = [s \in Slots |-> IF s \in S THEN 0 ELSE configurations[s]]
    /\ ownerClosed' = [s \in Slots |-> s \in S \/ ownerClosed[s]]
    /\ ready' = [s \in Slots |-> s \notin S /\ ready[s]]
    /\ capabilities' = [s \in Slots |-> IF s \in S THEN None ELSE capabilities[s]]
    /\ latest' = [s \in Slots |-> IF s \in S THEN Dropped(latest[s]) ELSE latest[s]]
    /\ RetireOwners(S)
    /\ UNCHANGED <<publishing, publishAs>>

\* What setCallback and removeProducer do to a slot under mLock.
ClearSlots(S) ==
    /\ configurations' = [s \in Slots |-> IF s \in S THEN 0 ELSE configurations[s]]
    /\ ownerClosed' = [s \in Slots |-> s \in S \/ ownerClosed[s]]
    /\ ready' = [s \in Slots |-> s \notin S /\ ready[s]]
    /\ capabilities' = [s \in Slots |-> IF s \in S THEN None ELSE capabilities[s]]
    /\ latest' = [s \in Slots |-> IF s \in S THEN Dropped(latest[s]) ELSE latest[s]]
    /\ RetireOwners(S)
    /\ publishing' = S
    /\ publishAs' = FALSE

\* mPresenceLock is free.
PresenceFree == publishing = {}

SetCallback(p) ==
    /\ PresenceFree
    /\ p # callback
    /\ callback' = p
    /\ IF callback = None
       THEN UNCHANGED <<capabilities, configurations, sessionOwners, ownerClosed, ready,
                        nextIdentity, latest, publishing, publishAs>>
       ELSE ClearSlots(Slots)
    /\ UNCHANGED <<slotPresent, framesReceived, session, caller, gpu>>

RegisterProducer(s, r, p) ==
    /\ PresenceFree
    /\ callback = p
    /\ capabilities[s] = None
    /\ capabilities' = [capabilities EXCEPT ![s] = r]
    /\ ready' = [ready EXCEPT ![s] = FALSE]
    /\ configurations' = [configurations EXCEPT ![s] = 0]
    /\ publishing' = {s}
    /\ publishAs' = TRUE
    /\ UNCHANGED <<callback, sessionOwners, ownerClosed, nextIdentity, slotPresent, frames,
                   session, caller, gpu>>

RemoveProducer(s, r, p) ==
    /\ PresenceFree
    /\ callback = p
    /\ capabilities[s] = r
    /\ ClearSlots({s})
    /\ UNCHANGED <<callback, slotPresent, framesReceived, session, caller, gpu>>

\* setSlotPresent, called with mPresenceLock held and mLock released; the last
\* slot published frees the lock.
PublishSlot(s) ==
    /\ s \in publishing
    /\ slotPresent' = [slotPresent EXCEPT ![s] = publishAs]
    /\ publishing' = publishing \ {s}
    /\ UNCHANGED <<control, publishAs, frames, session, caller, gpu>>

SetConfigurationReady(s, t, isReady) ==
    /\ t > 0 /\ configurations[s] = t
    /\ capabilities[s] # None /\ ~ownerClosed[s]
    /\ ready' = [ready EXCEPT ![s] = isReady]
    /\ IF isReady
       THEN UNCHANGED <<configurations, latest>>
       ELSE /\ configurations' = [configurations EXCEPT ![s] = 0]
            /\ latest' = [latest EXCEPT ![s] = Dropped(@)]
    /\ UNCHANGED <<callback, capabilities, sessionOwners, ownerClosed, nextIdentity, presence,
                   framesReceived, session, caller, gpu>>
----------------------------------------------------------------------------
(***************************************************************************)
(* queueFrameForConfiguration: enqueue(), in up to two critical sections.  *)
(***************************************************************************)

Admitted(s, t, fits) ==
    /\ t > 0
    /\ configurations[s] = t
    /\ capabilities[s] = None \/ (ready[s] /\ fits)

\* Mutant of InUse: a frame that has any read fence counts as submitted.
InUseUnlessFenced(frame) == frame.ahb # None /\ frame.inflight > 0 /\ frame.readFences = {}

\* A reader has not left the frame that is to be replaced.
InUse(frame) == frame.ahb # None /\ frame.inflight > 0

\* The frame is replaced, and the fence of its reads is handed to the caller.
Swap(s, t, ahb, acquire, cur, fences) ==
    /\ latest' = [latest EXCEPT ![s] =
           [ahb |-> ahb, seq |-> framesReceived + 1, token |-> t, acquire |-> acquire,
            readFences |-> {}, inflight |-> 0, retiring |-> FALSE]]
    /\ framesReceived' = framesReceived + 1
    /\ pending' = pending \cup acquire
    /\ returned' = returned \cup (pending \cap UNION fences)

Reject(s, cur) ==
    /\ latest' = [latest EXCEPT ![s] = cur]
    /\ UNCHANGED <<framesReceived, pending, returned>>

\* From the last reap to the end of enqueue(), with mLock held and no reader.
Replace(s, t, ahb, acquire, cur) ==
    IF cur.retiring THEN Reject(s, cur)                               \* error 4
    ELSE \E fences \in Consolidations(cur.readFences) :
             IF Consolidated(fences)
             THEN framesReceived < MaxFrames /\ Swap(s, t, ahb, acquire, cur, fences)
             ELSE Reject(s, [cur EXCEPT !.readFences = fences])       \* error 6

\* A job is charged to the producer only if the HAL takes its frame (or may
\* still take it); a rejected frame's fence is closed.
Enqueue(c, s, t, fits, ahb, acquire) ==
    LET cur == Reaped(latest[s])
    IN /\ ~caller[c].waiting
       /\ ahb \notin LiveAhbs
       /\ acquire \subseteq FreeJobs
       /\ Admitted(s, t, fits)                                        \* else error 7
       /\ IF ~cur.retiring /\ InUse(cur)
          THEN /\ caller' = [caller EXCEPT ![c] =
                     [waiting |-> TRUE, slot |-> s, token |-> t, fits |-> fits, ahb |-> ahb,
                      acquire |-> acquire]]
               /\ pending' = pending \cup acquire
               /\ UNCHANGED <<latest, framesReceived, returned>>
          ELSE /\ Replace(s, t, ahb, acquire, cur)
               /\ UNCHANGED caller
       /\ UNCHANGED <<control, presence, session, reads>>

\* Mutant of EnqueueResume: what was admitted before the wait stays admitted.
EnqueueResumeAdmitted(c) ==
    LET s == caller[c].slot
    IN /\ caller[c].waiting
       /\ latest[s].inflight = 0
       /\ Replace(s, caller[c].token, caller[c].ahb, caller[c].acquire, Reaped(latest[s]))
       /\ caller' = [caller EXCEPT ![c] = IdleCaller]
       /\ UNCHANGED <<control, presence, session, reads>>

\* The wait ends because the last reader left.
EnqueueResume(c) ==
    LET s == caller[c].slot
        t == caller[c].token
    IN /\ caller[c].waiting
       /\ latest[s].inflight = 0
       /\ IF Admitted(s, t, caller[c].fits)
          THEN Replace(s, t, caller[c].ahb, caller[c].acquire, Reaped(latest[s]))
          ELSE UNCHANGED <<latest, framesReceived, pending, returned>>  \* error 7
       /\ caller' = [caller EXCEPT ![c] = IdleCaller]
       /\ UNCHANGED <<control, presence, session, reads>>

\* The wait ends after kRetireWait, the reader still in flight: error 4.
EnqueueTimeout(c) ==
    /\ caller[c].waiting
    /\ latest[caller[c].slot].inflight > 0
    /\ caller' = [caller EXCEPT ![c] = IdleCaller]
    /\ UNCHANGED <<control, presence, frames, session, gpu>>
----------------------------------------------------------------------------
(***************************************************************************)
(* Sessions.  mRequestLock makes a session one thread of steps; only       *)
(* `closing` (mClosed) is set from outside.                                *)
(***************************************************************************)

\* VirtualCameraProvider::getCameraDeviceInterface: the device keeps a snapshot
\* of the descriptor, with which a session may be opened much later.
GetDevice(n, s) ==
    /\ session[n].phase = "none"
    /\ capabilities[s] # None
    /\ session' = [session EXCEPT ![n] =
           [@ EXCEPT !.phase = "device", !.slot = s, !.registration = capabilities[s]]]
    /\ UNCHANGED <<control, presence, frames, caller, gpu>>

\* VirtualCameraDevice::open and the session's constructor.
Open(n) ==
    LET identity == IF nextIdentity = MaxIdentity THEN 0 ELSE nextIdentity + 1
    IN /\ session[n].phase = "device"
       /\ session' = [session EXCEPT ![n] = [@ EXCEPT !.phase = "idle", !.identity = identity]]
       /\ nextIdentity' = IF nextIdentity = MaxIdentity THEN nextIdentity ELSE nextIdentity + 1
       /\ UNCHANGED <<callback, capabilities, configurations, sessionOwners, ownerClosed, ready,
                      presence, frames, caller, gpu>>

RegistrationCurrent(n) == capabilities[session[n].slot] = session[n].registration

\* configureStreams up to and including its registrationCurrent check, or
\* processCaptureRequest up to and including that of updateTargetFps.  mClosed
\* is looked at on entry only, not between the requests of one batch.
Begin(n, phase) ==
    /\ \/ session[n].phase = "idle" /\ ~session[n].closing
       \/ session[n].phase = "batch" /\ phase = "requesting"
    /\ RegistrationCurrent(n)
    /\ session' = [session EXCEPT ![n].phase = phase]
    /\ UNCHANGED <<control, presence, frames, caller, gpu>>

\* No request of the batch is left, or the next one is refused.
EndBatch(n) ==
    /\ session[n].phase = "batch"
    /\ session' = [session EXCEPT ![n].phase = "idle"]
    /\ UNCHANGED <<control, presence, frames, caller, gpu>>

\* Mutant of MayConfigure: the session's own check of its registration is taken
\* to be enough.
MayConfigureAnyOwner(n) == session[n].identity > 0 /\ nextIdentity < MaxIdentity

\* The caller of notifyStreamsConfigured may own the slot.
MayConfigure(n) ==
    LET s == session[n].slot
        owner == session[n].identity
    IN /\ owner > 0
       /\ owner >= sessionOwners[s]
       /\ ~(owner = sessionOwners[s] /\ ownerClosed[s])
       /\ nextIdentity < MaxIdentity

\* notifyStreamsConfigured's critical section, for configureStreams or for a
\* request that renegotiates the source mode or rate.
NotifyStreamsConfigured(n) ==
    LET s == session[n].slot
        t == nextIdentity + 1
        call == [to |-> callback, registration |-> capabilities[s], token |-> t, closed |-> FALSE]
        from == session[n].phase
    IN /\ from \in {"configuring", "requesting"}
       /\ MayConfigure(n)
       /\ sessionOwners' = [sessionOwners EXCEPT ![s] = session[n].identity]
       /\ ownerClosed' = [ownerClosed EXCEPT ![s] = FALSE]
       /\ nextIdentity' = t
       /\ configurations' = [configurations EXCEPT ![s] = t]
       /\ ready' = [ready EXCEPT ![s] = capabilities[s] = None]
       /\ latest' = [latest EXCEPT ![s] = Dropped(@)]
       /\ session' = [session EXCEPT ![n] =
              [@ EXCEPT !.token = t,
                        !.call = IF callback = None THEN NoCall ELSE call,
                        !.phase = IF callback # None
                                  THEN IF from = "configuring" THEN "calling" ELSE "recalling"
                                  ELSE IF from = "configuring" THEN "idle" ELSE "capturing"]]
       /\ UNCHANGED <<callback, capabilities, presence, framesReceived, caller, gpu>>

\* notifyStreamsConfigured returns 0: configureStreams stores it as its token,
\* updateTargetFps fails the request and keeps the token it had.
ConfigureRejected(n) ==
    /\ session[n].phase \in {"configuring", "requesting"}
    /\ ~MayConfigure(n)
    /\ session' = [session EXCEPT ![n] =
           [@ EXCEPT !.phase = "idle",
                     !.token = IF session[n].phase = "configuring" THEN 0
                               ELSE session[n].token]]
    /\ UNCHANGED <<control, presence, frames, caller, gpu>>

\* The callback to the platform returns; it was made without mLock.
CallReturns(n) ==
    /\ session[n].phase \in {"calling", "recalling", "callingClosed"}
    /\ session' = [session EXCEPT ![n] =
           [@ EXCEPT !.call = NoCall,
                     !.phase = CASE session[n].phase = "calling" -> "idle"
                                 [] session[n].phase = "recalling" -> "capturing"
                                 [] OTHER -> "closed"]]
    /\ UNCHANGED <<control, presence, frames, caller, gpu>>

\* close() sets mClosed first, then waits for mRequestLock.
BeginClose(n) ==
    /\ session[n].phase \notin {"none", "device"}
    /\ ~session[n].closing
    /\ session' = [session EXCEPT ![n].closing = TRUE]
    /\ UNCHANGED <<control, presence, frames, caller, gpu>>

\* Mutant of OwnsConfiguration: only a configuration that became ready is ended.
OwnsReadyConfiguration(n) ==
    LET s == session[n].slot
    IN /\ session[n].identity > 0 /\ session[n].token > 0
       /\ sessionOwners[s] = session[n].identity
       /\ configurations[s] = session[n].token /\ ready[s]

\* notifyCameraClosed finds the session's configuration still in force.
OwnsConfiguration(n) ==
    LET s == session[n].slot
    IN /\ session[n].identity > 0 /\ session[n].token > 0
       /\ sessionOwners[s] = session[n].identity
       /\ configurations[s] = session[n].token

NotifyCameraClosed(n) ==
    LET s == session[n].slot
        call == [to |-> callback, registration |-> capabilities[s], token |-> session[n].token,
                 closed |-> TRUE]
    IN /\ session[n].phase = "idle"
       /\ session[n].closing
       /\ IF OwnsConfiguration(n)
          THEN /\ configurations' = [configurations EXCEPT ![s] = 0]
               /\ ready' = [ready EXCEPT ![s] = FALSE]
               /\ ownerClosed' = [ownerClosed EXCEPT ![s] = TRUE]
               /\ latest' = [latest EXCEPT ![s] = Dropped(@)]
               /\ session' = [session EXCEPT ![n] =
                      [@ EXCEPT !.call = IF callback = None THEN NoCall ELSE call,
                                !.phase = IF callback = None THEN "closed" ELSE "callingClosed"]]
          ELSE /\ session' = [session EXCEPT ![n].phase = "closed"]
               /\ UNCHANGED <<configurations, ready, ownerClosed, latest>>
       /\ UNCHANGED <<callback, capabilities, sessionOwners, nextIdentity, presence,
                      framesReceived, caller, gpu>>
----------------------------------------------------------------------------
(***************************************************************************)
(* A capture request's use of the newest frame                             *)
(* (VirtualCameraSession::processSingleRequest).                           *)
(***************************************************************************)

\* The slot holds a frame that acquireLatest may give to the session.
Acquirable(n) ==
    LET s == session[n].slot
        cur == latest[s]
    IN /\ session[n].phase \in {"requesting", "capturing"}
       /\ session[n].token > 0
       /\ cur.token = session[n].token /\ configurations[s] = session[n].token
       /\ cur.ahb # None /\ ~cur.retiring
       /\ cur.seq > session[n].last

\* acquireLatest succeeds.  The session consumes the submission, unless it
\* finds itself cancelled: then it only hands the frame back.
AcquireLatest(n, cancelled) ==
    LET s == session[n].slot
        cur == latest[s]
    IN /\ Acquirable(n)
       /\ \E fences \in Consolidations(cur.readFences) :
              /\ Cardinality(fences) + cur.inflight < MaxPendingReads
              /\ latest' = [latest EXCEPT ![s] =
                     [cur EXCEPT !.readFences = fences, !.inflight = @ + 1]]
       /\ session' = [session EXCEPT ![n] =
              [@ EXCEPT !.phase = IF cancelled THEN "leaving" ELSE "holding",
                        !.last = IF cancelled THEN session[n].last ELSE cur.seq,
                        !.held = [ahb |-> cur.ahb, seq |-> cur.seq, acquire |-> cur.acquire,
                                  fences |-> {}]]]
       /\ UNCHANGED <<control, presence, framesReceived, caller, gpu>>

\* acquireLatest consolidates the fences of the frame and still fails: there
\* are too many reads, or the frame's own fence cannot be duplicated.
AcquireFails(n) ==
    LET s == session[n].slot
        cur == latest[s]
    IN /\ Acquirable(n)
       /\ \E fences \in Consolidations(cur.readFences) :
              /\ Cardinality(fences) + cur.inflight >= MaxPendingReads \/ cur.acquire # {}
              /\ latest' = [latest EXCEPT ![s].readFences = fences]
       /\ UNCHANGED <<control, presence, framesReceived, session, caller, gpu>>

\* A request ends; another one of its batch may follow.
AfterRequest == {"idle", "batch"}

\* The request ends without a source frame.
NoSource(n, next) ==
    /\ session[n].phase \in {"requesting", "capturing"}
    /\ session' = [session EXCEPT ![n].phase = next]
    /\ UNCHANGED <<control, presence, frames, caller, gpu>>

\* isFrameCurrent
FrameCurrent(n) ==
    LET cur == latest[session[n].slot]
    IN /\ ~cur.retiring
       /\ cur.ahb = session[n].held.ahb
       /\ cur.seq = session[n].held.seq
       /\ cur.token = session[n].token
       /\ configurations[session[n].slot] = session[n].token

\* The producer's fence signalled within the deadline and the frame is still
\* current: the session closes its copy of the fence.
SourceReady(n) ==
    /\ session[n].phase = "holding"
    /\ session[n].held.acquire # {} /\ Signalled(session[n].held.acquire)
    /\ ~session[n].closing /\ FrameCurrent(n)
    /\ session' = [session EXCEPT ![n].held.acquire = {}]
    /\ UNCHANGED <<control, presence, frames, caller, gpu>>

\* An output is begun if the frame is current when it is looked at.
BeginOutput(n) ==
    /\ session[n].phase = "holding"
    /\ session[n].held.acquire = {}
    /\ ~session[n].closing /\ FrameCurrent(n)
    /\ session' = [session EXCEPT ![n].phase = "rendering"]
    /\ UNCHANGED <<control, presence, frames, caller, gpu>>

\* GpuCompositor::composite submits the read and returns its fence.
SubmitRead(n, j) ==
    /\ session[n].phase = "rendering"
    /\ j \in FreeJobs
    /\ pending' = pending \cup {j}
    /\ reads' = [reads EXCEPT ![j] = session[n].held.seq]
    /\ session' = [session EXCEPT ![n] =
           [@ EXCEPT !.phase = "holding",
                     !.held.fences = session[n].held.fences \cup {{j}}]]
    /\ UNCHANGED <<control, presence, frames, caller, returned>>

\* The CPU converters and the JPEG encoder read the frame before they return;
\* a render that fails returns no fence either.
ReadOnCpu(n) ==
    /\ session[n].phase = "rendering"
    /\ session' = [session EXCEPT ![n].phase = "holding"]
    /\ UNCHANGED <<control, presence, frames, caller, gpu>>

\* What the destructor of CaptureSource hands over: the reads, and the
\* producer's fence if it has not been waited for.
HeldFences(n) ==
    session[n].held.fences \cup
        (IF session[n].held.acquire = {} THEN {} ELSE {session[n].held.acquire})

\* releaseFrame, at the end of the request.  The frame is recognised by its
\* address; if it is no longer the slot's, the fences are just closed.
ReleaseFrame(n, next) ==
    LET s == session[n].slot
        cur == latest[s]
    IN /\ session[n].phase \in {"holding", "leaving"}
       /\ IF cur.ahb = session[n].held.ahb
          THEN \E fences \in Consolidations(cur.readFences \cup HeldFences(n)) :
                   latest' = [latest EXCEPT ![s] = Reaped(
                       [cur EXCEPT !.readFences = fences,
                                   !.inflight = IF @ > 0 THEN @ - 1 ELSE @])]
          ELSE UNCHANGED latest
       /\ session' = [session EXCEPT ![n] = [@ EXCEPT !.phase = next, !.held = NoHold]]
       /\ UNCHANGED <<control, presence, framesReceived, caller, gpu>>

\* A job completes, and every fence that stands for it signals.
Signal(j) ==
    /\ j \in pending
    /\ pending' = pending \ {j}
    /\ reads' = [reads EXCEPT ![j] = 0]
    /\ returned' = returned \ {j}
    /\ UNCHANGED <<control, presence, frames, session, caller>>
----------------------------------------------------------------------------
Platform ==
    \/ \E p \in Platforms : SetCallback(p)
    \/ \E s \in Slots, r \in Registrations, p \in Platforms : RegisterProducer(s, r, p)
    \/ \E s \in Slots, r \in Registrations, p \in Platforms : RemoveProducer(s, r, p)
    \/ \E s \in Slots : PublishSlot(s)
    \/ \E s \in Slots, t \in 1 .. nextIdentity, b \in BOOLEAN : SetConfigurationReady(s, t, b)

FrameQueue ==
    \/ \E c \in Callers, s \in Slots, t \in 1 .. nextIdentity, fits \in BOOLEAN, ahb \in Ahbs,
          acquire \in {{}} \cup {{j} : j \in Jobs} : Enqueue(c, s, t, fits, ahb, acquire)
    \/ \E c \in Callers : EnqueueResume(c)
    \/ \E c \in Callers : EnqueueTimeout(c)

Lifecycle(n) ==
    \/ \E s \in Slots : GetDevice(n, s)
    \/ Open(n)
    \/ \E phase \in {"configuring", "requesting"} : Begin(n, phase)
    \/ EndBatch(n)
    \/ NotifyStreamsConfigured(n)
    \/ ConfigureRejected(n)
    \/ CallReturns(n)
    \/ BeginClose(n)
    \/ NotifyCameraClosed(n)

Capture(n) ==
    \/ \E cancelled \in BOOLEAN : AcquireLatest(n, cancelled)
    \/ AcquireFails(n)
    \/ \E next \in AfterRequest : NoSource(n, next)
    \/ SourceReady(n)
    \/ BeginOutput(n)
    \/ \E j \in Jobs : SubmitRead(n, j)
    \/ ReadOnCpu(n)
    \/ \E next \in AfterRequest : ReleaseFrame(n, next)

Next ==
    \/ Platform
    \/ FrameQueue
    \/ \E n \in Sessions : Lifecycle(n)
    \/ \E n \in Sessions : Capture(n)
    \/ \E j \in Jobs : Signal(j)

Spec == Init /\ [][Next]_vars
----------------------------------------------------------------------------
(***************************************************************************)
(* Properties.                                                             *)
(***************************************************************************)

Phases == {"none", "device", "idle", "configuring", "requesting", "calling", "recalling",
           "capturing", "holding", "leaving", "rendering", "batch", "callingClosed", "closed"}

SessionType ==
    [phase : Phases, slot : Slots, registration : Registrations \cup {None}, identity : Nat,
     token : Nat, last : Nat, closing : BOOLEAN,
     held : [ahb : Ahbs \cup {None}, seq : Nat, acquire : Fence, fences : SUBSET Fence],
     call : [to : Platforms \cup {None}, registration : Registrations \cup {None}, token : Nat,
             closed : BOOLEAN]]

CallerType ==
    [waiting : BOOLEAN, slot : Slots, token : Nat, fits : BOOLEAN, ahb : Ahbs \cup {None},
     acquire : Fence]

\* The state of VirtualCameraStableHal.h:142-156 and of its clients.
TypeOK ==
    /\ callback \in Platforms \cup {None}
    /\ capabilities \in [Slots -> Registrations \cup {None}]
    /\ configurations \in [Slots -> Nat]
    /\ sessionOwners \in [Slots -> Nat]
    /\ ownerClosed \in [Slots -> BOOLEAN]
    /\ ready \in [Slots -> BOOLEAN]
    /\ nextIdentity \in 0 .. MaxIdentity
    /\ latest \in [Slots -> Frame]
    /\ framesReceived \in 0 .. MaxFrames
    /\ publishing \in SUBSET Slots
    /\ publishAs \in BOOLEAN
    /\ slotPresent \in [Slots -> BOOLEAN]
    /\ session \in [Sessions -> SessionType]
    /\ caller \in [Callers -> CallerType]
    /\ pending \in SUBSET Jobs
    /\ reads \in [Jobs -> Nat]
    /\ returned \in SUBSET pending

\* The configuration in force was negotiated by a session opened on the very
\* registration that is published now, although registrationCurrent and
\* notifyStreamsConfigured are two critical sections between which the producer
\* may be removed and the slot registered again.
ConfiguredByCurrentRegistration ==
    \A n \in Sessions :
        LET s == session[n].slot
        IN session[n].token > 0 /\ configurations[s] = session[n].token
               => /\ capabilities[s] = session[n].registration
                  /\ sessionOwners[s] = session[n].identity
                  /\ ~ownerClosed[s]

\* A configuration in force belongs to a session that has not closed, so that
\* its close() will end it (VirtualCameraSession.cpp:104-124).  The exception is
\* a counter at its limit: notifyStreamsConfigured then hands out 0.
ConfigurationHasOwner ==
    \A s \in Slots :
        configurations[s] # 0 /\ nextIdentity < MaxIdentity
            => \E n \in Sessions : /\ session[n].slot = s
                                   /\ session[n].token = configurations[s]
                                   /\ session[n].phase \notin {"none", "device", "closed",
                                                               "callingClosed"}

\* A frame a session could still acquire was queued under the configuration in
\* force, from a producer that is registered and has declared itself ready.
FrameOfConfiguration ==
    \A s \in Slots :
        latest[s].ahb # None /\ ~latest[s].retiring
            => /\ latest[s].token = configurations[s] /\ configurations[s] # 0
               /\ ready[s] /\ capabilities[s] # None

Readers(s) == {n \in Sessions : session[n].slot = s /\ session[n].held.ahb # None}

\* The frame a session reads is never replaced nor forgotten under it: it is
\* still the slot's frame, the same submission, and inflight counts its readers.
FrameReadIsKept ==
    /\ \A s \in Slots : latest[s].inflight = Cardinality(Readers(s))
    /\ \A n \in Sessions :
           session[n].held.ahb # None
               => /\ latest[session[n].slot].ahb = session[n].held.ahb
                  /\ latest[session[n].slot].seq = session[n].held.seq

\* A read the GPU has not finished is always accounted for: it is a dependency
\* of the slot's frame, or of a session that still holds that frame, or of the
\* fence with which the relay returns the buffer to its producer.
EveryReadTracked ==
    \A j \in Jobs :
        reads[j] # 0
            => \/ j \in returned
               \/ \E s \in Slots : /\ latest[s].seq = reads[j]
                                  /\ \/ j \in UNION latest[s].readFences
                                     \/ \E n \in Readers(s) : j \in UNION session[n].held.fences

\* Once mPresenceLock is free, and before that for every slot whose publication
\* is done, the camera framework sees a slot exactly if a producer is registered.
PresenceAgrees ==
    \A s \in Slots \ publishing : slotPresent[s] <=> capabilities[s] # None

\* A slot never goes back to an older session, nor to a session it was taken
\* from by removal: late configure and close calls of old sessions do nothing.
OwnersOnlyAdvance ==
    [][\A s \in Slots :
          /\ sessionOwners'[s] >= sessionOwners[s]
          /\ configurations'[s] \notin {0, configurations[s]}
                 => /\ configurations'[s] > nextIdentity
                    /\ \A n \in Sessions : session[n].slot = s /\ session[n].token > 0
                           /\ session[n].phase # "none"
                           => session[n].token < configurations'[s]
      ]_vars
=============================================================================
