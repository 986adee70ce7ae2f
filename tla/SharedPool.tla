----------------------------- MODULE SharedPool -----------------------------
(***************************************************************************)
(* The zero-copy path: a renderer's pool of hardware buffers and the       *)
(* control ring it shares with the HAL (v2-shared-memory/), the renderer   *)
(* that submits to it (unified-test/.../virtual_camera_writer_v2.cpp), the *)
(* HAL's socket server that attaches it (hal/core/                         *)
(* VirtualCameraFrameSourceV2.cpp) and the capture thread that reads from  *)
(* it (HalInterface.h, called by FrameFiller::fillBufferFromV2).           *)
(*                                                                         *)
(* Three threads of two processes meet in the ring without a lock: the     *)
(* ring's loads and stores are steps of their own where their order        *)
(* matters.  mLock protects the pool's replacement only against            *)
(* getHalInterface(); the capture thread goes on with the pointers it has. *)
(***************************************************************************)
EXTENDS Integers, Sequences, FiniteSets

CONSTANTS
    NumBuffers,      \* bufferCount of the renderer's pool, at most MAX_BUFFERS
    RingSize,        \* RING_SIZE
    IndexSpan,       \* 2^32: the ring's indices are uint32_t
    MaxConnections,  \* bound on the pools, each of a renderer's initialize()
    MaxFrames        \* bound on the frames drawn, in all pools

ASSUME PoolAssumption ==
    /\ NumBuffers \in Nat \ {0} /\ RingSize \in Nat /\ NumBuffers + 1 < RingSize
    /\ MaxConnections \in Nat /\ MaxFrames \in Nat
    /\ IndexSpan \in Nat \ {0} /\ IndexSpan % RingSize = 0

Buffers == 0 .. NumBuffers - 1
Pools   == 1 .. MaxConnections   \* a pool and its ring, by order of connection
NoPool  == 0
NoBuffer == -1

VARIABLES
    ring,      \* the control ring of each pool, in memory both processes map
    frames,    \* frames drawn, in all pools
    drawing,   \* mCurrentBufferIndex, per pool
    renderer,  \* per pool: where its renderer is, and the buffer it tries next
    conn,      \* per pool: what its renderer has sent, what the server did with it
    attached,  \* VirtualCameraFrameSourceV2::mPool's ring
    received,  \* the pool whose buffers mPool.mBuffers holds
    iface,     \* HalInterface::mRing: set by initialize(), never cleared
    active,    \* mActive
    capture,   \* the capture thread: pc, the slot copied, the frame held
    foreign    \* history: pools that a pointer or a frame of another one reached

vars == <<ring, frames, drawing, renderer, conn, attached, received, iface, active,
          capture, foreign>>

Idle == [pc |-> "idle", pool |-> NoPool, index |-> 0, copied |-> NoBuffer,
         held |-> NoBuffer, from |-> NoPool]

NewRing == [write |-> 0, read |-> 0, slots |-> [i \in 0 .. RingSize - 1 |-> NoBuffer],
            relWrite |-> 0, relRead |-> 0, state |-> [b \in Buffers |-> 0]]

Init ==
    /\ ring = [p \in Pools |-> NewRing]
    /\ frames = 0
    /\ drawing = [p \in Pools |-> NoBuffer]
    /\ renderer = [p \in Pools |-> [pc |-> "new", next |-> 0]]
    /\ conn = [p \in Pools |-> [sent |-> "nothing", state |-> "none"]]
    /\ attached = NoPool /\ received = NoPool /\ iface = NoPool
    /\ active = FALSE
    /\ capture = Idle
    /\ foreign = {}

-----------------------------------------------------------------------------
\* ControlRing: uint32_t arithmetic.

Wrap(n)       == n % IndexSpan
\* Mutant of Full: one slot is kept empty.
FullEarly(w, r) == Wrap(w - r) >= RingSize - 1

Full(w, r)    == Wrap(w - r) >= RingSize
Empty(w, r)   == r >= w           \* the readers' test
Available(p)  == Wrap(ring[p].write - ring[p].read)

\* SharedBufferPool::releaseBuffer, and the store in tryWriteRelease.
Freed(p, b) == [ring EXCEPT ![p].state[b] = 0]

-----------------------------------------------------------------------------
\* The renderers: VirtualCameraWriterV2.  Several may be connected at a time; one
\* of them has had its pool attached last.

At(step) == capture.pc = step
Running == ~At("faulted")    \* the HAL's process lives
HalVars == <<attached, received, iface, active, capture, foreign>>

Renderer(p, pc) == renderer' = [renderer EXCEPT ![p] = [pc |-> pc, next |-> 0]]
Answer(p, state) == conn' = [conn EXCEPT ![p].state = state]

\* initialize() up to the connection: allocate() made a new ring.
Connect(p) ==
    /\ Running
    /\ renderer[p].pc = "new" /\ \A q \in Pools: q < p => renderer[q].pc # "new"
    /\ Renderer(p, "sending") /\ Answer(p, "backlog")
    /\ UNCHANGED <<ring, frames, drawing, HalVars>>

\* The header and the ring's descriptor.
SendRing(p) ==
    /\ renderer[p].pc = "sending" /\ conn[p] = [sent |-> "nothing", state |-> "backlog"]
    /\ conn' = [conn EXCEPT ![p].sent = "ring"]
    /\ UNCHANGED <<ring, frames, drawing, renderer, HalVars>>

\* The buffers.
SendBuffers(p) ==
    /\ renderer[p].pc = "sending" /\ conn[p].sent = "ring"
    /\ conn[p].state \in {"backlog", "setup"}
    /\ conn' = [conn EXCEPT ![p].sent = "all"]
    /\ Renderer(p, "waiting")
    /\ UNCHANGED <<ring, frames, drawing, HalVars>>

\* The acknowledgement, or the end of the connection.
ReceiveAck(p) ==
    /\ \/ renderer[p].pc = "waiting" /\ conn[p].state = "acked" /\ Renderer(p, "ready")
       \/ /\ renderer[p].pc \in {"sending", "waiting"}
          /\ conn[p].state \in {"refused", "dropped"}
          /\ Renderer(p, "off")
    /\ UNCHANGED <<ring, frames, drawing, conn, HalVars>>

\* tryReadRelease until the ring is empty.
ReleasesRead(p) == IF Empty(ring[p].relWrite, ring[p].relRead)
                   THEN ring[p].relRead ELSE ring[p].relWrite

\* beginFrame drains the release ring: the step is the last look at it.
DrainReleases(p) ==
    /\ renderer[p].pc = "ready" /\ drawing[p] = NoBuffer /\ frames < MaxFrames
    /\ ring' = [ring EXCEPT ![p].relRead = ReleasesRead(p)]
    /\ Renderer(p, "drained")
    /\ UNCHANGED <<frames, drawing, conn, HalVars>>

\* acquireFreeBuffer tries the buffers in turn; a buffer that cannot be locked is
\* freed again.
AcquireFreeBuffer(p) ==
    LET b == renderer[p].next IN
    /\ renderer[p].pc = "drained"
    /\ \/ /\ ring[p].state[b] = 0 /\ frames < MaxFrames
          /\ frames' = frames + 1
          /\ ring' = [ring EXCEPT ![p].state[b] = 1]
          /\ drawing' = [drawing EXCEPT ![p] = b]
          /\ Renderer(p, "ready")
       \/ /\ ring[p].state[b] = 0 \/ b = NumBuffers - 1
          /\ Renderer(p, "ready")
          /\ UNCHANGED <<ring, frames, drawing>>
       \/ /\ ring[p].state[b] = 1 /\ b < NumBuffers - 1
          /\ renderer' = [renderer EXCEPT ![p].next = b + 1]
          /\ UNCHANGED <<ring, frames, drawing>>
    /\ UNCHANGED <<conn, HalVars>>

\* endFrame, tryWrite up to the slot; a full ring drops the frame.
FillSlot(p) ==
    /\ renderer[p].pc = "ready" /\ drawing[p] # NoBuffer
    /\ LET r == ring[p] IN
       IF Full(r.write, r.read)
       THEN /\ ring' = Freed(p, drawing[p])
            /\ drawing' = [drawing EXCEPT ![p] = NoBuffer]
            /\ UNCHANGED renderer
       ELSE /\ ring' = [ring EXCEPT ![p].slots[r.write % RingSize] = drawing[p]]
            /\ Renderer(p, "filled")
            /\ UNCHANGED drawing
    /\ UNCHANGED <<frames, conn, HalVars>>

\* tryWrite's store of writeIndex.
PublishSlot(p) ==
    /\ renderer[p].pc = "filled"
    /\ ring' = [ring EXCEPT ![p].write = Wrap(@ + 1)]
    /\ drawing' = [drawing EXCEPT ![p] = NoBuffer]
    /\ Renderer(p, "ready")
    /\ UNCHANGED <<frames, conn, HalVars>>

\* shutdown(): a frame in progress is given up.  The HAL is not told.
Shutdown(p) ==
    /\ renderer[p].pc = "ready"
    /\ ring' = IF drawing[p] = NoBuffer THEN ring ELSE Freed(p, drawing[p])
    /\ drawing' = [drawing EXCEPT ![p] = NoBuffer]
    /\ Renderer(p, "off")
    /\ UNCHANGED <<frames, conn, HalVars>>

\* The renderer's process dies, wherever it is; its end of the socket is closed.
Killed(p) ==
    /\ renderer[p].pc \notin {"new", "off"}
    /\ Renderer(p, "off")
    /\ UNCHANGED <<ring, frames, drawing, conn, HalVars>>

-----------------------------------------------------------------------------
\* The accept thread: handleConnection, of one connection after the other.  What
\* was sent arrives, whether or not the sender still lives.

Server == <<ring, frames, drawing, renderer, capture, foreign>>

Left(p) == renderer[p].pc = "off"
SettingUp == \E p \in Pools: conn[p].state = "setup"    \* mLock is held
Turn(p) == /\ Running /\ ~SettingUp /\ conn[p].state = "backlog"
           /\ \A q \in Pools: q < p => conn[q].state # "backlog"

\* The header or the ring's descriptor does not arrive.
RefuseConnection(p) ==
    /\ Turn(p) /\ (Left(p) \/ conn[p].sent # "nothing")
    /\ Answer(p, "refused")
    /\ UNCHANGED <<Server, attached, received, iface, active>>

\* Under mLock: the old pool is unmapped and released, whoever uses it.
ReplacePool(p, attachFails) ==
    /\ Turn(p) /\ conn[p].sent # "nothing"
    /\ active' = FALSE
    /\ received' = NoPool
    /\ attached' = IF attachFails THEN NoPool ELSE p
    /\ Answer(p, IF attachFails THEN "dropped" ELSE "setup")
    /\ UNCHANGED <<Server, iface>>

\* Mutant of FinishSetup: a HalInterface that is set up is not set up again.
FinishSetupOnce(p) ==
    /\ Running /\ conn[p] = [sent |-> "all", state |-> "setup"]
    /\ received' = p /\ iface' = IF iface = NoPool THEN p ELSE iface
    /\ active' = TRUE
    /\ Answer(p, "acked")
    /\ UNCHANGED <<Server, attached>>

\* recvBuffersFrom, initialize() and the acknowledgement, mLock still held.
FinishSetup(p) ==
    /\ Running /\ conn[p] = [sent |-> "all", state |-> "setup"]
    /\ received' = p /\ iface' = p
    /\ active' = TRUE
    /\ Answer(p, "acked")
    /\ UNCHANGED <<Server, attached>>

\* A buffer does not arrive.
BuffersFail(p) ==
    /\ Running /\ conn[p].state = "setup" /\ (Left(p) \/ conn[p].sent = "all")
    /\ attached' = NoPool
    /\ Answer(p, "dropped")
    /\ UNCHANGED <<Server, received, iface, active>>

-----------------------------------------------------------------------------
\* The capture thread: fillBufferFromV2.

Others == <<frames, drawing, renderer, conn, attached, received, iface, active>>

\* The rings that an access through HalInterface::mRing can reach: the ring it
\* was set to, or once that is unmapped the ring mapped since, if the mapping
\* got the old one's address.  Otherwise the access faults.
Reached == IF iface = attached THEN {iface}
           ELSE IF attached = NoPool THEN {} ELSE {attached}

Reaches(p, own) == foreign' = IF p = own THEN foreign ELSE foreign \cup {p}

\* getHalInterface: mLock is free unless a pool is being set up.
GetHalInterface ==
    /\ At("idle") /\ ~SettingUp /\ active
    /\ capture' = [Idle EXCEPT !.pc = "drain"]
    /\ UNCHANGED <<Others, ring, foreign>>

\* Mutant of CopySlot: the newest slot is read in place of the oldest.
CopyNewest(p) ==
    /\ At("drain") \/ At("wait")
    /\ p \in Reached
    /\ ~Empty(ring[p].write, ring[p].read)
    /\ capture' = [capture EXCEPT !.pc = IF At("drain") THEN "copied" ELSE "copiedLast",
                                  !.pool = p, !.index = ring[p].read,
                                  !.copied = ring[p].slots[Wrap(ring[p].write - 1) % RingSize]]
    /\ UNCHANGED <<Others, ring, foreign>>

\* tryRead: the indices and the slot are read.
CopySlot(p) ==
    /\ At("drain") \/ At("wait")
    /\ p \in Reached
    /\ ~Empty(ring[p].write, ring[p].read)
    /\ capture' = [capture EXCEPT !.pc = IF At("drain") THEN "copied" ELSE "copiedLast",
                                  !.pool = p, !.index = ring[p].read,
                                  !.copied = ring[p].slots[ring[p].read % RingSize]]
    /\ UNCHANGED <<Others, ring, foreign>>

\* The copied slot is the newest frame now.
Keep(step) == [capture EXCEPT !.pc = step, !.held = capture.copied,
                              !.from = capture.pool, !.copied = NoBuffer]

\* Mutant of AdvanceRead: a skipped frame is forgotten.
AdvanceForgets(p) ==
    /\ At("copied") \/ At("copiedLast")
    /\ p \in Reached
    /\ ring' = [ring EXCEPT ![p].read = Wrap(capture.index + 1)]
    /\ capture' = Keep(IF At("copiedLast") THEN "taken" ELSE "drain")
    /\ Reaches(p, capture.pool)
    /\ UNCHANGED Others

\* tryRead's store of readIndex; a frame held already is to be skipped.
AdvanceRead(p) ==
    /\ At("copied") \/ At("copiedLast")
    /\ p \in Reached
    /\ ring' = [ring EXCEPT ![p].read = Wrap(capture.index + 1)]
    /\ capture' = IF At("copiedLast") THEN Keep("taken")
                  ELSE IF capture.held = NoBuffer THEN Keep("drain")
                  ELSE [capture EXCEPT !.pc = "skip"]
    /\ Reaches(p, capture.pool)
    /\ UNCHANGED Others

\* The ring is empty: the frame held is the newest, or one is waited for.
Drained(p) ==
    /\ At("drain") /\ p \in Reached
    /\ Empty(ring[p].write, ring[p].read)
    /\ capture' = [capture EXCEPT !.pc = IF capture.held = NoBuffer THEN "wait" ELSE "taken"]
    /\ UNCHANGED <<Others, ring, foreign>>

\* No frame within timeoutMs.
GiveUp ==
    /\ At("wait")
    /\ capture' = Idle
    /\ UNCHANGED <<Others, ring, foreign>>

\* mPool's buffer of that index.  While mPool has none the frame counts as valid
\* all the same: nothing is read from it, and it is released.
AcquireLatest ==
    /\ At("taken")
    /\ capture' = IF received = NoPool THEN [capture EXCEPT !.pc = "release"]
                  ELSE [capture EXCEPT !.pc = "reading", !.pool = received]
    /\ foreign' = IF received \in {NoPool, capture.from} THEN foreign
                  ELSE foreign \cup {received}
    /\ UNCHANGED <<Others, ring>>

\* The buffer has been copied, and releaseFrame is called.
FrameCopied ==
    /\ At("reading")
    /\ capture' = [capture EXCEPT !.pc = "release"]
    /\ UNCHANGED <<Others, ring, foreign>>

\* After tryWriteRelease, whatever it returned.
AfterRelease == IF capture.pc \in {"skip", "skipped"} THEN Keep("drain") ELSE Idle

\* Mutant of FreeBuffer: the frame just read is freed, not the one it supersedes.
FreeCopied(p) ==
    /\ At("skip") \/ At("release")
    /\ p \in Reached
    /\ IF Full(ring[p].relWrite, ring[p].relRead)
       THEN UNCHANGED ring /\ capture' = AfterRelease
       ELSE /\ ring' = Freed(p, IF At("skip") THEN capture.copied ELSE capture.held)
            /\ capture' = [capture EXCEPT !.pc = IF At("skip") THEN "skipped" ELSE "released"]
    /\ Reaches(p, capture.from)
    /\ UNCHANGED Others

\* tryWriteRelease up to the store of the buffer's state.
FreeBuffer(p) ==
    /\ At("skip") \/ At("release")
    /\ p \in Reached
    /\ IF Full(ring[p].relWrite, ring[p].relRead)
       THEN UNCHANGED ring /\ capture' = AfterRelease
       ELSE /\ ring' = Freed(p, capture.held)
            /\ capture' = [capture EXCEPT !.pc = IF At("skip") THEN "skipped" ELSE "released"]
    /\ Reaches(p, capture.from)
    /\ UNCHANGED Others

\* tryWriteRelease's store of releaseWriteIndex.
PublishRelease(p) ==
    /\ At("skipped") \/ At("released")
    /\ p \in Reached
    /\ ring' = [ring EXCEPT ![p].relWrite = Wrap(@ + 1)]
    /\ capture' = AfterRelease
    /\ Reaches(p, capture.from)
    /\ UNCHANGED Others

\* The mapping behind mRing, or the buffer being copied, is gone, or the
\* acknowledgement is for a renderer that has left (SIGPIPE): the HAL's process
\* may die of it, and its connections end.
Fault ==
    /\ \/ ~At("idle") /\ ~At("taken") /\ ~At("reading") /\ Running /\ iface # attached
       \/ At("reading") /\ capture.pool # received
       \/ \E p \in Pools: Left(p) /\ conn[p] = [sent |-> "all", state |-> "setup"]
    /\ capture' = [Idle EXCEPT !.pc = "faulted"]
    /\ conn' = [p \in Pools |-> CASE conn[p].state = "backlog" -> [conn[p] EXCEPT !.state = "refused"]
                                  [] conn[p].state = "setup" -> [conn[p] EXCEPT !.state = "dropped"]
                                  [] OTHER -> conn[p]]
    /\ UNCHANGED <<ring, frames, drawing, renderer, attached, received, iface, active, foreign>>

-----------------------------------------------------------------------------
RendererNext == \E p \in Pools:
    \/ Connect(p) \/ SendRing(p) \/ SendBuffers(p) \/ ReceiveAck(p) \/ DrainReleases(p)
    \/ AcquireFreeBuffer(p) \/ FillSlot(p) \/ PublishSlot(p) \/ Shutdown(p) \/ Killed(p)

ServerNext == \E p \in Pools:
    RefuseConnection(p) \/ FinishSetup(p) \/ BuffersFail(p) \/ \E f \in BOOLEAN: ReplacePool(p, f)

CaptureNext ==
    \/ GetHalInterface \/ GiveUp \/ AcquireLatest \/ FrameCopied
    \/ \E p \in Pools: CopySlot(p) \/ AdvanceRead(p) \/ Drained(p)
                       \/ FreeBuffer(p) \/ PublishRelease(p)

Next == RendererNext \/ ServerNext \/ CaptureNext \/ Fault

\* The capture thread is scheduled, and the framework keeps requesting frames.
\* Nothing is assumed of the renderers, nor of the accept thread.
Fairness == WF_vars(CaptureNext)

Spec == Init /\ [][Next]_vars /\ Fairness

-----------------------------------------------------------------------------
\* The submitted frames of pool p that the HAL has not taken.
Queue(p) == [i \in 1 .. Available(p) |-> ring[p].slots[(ring[p].read + i - 1) % RingSize]]
Queued(p, b) == \E i \in DOMAIN Queue(p): Queue(p)[i] = b

\* The buffers of pool p that the renderer draws in or has submitted, and the
\* one the HAL reads.
InUse(p, b) ==
    \/ drawing[p] = b
    \/ Queued(p, b)
    \/ At("reading") /\ capture.pool = p /\ capture.held = b

(***************************************************************************)
(* A buffer that is drawn, queued or read is marked in use in the ring, so *)
(* acquireFreeBuffer never hands it out: SharedBufferPool.h's "0 = free    *)
(* (renderer may use), 1 = in-flight or HAL-owned".  It holds of every     *)
(* pool the HAL reached only with its own pointers and frames.             *)
(***************************************************************************)
InUseIsMarked ==
    \A p \in Pools \ foreign, b \in Buffers: InUse(p, b) => ring[p].state[b] = 1

(***************************************************************************)
(* The ring refuses no frame and no release: endFrame and tryWriteRelease  *)
(* both ignore what a full ring would lose (the release its buffer, for    *)
(* good).  The renderer drains releases only when it begins a frame.       *)
(***************************************************************************)
RingsHaveRoom ==
    \A p \in Pools \ foreign:
        /\ drawing[p] # NoBuffer => ~Full(ring[p].write, ring[p].read)
        /\ capture.pc \in {"skip", "release"} /\ p \in Reached
              => ~Full(ring[p].relWrite, ring[p].relRead)

\* A later connection got as far as the attachment of its pool.
Displaced(p) == \E q \in Pools: q > p /\ conn[q].state \in {"setup", "acked", "dropped"}

(***************************************************************************)
(* A renderer whose initialize() returned true is connected: the pool, the *)
(* buffers and the HalInterface that captures use are its own, until a     *)
(* later connection takes their place.  (Nobody tells the renderer then.)  *)
(***************************************************************************)
AcknowledgedPoolIsUsed ==
    \A p \in Pools:
        renderer[p].pc \in {"ready", "drained", "filled"} /\ ~Displaced(p)
            => active /\ attached = p /\ received = p /\ iface = p

(***************************************************************************)
(* A submitted buffer comes back, unless the HAL's pool is replaced, a     *)
(* stale pointer reached it or the process died.  Frames are skipped,      *)
(* timeouts pass and releases are ignored on the way.                      *)
(***************************************************************************)
SubmittedComesBack ==
    \A p \in Pools, b \in Buffers:
        (Queued(p, b) /\ attached = p)
            ~> (ring[p].state[b] = 0 \/ attached # p \/ p \in foreign \/ ~Running)

(***************************************************************************)
(* The first pool, through connection, replacement and death, implements   *)
(* the exchange: one owner per buffer, frames in order of submission.  (A  *)
(* later pool does until a stale pointer reaches it.)                      *)
(***************************************************************************)
Owner(p, b) ==
    IF drawing[p] = b THEN "renderer"
    ELSE IF Queued(p, b) THEN "queued"
    ELSE IF ring[p].state[b] = 1 THEN "hal"
    ELSE "free"

Exchange == INSTANCE BufferExchange
    WITH owner <- [b \in Buffers |-> Owner(1, b)], queue <- Queue(1)

FirstPoolExchanges == Exchange!Spec
=============================================================================
