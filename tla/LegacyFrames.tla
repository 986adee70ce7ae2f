---------------------------- MODULE LegacyFrames ----------------------------
(***************************************************************************)
(* The shared-memory path of the legacy HAL: renderers that write frames   *)
(* into a region with a header (unified-test/.../virtual_camera_writer.cpp *)
(* and unified_renderer.cpp, in a file all of them share; renderer-lib/    *)
(* VirtualCameraClient.cpp, in a region of their own), the HAL's socket    *)
(* that receives a region's descriptor (hal/core/VirtualCameraSocket.cpp), *)
(* the frame source that maps it (VirtualCameraFrameSource.cpp) and the    *)
(* capture of API level 2 that copies from it (aidl-v2/                    *)
(* VirtualCameraSession.cpp, FrameFiller::fillYuvBufferFromRenderer).      *)
(*                                                                         *)
(* The header's fields are atomics without a lock: a change of format is   *)
(* two stores and a frame is written while it may be read.  In the HAL,    *)
(* mLock is taken anew for each of a capture's three questions.            *)
(***************************************************************************)
EXTENDS Integers, FiniteSets, Sequences

CONSTANTS
    Writers,       \* writer instances over the life of the HAL
    Clients,       \* renderer-lib clients
    Fds,           \* numbers of the HAL's descriptor table
    MaxRetries,    \* connectToHal's ten attempts
    MaxConfigures, \* bound on configureStreams
    MaxFailures,   \* bound on failing mmap calls
    None

ASSUME LegacyAssumption ==
    /\ None \notin Writers \cup Clients /\ Writers \cap Clients = {}
    /\ "file" \notin Clients
    /\ Fds \subseteq Nat /\ IsFiniteSet(Fds) /\ Cardinality(Fds) > 4
    /\ MaxRetries \in Nat /\ MaxConfigures \in Nat /\ MaxFailures \in Nat

File      == "file"        \* /data/local/tmp/virtual_camera_shm
Renderers == Writers \cup Clients
Regions   == Clients \cup {File}
Formats   == {"rgba", "yuv"}
Size(f)   == IF f = "yuv" THEN 3 ELSE 8   \* bytes per two pixels
NoFd      == -1

VARIABLES
    region,     \* FrameHeader of each region, and what its data are
    renderer,   \* pc, mFormat, attempts left and gpuRenderer of each renderer
    listening,  \* the HAL's socket server runs
    backlog,    \* regions sent to the socket and not yet received
    fds,        \* the HAL's descriptor table: None or the region it is open on
    accept,     \* the accept thread: pc and the descriptor received
    sharedFd,   \* VirtualCameraSocket::mSharedMemFd
    shmFd,      \* VirtualCameraFrameSource::mShmFd
    mapped,     \* mHeader, mFrameData: the region mapped
    session,    \* the legacy session: "none", "open", "configured"
    capture,    \* the capture: pc, srcFormat, the data copied
    steady,     \* history: no format or region changed since the capture began
    bounds      \* configurations and mmap failures so far

renderVars == <<region, renderer>>
halVars == <<listening, fds, accept, sharedFd, shmFd, mapped, session, bounds>>
vars == <<region, renderer, listening, backlog, fds, accept, sharedFd, shmFd,
          mapped, session, capture, steady, bounds>>

NoCapture == [pc |-> "idle", src |-> "rgba", got |-> "none"]

Init ==
    /\ region = [g \in Regions |-> [format |-> "none", size |-> 0, data |-> "none",
                                    active |-> FALSE, requested |-> "none"]]
    /\ renderer = [r \in Renderers |-> [pc |-> "off", format |-> "rgba",
                                        tries |-> MaxRetries, gpu |-> FALSE]]
    /\ listening = FALSE
    /\ backlog = <<>>
    /\ fds = [n \in Fds |-> None]
    /\ accept = [pc |-> "accept", fd |-> NoFd]
    /\ sharedFd = NoFd /\ shmFd = NoFd /\ mapped = None
    /\ session = "none" /\ capture = NoCapture /\ steady = FALSE
    /\ bounds = [configures |-> 0, failures |-> 0]

-----------------------------------------------------------------------------
Home(r) == IF r \in Writers THEN File ELSE r
At(r, step) == renderer[r].pc = step
Goto(r, step) == renderer' = [renderer EXCEPT ![r].pc = step]

\* A renderer's step leaves the HAL alone, but may unsettle the capture.
Disturbs(g) == steady' = (steady /\ mapped # g)
HalIdles == UNCHANGED <<halVars, capture>>

\* A writer opens the file, whatever an earlier one left in it, and stores the
\* header's format; a client makes a region.  One writer at a time.
WriterInitialize(w) ==
    /\ At(w, "off") /\ \A v \in Writers: renderer[v].pc \in {"off", "dead"}
    /\ region' = [region EXCEPT ![File].format = "rgba"]
    /\ Goto(w, "size")
    /\ Disturbs(File) /\ HalIdles /\ UNCHANGED backlog

\* The rest of initialize(): data size, the active flag, the data cleared.
WriterActivate(w) ==
    /\ At(w, "size")
    /\ region' = [region EXCEPT ![File].size = Size("rgba"), ![File].active = TRUE,
                                ![File].data = "rgba"]
    /\ Goto(w, "send")
    /\ Disturbs(File) /\ HalIdles /\ UNCHANGED backlog

\* sendFdToHal: not fatal when it fails, and not tried again.
WriterSend(w) ==
    /\ At(w, "send")
    /\ backlog' = IF listening THEN Append(backlog, File) ELSE backlog
    /\ Goto(w, "loop")
    /\ HalIdles /\ UNCHANGED <<region, steady>>

\* createSharedMemory of a client.
ClientCreate(c) ==
    /\ At(c, "off")
    /\ region' = [region EXCEPT ![c] = [@ EXCEPT !.format = "rgba", !.size = Size("rgba"),
                                                 !.active = TRUE, !.data = "rgba"]]
    /\ Goto(c, "send")
    /\ HalIdles /\ UNCHANGED <<backlog, steady>>

\* connectToHal: an attempt every 500 ms, then the region is given up.
ClientConnect(c) ==
    /\ At(c, "send")
    /\ IF listening
       THEN backlog' = Append(backlog, c) /\ Goto(c, "loop")
       ELSE /\ renderer' = [renderer EXCEPT ![c].tries = @ - 1,
                                            ![c].pc = IF renderer[c].tries = 1 THEN "dead" ELSE "send"]
            /\ UNCHANGED backlog
    /\ HalIdles /\ UNCHANGED <<region, steady>>

\* setOutputFormat, in nativeRenderFrame: the format is stored, then the size.
StoreFormat(w, f) ==
    /\ region' = [region EXCEPT ![File].format = f]
    /\ renderer' = [renderer EXCEPT ![w].format = f, ![w].pc = "resize"]
    /\ Disturbs(File) /\ HalIdles /\ UNCHANGED backlog

SwitchToYuv(w) ==
    /\ At(w, "loop")
    /\ region[File].requested = "yuv" /\ renderer[w].format = "rgba"
    /\ StoreFormat(w, "yuv")

\* Mutant of StoreSize: the size stays that of RGBA.
StoreNoSize(w) ==
    /\ At(w, "resize")
    /\ Goto(w, "frame")
    /\ HalIdles /\ UNCHANGED <<region, steady, backlog>>

StoreSize(w) ==
    /\ At(w, "resize")
    /\ region' = [region EXCEPT ![File].size = Size(renderer[w].format)]
    /\ Goto(w, "frame")
    /\ Disturbs(File) /\ HalIdles /\ UNCHANGED backlog

\* No switch is asked for: the frame comes next.
NoSwitch(w) ==
    /\ At(w, "loop")
    /\ region[File].requested # "yuv" \/ renderer[w].format = "yuv"
    /\ Goto(w, "frame")
    /\ HalIdles /\ UNCHANGED <<region, backlog, steady>>

\* YUV is drawn by the GPU, whose initialization is tried at each such frame and
\* may fail at each: this frame is RGBA then.
GpuReady(w) ==
    /\ At(w, "frame") /\ renderer[w].format = "yuv" /\ ~renderer[w].gpu
    /\ renderer' = [renderer EXCEPT ![w].gpu = TRUE]
    /\ HalIdles /\ UNCHANGED <<region, backlog, steady>>

GpuFails(w) ==
    /\ At(w, "frame") /\ renderer[w].format = "yuv" /\ ~renderer[w].gpu
    /\ StoreFormat(w, "rgba")

\* writeFrame: the data are copied, then numbered and stamped.
Drawable(r) == r \in Clients \/ renderer[r].format = "rgba" \/ renderer[r].gpu

WriteFrame(r) ==
    /\ At(r, IF r \in Writers THEN "frame" ELSE "loop") /\ Drawable(r)
    /\ region' = [region EXCEPT ![Home(r)].data = "partial"]
    /\ Goto(r, "copy")
    /\ HalIdles /\ UNCHANGED <<backlog, steady>>

FrameWritten(r) ==
    /\ At(r, "copy")
    /\ region' = [region EXCEPT ![Home(r)].data = renderer[r].format]
    /\ Goto(r, "loop")
    /\ HalIdles /\ UNCHANGED <<backlog, steady>>

\* shutdown() clears the active flag.
Shutdown(r) ==
    /\ At(r, "loop")
    /\ region' = [region EXCEPT ![Home(r)].active = FALSE]
    /\ Goto(r, "dead")
    /\ Disturbs(Home(r)) /\ HalIdles /\ UNCHANGED backlog

\* A renderer's process dies where it is: its region stays as it was.
Killed(r) ==
    /\ renderer[r].pc \notin {"off", "dead"}
    /\ Goto(r, "dead")
    /\ HalIdles /\ UNCHANGED <<region, backlog, steady>>

-----------------------------------------------------------------------------
\* The HAL's socket.

Unmoved == UNCHANGED <<region, renderer, session, capture>>

\* start() of the frame source and of its socket.
Start ==
    /\ ~listening
    /\ listening' = TRUE
    /\ Unmoved
    /\ UNCHANGED <<backlog, fds, accept, sharedFd, shmFd, mapped, steady, bounds>>

\* close(fd), of whatever the number stands for now.
Closed(table, n) == IF n = NoFd THEN table ELSE [table EXCEPT ![n] = None]

Free      == {n \in Fds: fds[n] = None}
Lowest(S) == {n \in S: \A m \in S: n <= m}

\* Mutant of Receive: the connection is not closed.
ReceiveOpen ==
    /\ accept.pc = "accept" /\ backlog # <<>>
    /\ \E conn \in Lowest(Free): \E fd \in Lowest(Free \ {conn}):
          /\ fds' = [fds EXCEPT ![conn] = Head(backlog), ![fd] = Head(backlog)]
          /\ accept' = [pc |-> "exchange", fd |-> fd]
    /\ backlog' = Tail(backlog)
    /\ Unmoved
    /\ UNCHANGED <<listening, sharedFd, shmFd, mapped, steady, bounds>>

\* accept() and recvmsg() each take the lowest free number; the connection's is
\* given back.
Receive ==
    /\ accept.pc = "accept" /\ backlog # <<>>
    /\ \E conn \in Lowest(Free): \E fd \in Lowest(Free \ {conn}):
          /\ fds' = [fds EXCEPT ![fd] = Head(backlog)]
          /\ accept' = [pc |-> "exchange", fd |-> fd]
    /\ backlog' = Tail(backlog)
    /\ Unmoved
    /\ UNCHANGED <<listening, sharedFd, shmFd, mapped, steady, bounds>>

\* mSharedMemFd.exchange, and the old descriptor is closed.
Exchange ==
    /\ accept.pc = "exchange"
    /\ fds' = Closed(fds, sharedFd)
    /\ sharedFd' = accept.fd
    /\ accept' = [pc |-> "map", fd |-> accept.fd]
    /\ Unmoved
    /\ UNCHANGED <<listening, backlog, shmFd, mapped, steady, bounds>>

\* unmapSharedMemory: the frame source closes the descriptor it mapped.
Unmapped == Closed(fds, shmFd)

\* onFdReceived, under mLock.  The mapping fails for want of memory, or because
\* the descriptor is not open.
OnFdReceived(noMemory) ==
    /\ accept.pc = "map"
    /\ noMemory => bounds.failures < MaxFailures
    /\ LET ok == ~noMemory /\ Unmapped[accept.fd] # None IN
       /\ mapped' = IF ok THEN Unmapped[accept.fd] ELSE None
       /\ shmFd' = IF ok THEN accept.fd ELSE NoFd
       /\ fds' = IF ok THEN Unmapped ELSE Closed(Unmapped, accept.fd)
    /\ bounds' = IF noMemory THEN [bounds EXCEPT !.failures = @ + 1] ELSE bounds
    /\ accept' = [pc |-> "accept", fd |-> NoFd]
    /\ steady' = FALSE
    /\ Unmoved
    /\ UNCHANGED <<listening, backlog, sharedFd>>

-----------------------------------------------------------------------------
\* The session of API level 2.  The framework configures and closes between
\* captures; flush() does nothing.

Idle == capture.pc = "idle"
HalWaits == UNCHANGED <<renderer, listening, backlog, fds, accept, sharedFd, shmFd, mapped,
                        capture, steady>>

\* The provider's constructor has started the sources before a device is opened.
Open ==
    /\ session = "none" /\ listening
    /\ session' = "open"
    /\ HalWaits /\ UNCHANGED <<region, bounds>>

\* requestFormat is lost unless a region is mapped.
RequestFormat(f) ==
    IF mapped = None THEN region ELSE [region EXCEPT ![mapped].requested = f]

\* configureStreams asks this source for YUV, whatever the streams are.
ConfigureStreams ==
    /\ session # "none" /\ Idle /\ bounds.configures < MaxConfigures
    /\ bounds' = [bounds EXCEPT !.configures = @ + 1]
    /\ session' = "configured"
    /\ region' = RequestFormat("yuv")
    /\ HalWaits

Close ==
    /\ session # "none" /\ Idle
    /\ session' = "none"
    /\ HalWaits /\ UNCHANGED <<region, bounds>>

Renders == UNCHANGED <<renderVars, backlog, halVars>>
Pattern == capture' = [NoCapture EXCEPT !.pc = "pattern"]
Filled == capture' = [NoCapture EXCEPT !.pc = "result"]

\* The shutter is notified before anything is known of the frame.
ProcessSingleRequest ==
    /\ session = "configured" /\ Idle
    /\ capture' = [NoCapture EXCEPT !.pc = "buffer"]
    /\ Renders /\ UNCHANGED steady

\* An output that cannot be imported is left as it is.
ImportFails ==
    /\ capture.pc = "buffer"
    /\ Filled
    /\ Renders /\ UNCHANGED steady

\* The shared-buffer source comes first, when a renderer uses it.
FillFromV2 ==
    /\ capture.pc = "buffer"
    /\ Filled
    /\ Renders /\ UNCHANGED steady

\* The result says OK for every buffer.
SendResult ==
    /\ capture.pc = "result"
    /\ capture' = NoCapture
    /\ Renders /\ UNCHANGED steady

-----------------------------------------------------------------------------
\* The fill from this source: fillYuvBufferFromRenderer.

\* isRendererActive.
IsRendererActive ==
    /\ capture.pc = "buffer"
    /\ IF mapped # None /\ region[mapped].active
       THEN /\ capture' = [NoCapture EXCEPT !.pc = "info"]
            /\ steady' = (region[mapped].format = region[mapped].data)
       ELSE Pattern /\ UNCHANGED steady
    /\ Renders

\* Mutant of GetFrameInfo: the format is asked for while no region is mapped.
GetDefaultInfo ==
    /\ capture.pc = "info"
    /\ capture' = [capture EXCEPT !.pc = "acquire"]
    /\ Renders /\ UNCHANGED steady

\* getFrameInfo: without a region the format stays 0, which is taken for RGBA.
GetFrameInfo ==
    /\ capture.pc = "info"
    /\ capture' = [capture EXCEPT !.pc = "acquire",
                                  !.src = IF mapped = None THEN "rgba" ELSE region[mapped].format]
    /\ Renders /\ UNCHANGED steady

\* acquireFrame copies dataSize bytes, if the buffer for srcFormat holds them.
AcquireFrame ==
    /\ capture.pc = "acquire"
    /\ IF /\ mapped # None /\ region[mapped].active
          /\ region[mapped].size <= Size(capture.src)
       THEN capture' = [capture EXCEPT !.pc = "convert", !.got = region[mapped].data]
       ELSE Pattern
    /\ Renders /\ UNCHANGED steady

\* The copy goes out as srcFormat says: YUV as it is, RGBA converted.
ConvertFrame ==
    /\ capture.pc = "convert"
    /\ Filled
    /\ Renders /\ UNCHANGED steady

\* Colour bars instead of a frame.
TestPattern ==
    /\ capture.pc = "pattern"
    /\ Filled
    /\ Renders /\ UNCHANGED steady

-----------------------------------------------------------------------------
WriterRun(w) == WriterActivate(w) \/ WriterSend(w) \/ SwitchToYuv(w) \/ StoreSize(w) \/ NoSwitch(w)
                \/ GpuReady(w) \/ GpuFails(w) \/ WriteFrame(w) \/ FrameWritten(w)

HalRun == Start \/ Receive \/ Exchange \/ OnFdReceived(FALSE)

CaptureRun == IsRendererActive \/ SendResult \/ GetFrameInfo \/ AcquireFrame \/ ConvertFrame \/ TestPattern

Next ==
    \/ \E w \in Writers: WriterInitialize(w) \/ WriterRun(w)
    \/ \E c \in Clients: ClientCreate(c) \/ ClientConnect(c) \/ WriteFrame(c) \/ FrameWritten(c)
    \/ \E r \in Renderers: Shutdown(r) \/ Killed(r)
    \/ HalRun \/ OnFdReceived(TRUE)
    \/ Open \/ ConfigureStreams \/ Close \/ ProcessSingleRequest \/ ImportFails \/ FillFromV2
    \/ CaptureRun

\* Threads are scheduled.  Nothing is assumed of the GPU.
Fairness ==
    /\ WF_vars(HalRun) /\ WF_vars(CaptureRun)
    /\ \A w \in Writers: WF_vars(WriterRun(w))

Spec == Init /\ [][Next]_vars /\ Fairness

-----------------------------------------------------------------------------
(***************************************************************************)
(* Renderers that come and go leave no descriptors behind: the one mapped  *)
(* and the one being received are all the HAL holds.  Two objects close    *)
(* them, mSharedMemFd's owner and mShmFd's.                                *)
(***************************************************************************)
DescriptorsBounded == Cardinality({n \in Fds: fds[n] # None}) <= 2

(***************************************************************************)
(* A frame copied from a region whose format and mapping did not change    *)
(* since the capture began, and whose data were in that format, is         *)
(* converted as what it is: three critical sections amount to one.  (A     *)
(* frame may still be read while the next one overwrites it.)              *)
(***************************************************************************)
SteadyFrameConverted ==
    capture.pc = "convert" /\ steady => capture.got \in {capture.src, "partial"}

(***************************************************************************)
(* The negotiation settles.  While a writer lives, its header, the data    *)
(* size and the data come to agree again whenever they do not (the format  *)
(* flips, and flips back, at every frame if the GPU never comes up), and a *)
(* request for YUV is honoured once it has.                                *)
(***************************************************************************)
Alive(w) == renderer[w].pc \notin {"off", "dead"}

Whole(f) == region[File].format = f /\ region[File].size = Size(f) /\ region[File].data = f

FormatSettles ==
    \A w \in Writers:
        /\ (Alive(w) /\ region[File].format # region[File].data)
              ~> (~Alive(w) \/ \E f \in Formats: Whole(f))
        /\ (Alive(w) /\ region[File].requested = "yuv" /\ renderer[w].gpu)
              ~> (~Alive(w) \/ Whole("yuv"))
=============================================================================
