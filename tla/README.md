# A TLA+ model of the Android virtual camera

The repository lets an application act as a camera of an Android device. This
directory models the protocols by which a producer application, the platform
service in `system_server` and the camera HAL agree on who provides a camera, on
which configuration is in force and on which buffer may be used by whom, and the older
paths (socket and shared memory, zero-copy pool) on which the same HAL takes frames
from a renderer directly. TLC checks the models on small instances; TLAPS proves their
safety properties and both refinements for instances of any size.

## 1. Inventory

```
 producer app          system_server                               HAL process
 ------------   --------------------------------   -----------------------------------------
                 VirtualCameraService  (Java)       VirtualCameraStableHal      camera
  registerCamera  mCameras, mSlots, executors        slots, tokens, newest  <-- sessions
  ------------->        |          ^                 frame per slot             (one per open
  <-------------        v          |                      ^      |              camera device)
  onStreamsConfigured  VirtualCameraNative                |      |
  onCameraClosed        |          ^                      |      |
                        v          |     registerProducer,|      |
                 VirtualCameraRelayJni   removeProducer,  |      |
  frames in a    gHal, gRegistrations,   queueFrame...    |      |
  Surface  --->  gConfigurations, one  -------------------+      |
                 buffer queue per slot <-------------------------+
                        onStreamsConfiguredForProducer, onCameraClosedForProducer

 renderer app    socket, header in shared memory      VirtualCameraSocket, FrameSource
  ------------------------------------------------->  legacy session (API level 2)
 renderer app    socket, ring and hardware buffers    FrameSourceV2, HalInterface
  <------------------------------------------------>  FrameFiller
 manager service     IVirtualCameraHalListener        AvailabilityBridge
  <------------------------------------------------>  provider's presence flag
```

| Component | State | Operations | Hard behaviour |
|---|---|---|---|
| **Stable HAL endpoint** `hal/aidl-v1/VirtualCameraStableHal.cpp` | per slot: the published descriptor, the session that owns the slot, the configuration token in force, readiness, the newest frame with its readers and read fences; one counter for identities and tokens | `setCallback`, `registerProducer`, `removeProducer`, `setConfigurationReady`, `queueFrameForConfiguration`; for sessions `nextSessionOwner`, `registrationCurrent`, `notifyStreamsConfigured`, `notifyCameraClosed`, `acquireLatest`, `releaseFrame` | gaps between critical sections; waiting for readers without the lock; GPU reads that outlive everything; presence published outside the lock |
| **Camera session** `hal/aidl-v1/VirtualCameraSession.cpp` | buffer cache, requests in progress, the owner identity and token it was given, `mClosed`, `mFlushing`, `mCancelEpoch` | `configureStreams`, `processCaptureRequest`, `flush`, `close` | late close and configure, cancelled waits, fences of outputs on every error path |
| **GPU compositor** `hal/core/GpuCompositor.cpp`, `FrameFiller.cpp` | one context, its error flag, cached packed planes, the GPU's command stream | `composite`, `compositeToYcbcr`, `encodeToBlob`, the CPU fallback | one object for all cameras, work that outlives the call, early returns |
| **Provider and device** `VirtualCameraProvider.cpp`, `VirtualCameraDevice.cpp` | presence per slot, framework callback | `setCallback`, `setSlotPresent`, `getCameraDeviceInterface`, `open` | presence against registration |
| **Relay** `platform-jni/VirtualCameraRelayJni.cpp` | the connection (`gHal`, its epoch, whether it is ready), the registration and configuration admitted per slot, one buffer queue per slot behind a gate | the native methods; the HAL's callbacks; the HAL's death; `onFrameAvailable` | death at any step and reported late, half-open connections, callbacks of a dead connection, queues installed against cleanup |
| **Platform service** `VirtualCameraService.java`, `LifecycleSlot.java` | cameras, slots with owner and last event, one executor per slot, recovery rounds | `registerCamera`, `unregisterCamera`, `setProducerReady`, `onHalStreamsConfigured`, `onHalCameraClosed`, `onHalDied`, `recoverHal` | decisions under `mLock` and tasks queued after it, tasks that are stale when they run, teardown that takes several calls |
| **Availability** `AvailabilityBridge.cpp`, manager interface of the service | last availability, connection to the manager | `setHalListener`, `onProducerAvailabilityChanged`, manager death | notifications that overtake each other |
| **Legacy frame source** `VirtualCameraSocket.cpp`, `VirtualCameraFrameSource.cpp`, `hal/aidl-v2/VirtualCameraSession.cpp`, renderers in `unified-test/` and `renderer-lib/` | received descriptors, the region mapped, the header's atomics, a session of API level 2 | accept and receive, map, the three questions of a capture; initialise, write, change format | descriptors closed by two objects, separate stores read by separate critical sections |
| **Shared-memory pool** `v2-shared-memory/`, `VirtualCameraFrameSourceV2.cpp` | two rings with wrapping indices, buffer states, the pool attached and the pointers to it | `beginFrame`, `endFrame`, `acquireLatestFrame`, `releaseFrame`; set-up and replacement | two processes without a lock, a pool replaced while its frames are used |
| **Producer capabilities** `ProducerCapabilities.{h,java}` | none | normalise, select a mode and a rate | two implementations of one rule |
| **Producer app** `RenderRequestQueue.java` | newest request, generation | `submit`, `take`, `cancel`, `shutdown` | a request cancelled while it is drawn |

Pixel work (compositor, format conversion, JPEG), static metadata, the virtual
microphone, the sample applications and the build files carry no protocol and are
left out; `PROJECT.json` lists them.

What makes each component correct:

- *Endpoint*: a configuration in force belongs to an open session of the published
  registration; late calls of old sessions do nothing; what the framework sees
  agrees with what is registered; a frame is not replaced under its readers; no
  pending GPU read is ever lost sight of; no frame of an old configuration is shown.
- *Relay*: a queue does not outlive its connection; callbacks of the producer that
  the HAL has are admitted; a half-open connection is completed or undone; no thread
  waits for ever.
- *Service*: a slot is not given away before the HAL has let go of its producer; the
  producer hears of configurations in order and ends up with the one in force; a
  valid registration is not lost.
- *Session*: every output of a request is answered or given back once, with a fence for
  the work a consumer has left on it; nothing is written before that work is done;
  `flush` and `close` return, and nothing is processed after `close`.
- *Compositor*: its context stays with its mutex; the GPU neither reads too early nor
  works on unannounced; the CPU fallback writes alone; cameras that share it do not
  draw into each other's planes.
- *Availability*: the bridge and the service agree on who listens; the framework ends up
  seeing what is registered; after a restart of either side they find each other.
- *Legacy frames*: renderers that come and go leave no descriptors; a frame is
  converted as what it is; a renderer that is asked for YUV comes to write it.
- *Pool*: a buffer has one owner; nothing submitted is lost; a renderer that was
  acknowledged is the one whose frames are shown.

## 2. Modules

| Module | Models | Rests on |
|---|---|---|
| `StableHal` | the endpoint, with those parts of session, device and provider that decide in which order it is called | - |
| `StableHal_proofs` | the theorems about it | `StableHal` |
| `MCStableHal` | its instances for TLC | `StableHal` |
| `RelayJni` | the relay, under the most general caller that keeps to one thread per slot; the HAL process reduced to what the relay sees | - |
| `RelayJni_proofs` | the theorems about it | `RelayJni` |
| `MCRelayJni` | its instances | `RelayJni` |
| `CameraService` | the service on top of the relay: it EXTENDS `RelayJni`, shares its variables and puts the service in the caller's place | `RelayJni` |
| `CameraService_proofs` | the theorems about it, which build on those about the relay | `CameraService`, `RelayJni_proofs` |
| `MCCameraService` | its instances | `CameraService` |
| `CaptureSession` | a session between framework and frame source: requests, outputs and their fences against `flush`, `close` and `configureStreams` | - |
| `CaptureSession_proofs` | the theorems about it | `CaptureSession` |
| `MCCaptureSession` | its instance: the calls the framework makes | `CaptureSession` |
| `OutputFill` | how one output is filled: JPEG, compositor, CPU, and the GPU's stream behind them | - |
| `OutputFill_proofs` | the theorems about it | `OutputFill` |
| `AvailabilityRelay` | from "a producer is registered" to "a camera is present", with restarts of both processes | - |
| `AvailabilityRelay_proofs` | the theorems about it | `AvailabilityRelay` |
| `LegacyFrames` | the socket, the mapped region, its writers and the capture of API level 2 | - |
| `LegacyFrames_proofs` | the theorems about it | `LegacyFrames` |
| `SharedPool` | the zero-copy pool, its two rings, its set-up and replacement | `BufferExchange` |
| `SharedPool_proofs` | the theorems about it | `SharedPool` |
| `BufferExchange` | the abstract specification of the pool: buffers with one owner each, in order. It stands for no code of its own | - |

The modules without an MC module are instantiated by their `.cfg` alone: their constants
are numbers and sets of model values.

A definition marked "Mutant of" is a wrong version of the one that follows it, as a
slip in the code would have it. No behaviour uses it. Substituted for the
right one it makes a property fail, which shows that the property says something about
the code.

### StableHal

An action is one critical section of `mLock`, or one step of a session between
two of them. A session's `phase` tells where it is in `configureStreams`,
`processCaptureRequest` or `close`. What lies between critical sections is kept in
variables: `caller` is a binder thread that waits in `enqueue` for a frame's readers,
`session[n].phase = "configuring"` is a session that has passed
`registrationCurrent` and not yet called `notifyStreamsConfigured`, `publishing` is
the set of slots that the holder of `mPresenceLock` has yet to publish. Fences are
sets of GPU jobs: merging is union, and `Consolidations` are the outcomes of a merge
that may fail at any element. A buffer is an address; addresses are reused when nobody
refers to the object (`LiveAhbs`), because the code recognises frames by address.

Abstractions: the legacy `queueFrame*` and `setCameraPresent` calls are refused when a
provider is attached and change nothing; `setCallback(nullptr)` is never sent;
calls that return an error without a change of state are stuttering steps; whether a
frame fits the session's mode is a boolean input; two equal fences held twice are one,
as sets have it; a registration id may be registered again after its removal, which
allows more than the service does; in a batch of requests only the closed flag is
looked at once; a session whose fence cannot be duplicated when it closes behaves
like one that has no source. `flush` only cancels waits, which is the `cancelled`
input of `AcquireLatest`. The HAL process does not crash here: `RelayJni` has that.

### RelayJni

Each native method is a sequence of steps of the thread `t` that is in it:
`native[t].at` is the step it takes next, and the record holds its arguments and what
it has remembered. A step is one critical section of `gLock`, one call of the HAL
(which fails if the process it was made for is gone), or one step under a slot's
gate. `life` numbers HAL processes; `gHal` keeps the number of the process it was
made for after that is dead, until `HalDied`. There is one connection per HAL
process, because an attempt fails only if the process is dead. `calls` are the
HAL's callbacks, each with the connection, registration and token it was
sent for; they may wait at any point, be filtered (`Admit`) or be overtaken by later
ones, except that a session's close is announced after its configuration
was (the callbacks are synchronous and made by one session). `deaths` are
executions of `onHalDiedCb` that still have queues to release.

The re-check at the installation of a queue (line 372) and the slot's gate are
redundant with respect to `QueueOfConnection`: without the re-check the cleanup of
the death still waits at the gate and releases the queue.

Abstractions: a queue is the connection and token it was made for; frames occur only
where a transport failure makes the relay abandon a queue; the readiness of a
configuration is left to `StableHal`; descriptors are valid or not; `system_server`
itself does not restart.

### CameraService

`app[c]` and `removing[c]` are the positions of the app's thread in `registerCamera`
and of whoever removes the camera; `mLifecycle[s]` is the executor's queue and
`job[s]` its running task, which calls native methods as thread `s`. A decision under
`mLock` and the task queued afterwards are separate actions, so that tasks may be queued in
another order than the decisions were made. `isCurrentConnection` and the block under
`mLock` that follows it are one action (`Accept`): what the former reads can only
become false in between, and then the relay refuses the task. The recovery
thread's delay is left out: an attempt may start at any time.

A camera that finds no free slot is in the registry for a while: `Reserve` enters it
without a slot (`app[c] = "noSlot"`), and a later critical section takes it out again,
`RefuseRegistration`'s or, if its app dies first, `OwnerRemoves`'s (`RemoveUnslotted`).
`ServiceTypeOK` therefore says of registry and slots that the owner of a slot that is not
closing is registered, and that a registered camera owns its slot unless it found none
free and is about to be refused.

Not modelled here: the availability listener (`AvailabilityRelay`).

### CaptureSession

`req` is the thread in `processCaptureRequest`: the step it takes next (`pc`), the batch,
how many requests of it are `done` and `answers`ed, the output at hand, the acquire fences
duplicated (`held`) and what became of each output (`results`). Every early return of
`processSingleRequest` is a disjunct. The outputs in the session's hands are `ours`,
`busy` is the work outstanding on each buffer, and `guarded` are the buffers whose holder
has a fence for that work: the properties relate the three. `Batches` are the calls the
framework may make, sequences of requests in which no output occurs twice. `flush` and
`close` first cancel, without `mRequestLock`, and then drain, with it; `mFlushing`,
`mClosed` and `mCancelEpoch` are read where the code reads them. The frame source is
reduced to whether it answers; `StableHal` has the rest of it. A release fence that cannot
be duplicated sends the output back `unfenced`, as the code does (see the hazard at line
828).

### OutputFill

`fill[t].pc` is where capture thread `t` is: in the encoder, in one of the compositor's two
paths, in the CPU converter. `stream` is the GPU's command queue, of which
`Gpu` executes the head whenever it is ready; a draw is a command, as are the wait for
the producer's fence and the fence that completes a call. `egl` and `current` are the
context, with `ensureInit` in all its outcomes (including a shader that fails to compile
after the context was made current), `targets` the cached packed planes. Sizes are
model values; `Unpackable` are those `compositeToYcbcr` refuses. The session of today waits
for the producer's fence on the CPU and passes none; the compositor's interface takes
one, and the model passes both.

### AvailabilityRelay

A notification is a record `call[x]` that goes through steps: its value read under one
lock, the transaction, the exchange of the provider's flag, the report to the framework.
`Threads` are the service's binder threads, `push` is `setHalListener`'s own push and
`obituary` the death recipient's. The service has its registry and its slots, because who
notifies depends on both: `registerCamera` notifies if the camera got a slot and the
registry was empty, `removeCamera` if the camera had a slot or was the last.
`service.unplaced` is the camera a thread has entered without a slot and is about to take
out again, and a slot stays reserved after its camera's removal until `FinishClose`. A new
registration gets the lowest number nothing refers to: the code's identifiers are never
used twice, and nothing compares them. `bridge.pc` is where the bridge's thread is, and
whether it has `mLock` follows from it (`LockFree`). Listeners and managers carry the
incarnation they belong to.

`SettledViewAgrees` has two exceptions, and shows that the code needs no third. `raced`
remembers that a value was read while another was on its way: those two can arrive in
either order, and the code does nothing about it. `missed` remembers that a camera got a
slot while the registry held only cameras without one, and that no value has been read
since. It takes one camera more than there are slots, and no overlapping notifications:

1. A is removed; absence is sent, and A's slot stays reserved for its teardown.
2. B registers, finds no slot and is entered without one. Nothing is sent.
3. The teardown ends, C registers and gets the slot. Nothing is sent, because the registry
   was not empty (`VirtualCameraService.java:223`).
4. B is taken out. Nothing is sent, because it had no slot and C remains (`:342`).

C is then registered and hidden until the next notification. The comment at
`VirtualCameraService.java:59-60` says "Pushed on every 0<->N producer transition"; by the
slots step 3 is one, by the registry step 2 is, and neither is pushed. The property keeps
what is left in this case: the framework is never shown a camera that nobody provides.

### LegacyFrames

Writers share one file (`unified-test`), clients bring a region of their own
(`renderer-lib`). The header's atomics are fields of a region that are stored and loaded
in separate steps. In the HAL, `fds` is the descriptor table, so that closing a descriptor
twice, or closing one that was reused, would be seen. `capture` asks for format, data and
conversion in three critical sections of `mLock`; `steady` remembers whether a format or a
mapping changed in between. Pixel data are reduced to the format they were written in. The
first frame in YUV initialises the GPU, and each of the following ones tries again while
that fails: `GpuFails` stores the old format back, the frame is RGBA, and the request,
which stands, switches to YUV for the next frame. Nothing says that an attempt ever
succeeds. The early returns of `receiveFd` are left out: the renderers here send
size and descriptor in one message. (One of a wrong size would leave its descriptor open.)
The table has this path's descriptors only, so that a number closed twice is seen, but
not whose it has become.

### SharedPool and BufferExchange

The loads and stores of both rings are steps of their own wherever their order matters:
`FillSlot` and `PublishSlot` of the renderer, `CopySlot` and `AdvanceRead`, `FreeBuffer`
and `PublishRelease` of the capture thread. `beginFrame` drains the release ring
(`DrainReleases`) and then tries the buffers one after the other (`AcquireFreeBuffer`); a
release may come at any point in between. Indices are taken modulo `IndexSpan` (2^32 in
the code) and compared as the code compares them. The server's set-up and the replacement
of a pool happen under a lock that the capture thread does not take: it goes on with the
pointers it has. What a stale pointer reaches is followed: `Reached` is the ring it works
on, `Fault` the end of the process when that is unmapped, and `foreign` collects the pools
that were touched with another pool's pointer or frame. A frame whose pool is gone when
its buffer is looked up has an index and no buffer: it counts as valid
(`HalInterface.h:37`), nothing is read, and it is released all the same, into whichever
ring `mRing` reaches by then. The properties except the pools of `foreign`, since a
release can free a buffer there that its new renderer is drawing in.

Renderers are independent of each other. `Connect` puts a renderer into the backlog,
whoever else is connected; the accept thread takes them in turn, and attaches the pool of
the next one while the last one lives. The displaced renderer is not told and goes on
drawing into a ring nobody reads: that is why `AcknowledgedPoolIsUsed` holds until a later
connection has got as far as the attachment (`Displaced`). What a renderer has sent
arrives although it has died since (`conn[p].sent`), so a set-up may also end with the
acknowledgement of a dead one. That write may cost the HAL its life (nothing in the
sources ignores `SIGPIPE`), which `Fault` allows. A renderer waits for as long as it likes
in the backlog, whose length of one (`listen(fd, 1)`) is not modelled.

`FirstPoolExchanges` shows that the first pool implements `BufferExchange`: each buffer is
free, drawn, queued or the HAL's, and the HAL takes them in order of submission,
the frames it skips included. The mapping computes the owner and the queue from the ring's
memory, so every step that stores in another order than the exchange allows fails it.

## 3. Runs

Run by hand with `tlc -workers 2 -config X.cfg M`.

| Run | Module | Instance | Shows |
|---|---|---|---|
| `stable_hal` | `MCStableHal` | 1 slot, 2 relays, 2 sessions, 2 enqueuing threads, 2 buffers, 1 GPU job, identities up to 3 | `TypeOK`, `ConfiguredByCurrentRegistration`, `ConfigurationHasOwner`, `PresenceAgrees`, `FrameReadIsKept`, `EveryReadTracked`, `FrameOfConfiguration`, `OwnersOnlyAdvance` |
| `relay_jni` | `MCRelayJni` | 1 slot, 1 registration, 1 client thread, 2 HAL processes, 1 token, 1 callback at a time | `QueueOfConnection`, `RegistrationAgrees`, `ConnectionOwned`, `NativeReturns` (liveness) |
| `camera_service_slot` | `MCCameraService` | 1 slot, 2 cameras, 2 HAL processes, no sessions | `ServiceTypeOK`, `HalProducerIsOwner`, `CallsRelayInTurn` (refinement) |
| `camera_service_events` | `MCCameraService` | 1 camera, 1 HAL process, 2 tokens, 2 callbacks at a time | `ProducerFollowsConfiguration`, `DeliveriesAdvance` |
| `camera_service_restart` | `MCCameraService` | 1 camera, 2 HAL processes, 1 token each, 2 callbacks at a time | `ProducerFollowsConfiguration` |
| `camera_service_rejected` | `MCCameraService` | 1 valid camera, 2 HAL processes | a counterexample to `ValidRegistrationStays` |
| `capture_session` | `MCCaptureSession` | 2 buffers, 2 calls of up to 2 requests, 2 configurations, a flush, a close | `NoEarlyWrite`, `ConsumersGuarded`, `KnownIsCached`, `NothingKept`, `CloseDrains`, `CallsReturn` (liveness) |
| `output_fill` | `OutputFill` | 2 capture threads, 2 sizes and one that is refused | `ContextWithLock`, `SamplesAfterFence`, `CompleteOrFenced`, `FallbackIsAlone`, `TargetsFit` |
| `availability` | `AvailabilityRelay` | 2 cameras, 1 slot, 2 service threads, 2 lives of either process | `ConnectedIsListened`, `SettledViewAgrees`, `Reconnects` (liveness) |
| `availability_obituary` | `AvailabilityRelay` | 1 camera, 1 service thread, 2 managers at most, 1 HAL | a counterexample to `DeathIsReported` |
| `legacy_frames` | `LegacyFrames` | 2 writers, 1 client, 5 descriptors, 1 retry, 1 configuration, 1 failing `mmap` | `DescriptorsBounded`, `SteadyFrameConverted`, `FormatSettles` (liveness) |
| `shared_pool` | `SharedPool` | 2 pools of 2 buffers, rings of 4, 4 frames in all, indices modulo 8 | `InUseIsMarked`, `RingsHaveRoom`, `AcknowledgedPoolIsUsed`, `SubmittedComesBack` (liveness), `FirstPoolExchanges` (refinement) |

Why the bounds suffice. The hazards of a slot come from two parties that follow each
other: two sessions, two relays or HAL processes, two writers, two pools, one old and one
new. The instances of `stable_hal` and `relay_jni` are kept small because their safety
properties are proved for every instance: slots share only the identity counter, the
presence lock and `setCallback`'s loop, and the proofs cover any number of them. The same
goes for the safety properties of the other runs. Two buffers are one read and one
replacing it, and `MaxIdentity` is small enough to be reached, so that saturation is part
of the run. `MaxLives`, `MaxTokens`, `MaxCalls`, `MaxManagers`, `MaxHals`,
`MaxConnections`, `MaxFrames`, `MaxConfigs`, `MaxFlushes`, `MaxConfigures` and
`MaxFailures` are bounds on the environment, in the guards of the actions that begin
something. Two callbacks at a time are what overtaking takes, as are two service threads.
Two cameras for one slot are what a registration without a slot takes; the slot's next
owner and the camera that was refused have different numbers then, as in the code.
`MaxAttempts` is 30 in the code and 1 here: an attempt is the same as the first, and
attempts only differ in when recovery gives up, which no property is about yet. In
`shared_pool`, four frames over two buffers use each buffer twice and fill every slot of
the ring of four; with two buffers it has the fewest slots the assumption allows, so the
room for releases is as tight as it gets (in the code it is 16 slots for 4 buffers); the
index itself wraps only after 2^32 frames, and the run stays below: if `MaxFrames` reaches
`IndexSpan`, `SubmittedComesBack` fails, because the readers' test is `read >= write` (the
hazard at `SharedBufferPool.h:108`). In `capture_session` a batch of two requests is one
that succeeds before one that fails, and two buffers are a request with an output already
processed and one still to come. In `output_fill` a third camera would meet the mutex as
the second does, and the proofs cover any number. `MaxRetries` is ten in the code: the
attempts are alike. Symmetry is used for interchangeable model values only, and not for
liveness.

`CHECK_DEADLOCK FALSE` is said where the system may come to rest: in the service's runs,
when the HAL is gone for good and every app refused or removed; in the availability runs,
after the last life of a process; in `capture_session`, after `close`; in `shared_pool`,
after a fault. The other runs never stop.

`CallsRelayInTurn` is the refinement that ties service and relay together: the service,
with its own variables hidden, is a behaviour of `RelayJni!Spec`. The most general caller
of `RelayJni` is thus really more general than the service, and what is shown or proved
under it (`NativeReturns` excepted, which needs its fairness) holds of the service. The
run shows the refinement on an instance, `ServiceImplementsRelay` proves it for all. Two
cases are out of the runs' instances and covered by proofs alone: the run of
`CallsRelayInTurn` has no sessions, so that `createSurface`, which a callback leads to, is
only in `ServiceImplementsRelay`; and `relay_jni` has one slot, so that a cleanup which
has passed one slot while another gets its queue is only in `QueueCorrect`. `stable_hal`
has one GPU job, so that merges of fences never fail halfway there: `ReadsCorrect` is
about any number of jobs and every outcome of a merge.

**Fairness.** Each assumption is that a thread which can run does, or that binder delivers
what it promises:

- `relay_jni`: each thread in a native method keeps running (`WF` of `NativeStep(t)`: the
  steps are straight-line code, and a call of the HAL returns or fails), and the death of a
  linked process is reported and its report worked off (`HalDied`, `DeathReleases`).
  Nothing is assumed of the HAL, which may crash or never start.
- `capture_session`: the thread that processes a request runs (`WF` of `Process`: its waits
  have deadlines), and a thread that waits for `mRequestLock` gets it if it is free again
  and again (`SF`). Fences need not signal and frames need not come.
- `availability`: the bridge's thread (`WF` of `Thread`), the death recipient (`WF` of
  `Death`) and the two calls they make into the provider (`WF` of `Deliver`) run. Nothing
  is assumed of the service's threads but that it answers the bridge while it lives,
  nothing of registrations or restarts, nor that `mLock` is granted to a waiting obituary.
- `legacy_frames`: the HAL's threads and a live writer's loop run (`WF`). Nothing is
  assumed of the GPU, which may come up at once, later or never. `FormatSettles` says what
  holds in either case: whenever the header's format and the data disagree, format, size
  and data come to agree again (on RGBA, frame after frame, if the GPU never comes up),
  and once the GPU is up a request for YUV is honoured.
- `shared_pool`: the capture thread runs (`WF` of `CaptureNext`): the framework keeps
  requesting frames. Nothing is assumed of the renderers, which may stop or be killed
  anywhere, nor of the accept thread.
- `output_fill` and the other runs state safety only.

### Findings

`ValidRegistrationStays` fails. The comment at `VirtualCameraService.java:243` says that a
valid pending registration stays hidden until the HAL accepts it. The code asks
`isHalUp()` after a failed `registerProducer` to tell "the HAL was down" from "the
descriptor was rejected". If the HAL died just before and its death is not yet
reported, or if it came up just after, the answer is yes and the camera is
removed although nothing is wrong with it. The app is not told.

`DeathIsReported` fails. `AvailabilityBridge.h:13-14` says that a restart of
`system_server` is handled by "binder death -> availability=false, then reconnect". While
the bridge is not connected its loop calls `wait_for` with a predicate that holds
already (`AvailabilityBridge.cpp:131`), which returns without waiting and without giving up
`mLock`; the comment there says "retry in 2s". If the manager dies under
`setHalListener`, after its push has announced a producer, `onManagerDied` waits for
`mLock` and the camera stays present until some new manager is connected to.
`Reconnects` holds all the same: the loop that keeps the lock is the one that connects.

Met while modelling, described by no text of the repository and therefore listed as
hazards only: an output whose release fence cannot be duplicated goes back without one
(`VirtualCameraSession.cpp:828`); after a failed mapping `mSharedMemFd` names a descriptor
that the frame source has closed (`VirtualCameraSocket.cpp:115`); a release after a pool's
replacement can free a buffer of the new pool (`VirtualCameraFrameSourceV2.cpp:157`); two
notifications that overtake each other leave the framework with the older value
(`VirtualCameraService.java:352`), and a registration that finds only cameras without a
slot in the registry is not announced (`VirtualCameraService.java:223`); a ring index that
wraps makes the ring look empty (`SharedBufferPool.h:108`).

## 4. Proofs

Proved with TLAPS for every value of the constants that the assumptions of the modules
allow: `HalAssumption`, `RelayAssumption`, `ServiceAssumption`, `SessionAssumption`,
`OutputAssumption`, `AvailabilityConstants`, `LegacyAssumption` and `PoolAssumption`. They
say that counts are numbers, that names of different things differ (a thread is not a
slot, the file is not a client, `None` is no listener), that a batch names an output once
(the framework's contract), that descriptors do not run out, and that a ring has at least
two slots more than there are buffers (`NumBuffers + 1 < RingSize`; `SharedBufferPool.h`
fixes 16 slots and at most 4 buffers). One slot more is not enough: with rings of 3 for 2
buffers, releases that come between a drain and the buffer taken fill the release ring,
and `RingsHaveRoom` fails.

| Theorem | Module | States |
|---|---|---|
| `TypeCorrect` | `StableHal_proofs` | `Spec => []TypeOK` |
| `ControlCorrect` | `StableHal_proofs` | `Spec => []ControlInv` |
| `RegistrationCorrect`, `OwnerCorrect` | `StableHal_proofs` | `ConfiguredByCurrentRegistration`, `ConfigurationHasOwner` |
| `OwnersCorrect` | `StableHal_proofs` | `Spec => OwnersOnlyAdvance` |
| `PresenceCorrect` | `StableHal_proofs` | `Spec => []PresenceAgrees` |
| `FrameOfConfigurationCorrect` | `StableHal_proofs` | `Spec => []FrameOfConfiguration` |
| `ReadersCorrect`, `ReadsCorrect` | `StableHal_proofs` | `FrameReadIsKept`, `EveryReadTracked` |
| `RelayTypeCorrect`, `ConnectionOwnedCorrect` | `RelayJni_proofs` | `RelayTypeOK`, `ConnectionOwned` |
| `QueueCorrect`, `RegistrationCorrect` | `RelayJni_proofs` | `QueueOfConnection`, `RegistrationAgrees` |
| `ServiceCorrect` | `CameraService_proofs` | `ServiceSpec => [](RelayInv /\ ServiceInv)` |
| `ServiceImplementsRelay` | `CameraService_proofs` | `ServiceSpec => CallsRelayInTurn` (refinement) |
| `RelayUnderService` | `CameraService_proofs` | the relay's four invariants under `ServiceSpec` |
| `ServiceTypeCorrect`, `SlotReservedUntilGone` | `CameraService_proofs` | `ServiceTypeOK`, `HalProducerIsOwner` |
| `ProducersMoveForward` | `CameraService_proofs` | `ServiceSpec => DeliveriesAdvance` |
| `ProducerEndsUpRight` | `CameraService_proofs` | `ServiceSpec => []ProducerFollowsConfiguration` |
| `SessionTypeCorrect` | `CaptureSession_proofs` | `SessionTypeOK` |
| `EarlyWriteNever`, `ConsumersStayGuarded` | `CaptureSession_proofs` | `NoEarlyWrite`, `ConsumersGuarded` |
| `KnownStaysCached`, `NothingStays`, `CloseAlwaysDrains` | `CaptureSession_proofs` | `KnownIsCached`, `NothingKept`, `CloseDrains` |
| `TypesHold` | `OutputFill_proofs` | `OutputTypeOK` |
| `ContextIsReleased` | `OutputFill_proofs` | `ContextWithLock` |
| `DrawsAfterSource`, `CompletionIsCovered` | `OutputFill_proofs` | `SamplesAfterFence`, `CompleteOrFenced` |
| `CpuWritesAlone`, `PlanesFit` | `OutputFill_proofs` | `FallbackIsAlone`, `TargetsFit` |
| `BridgeStaysListened`, `QuietViewIsTrue` | `AvailabilityRelay_proofs` | `ConnectedIsListened`, `SettledViewAgrees` |
| `DescriptorsStayBounded`, `SteadyCaptureIsRight` | `LegacyFrames_proofs` | `DescriptorsBounded`, `SteadyFrameConverted` |
| `AcknowledgedIsUsed` | `SharedPool_proofs` | `AcknowledgedPoolIsUsed` |
| `Inductive` | `SharedPool_proofs` | `Spec => []IInv`, if `MaxFrames < IndexSpan` |
| `NoBufferTwice`, `NothingIsRefused` | `SharedPool_proofs` | `InUseIsMarked`, `RingsHaveRoom`, if `MaxFrames < IndexSpan` |
| `FirstPoolImplementsExchange` | `SharedPool_proofs` | `Spec => FirstPoolExchanges` (refinement), if `MaxFrames < IndexSpan` and there is a pool at all |

Every safety property and every action property that a passing run checks is also proved.
The hypothesis `MaxFrames < IndexSpan` says that no pool sees 2^32 frames. It is a
restriction on the code, not on the model: the indices are `uint32_t`, run freely, and are
compared with `>=` (`SharedBufferPool.h:108`), so that beyond it the ring does look empty.
At sixty frames a second that takes two years and a quarter. `AcknowledgedIsUsed` is about
the set-up and does not need it.

The arguments:

- *Control plane.* `ConfiguredByCurrentRegistration` is not inductive: a session
  checks its registration and configures one step later. `ControlInv` adds
  `CheckHolds`: if `notifyStreamsConfigured` would still accept the session then what
  it checked is still true, because whatever changes the registration also retires
  the slot's owner to a fresh identity that outranks every session opened before.
  That needs `Issued`: all owners, tokens and identities come from one counter and
  none is ahead of it.
- *Presence.* `PresenceInv`: what the holder of `mPresenceLock` is about to publish is
  what it has found in `mCapabilities`, which nobody else can change meanwhile.
- *Frames.* `FrameOfConfiguration` rests on `ControlInv` and on the fact that whatever
  replaces a configuration drops the slot's frame in the same critical section.
- *Readers.* `ReadersInv` adds that a session holds a frame exactly in the phases
  between `acquireLatest` and `releaseFrame`; counting readers with `Cardinality` then
  goes through the finite-set lemmas.
- *Reads.* `TrackedInv` adds that only unfinished jobs count. Each step is shown to
  keep every dependency of a frame (`Kept...` lemmas), to pass it to the holder,
  or to hand it to the relay with the buffer.

- *Connections.* Not even the type of the relay's state is inductive: epochs stay within
  the number of HAL processes only because each process is connected to at most once
  (`Fresh`), which holds because an attempt fails only with its process, and so rests
  on what the connecting thread knows between its steps (`Connector`): its epoch is the
  newest, the globals hold it or have been reset by its death, and a callback is in the
  HAL only after `setCallback`. `ConnectionInv` collects this.
- *Queues.* A connection ends in `HalDied`, which hands all slots to the cleanup, or in
  `ConnectFails`, which does not. `Unannounced` shows that the latter leaves no queue
  behind: as long as an attempt can fail, no callback of its epoch exists, so nothing
  has been admitted and nothing installed.
- *Registrations.* `RegistrationInv` follows the slot's own thread: while it registers,
  `previous` is what the HAL has, and `gRegistrations` is its camera unless the connection
  it saw is gone; a connection that is gone can no longer be reached by the call that
  follows, so a late restore does no harm.

- *Compositor.* None of its properties is inductive alone. `ContextWithLock` needs `Tried`
  (a compositor that works has been initialised, so that `ensureInit` does not run again
  under another thread's mutex), and that only the holder of `mLock` is inside
  (`LockHeld`). `TargetsFit` needs it too: the planes change only while
  their user is at `EnsureTargets`, and nobody else is inside. `PlanesCached` says that
  the size recorded is the size allocated. For the stream, `Undrawn` says which steps have
  submitted no draw, `Fenced` that a kept result has its fence behind its draws, and
  `Waited` that the step that draws has its wait in front. The stream's order is then
  argued once for all steps: `Moves` abstracts a step of the system to "one command
  appended, or the head executed, or neither", `StepMoves` shows every action to be
  one of these, and the three invariants are preserved by `Moves`.
  `CompleteOrFenced` and `FallbackIsAlone` follow from `Fenced` and `Undrawn`.

- *Service.* `ServiceInv` stands on the relay's invariants, since what a job of an
  executor may conclude depends on where its native method is. `Registry` ties the three
  maps of the service to each other, with the cameras that found no slot as the one
  exception; `Tasks` and `Jobs` say what a queued or running task is about and that the
  slot's native method is the one its job called. `HalProducerIsOwner` is then kept by
  `Removal`: when a removal reaches the point at which the slot is freed, the HAL has no
  producer there, because `removeProducer` has returned from the process that lives or
  that process is gone. `Announced`, `Accepting` and `Heard` bound what callbacks carry by
  what the HAL has announced.
- *Service on relay.* With `ServiceInv`, each of the service's steps is shown to be a step
  of `RelayJni!Next` or to leave its variables alone: a call of a native method finds the
  thread outside of one (`Jobs`), which is what the relay asks of its caller.
- *Deliveries.* `DeliveriesAdvance` compares a producer's news with what comes next, so the
  invariant must say it of everything under way. `Events`: as long as an event is its slot's
  newest, the slot has that configuration and the producer has heard of less;
  `DeliveredOnce`: the newest is under way in one place, whether accepted, queued or
  running; `NoneAhead`: no owner has heard of more than its slot has accepted. A stale task
  changes nothing because its event number is not the slot's any more.
- *Configurations.* `ProducerFollowsConfiguration` speaks of a slot with nothing under
  way, so its invariant has to say where everything is while something is. `Follows` does:
  if the relay admits a slot's owner and has a configuration in force, then that is
  offered to the service by a callback that the service will want (`Offered`), or is
  accepted or queued (`Arrived`), or its surface is being made (`InTheMaking`), or the
  producer has it (`Has`); or it is over and the producer does not draw. What keeps each
  of these from being lost is a part of its own. The service never refuses what is
  offered, because it is never ahead of the relay (`Numbers`, `Behind`) and the connection
  is the newest (`Reach`); an executor never drops what has arrived, because the newest
  event says what the slot says (`EventKinds`); nobody releases the queue of a
  configuration in force (`Releases`, with `Dead` for the deaths still talked about and
  `Leavers` for removals); a slot passed on to another camera brings it no configuration
  and no callback of the last one (`Lapsed`, `Origin`, `Registrants`, `Gone`). `Prior` is
  the registration that was there before one that is still being made, since a
  registration that the HAL refuses is undone. TLC checked `FollowInv` on the two
  instances of the runs before it was proved. Relay and service take turns in the proof:
  the relay's steps are sorted by what they do to one slot, then the service's (`Turns`,
  `SlotTurns`, `JobTurns`, `CallTurns`, `TaskTurns`, `ProducerTurns`), and each part is
  shown to survive these few moves.

- *Session.* `Owned` identifies the outputs the session holds with those of the requests
  it has not answered, so every exit of `processSingleRequest` has to answer exactly one
  request. `Fenced` says, step by step, which outputs have been waited for: while the
  session waits, whatever a consumer still works on is among the fences duplicated, and
  from the frame source on there is no such output. `NoEarlyWrite` is an instance of it,
  `ConsumersGuarded` needs it where a request fails with some fences waited for and others
  not. `Cached` adds which outputs have been imported; `Ended` follows the closing thread
  through its two halves and gives `CloseDrains` together with `LockInTurn`.

- *Availability.* `Listened` extends `ConnectedIsListened` to the time between
  `setHalListener` and its return; a death recipient takes away its own listener only, and
  `Grounded` orders listeners by the HAL's lives. `SettledViewAgrees` follows the value:
  unless two were read at once (`raced`), at most one is under way to this HAL
  (`OneFlies`); once every notification has read the state (`Read`), the one under way
  agrees with the registry, and if none is the provider's flag does (`Tracked`);
  `Reported` and `Shown` carry the flag to the framework. To agree (`Agrees`) is to say
  "present" only if the registry is not empty, and to say it if some registered camera has
  a slot and none was `missed`. That this is enough once all is quiet is `Accounted`: a
  registered camera without a slot is in the hands of a thread that is about to take it
  out.

- *Legacy frames.* Two objects close descriptors, one of them by a number it may no longer
  own. `Held` says that the open descriptors are among `mSharedMemFd` and the one being
  handed over, and when they are the same. For the frame, `HeaderAgrees` and `OneWriter`
  make the header's format the one its living writer draws in, `Unsent` keeps a client's
  region from being mapped before it is written, and `Undisturbed` takes the capture from
  one critical section to the next.

- *Handshake.* `AcknowledgedPoolIsUsed` needs that connections are taken in turn
  (`InTurn`): the one attached is the last that got so far, and a connection that was
  acknowledged is displaced by a later one only. `Acknowledged` says what the server holds
  for it, and `Untouched` and `Ordered` that what the capture thread points to is a pool
  that was connected.
- *Rings.* For each pool that no stale pointer has touched: `Counted` (the write index is
  the number of frames, so it is monotone below the span, and indices can be compared as
  numbers), `Rings` (the distances), `Drawn`, `Queues` and `Taken` (every buffer drawn,
  waiting or taken is marked, and no two of them are the same), `Filled` and `Copied`
  (what was read before an index is stored is still true when it is). For the pool
  attached, `Apart` says that what was taken has left the queue, `Paid` that no release
  comes without a frame that was read, and `Room` that the releases the renderer has not
  drained and the buffers still marked together exceed the number of buffers by two at
  most (`Bound`), and by one between the drain and the buffer that is taken next. That a
  slot for the next frame is always there follows from `Queues`: waiting slots inject into
  the buffers, and a ring has more slots than there are buffers.
- *Exchange.* The refinement mapping makes a sequence of the waiting slots. `BeginFrame`,
  `PublishSlot`, `AdvanceRead` and `FreeBuffer` are the steps of `BufferExchange`, a
  renderer that gives up its frame cancels it, and everything else leaves owners and queue
  as they were; the lemmas about appending to and taking from the sequence are about its
  length and its elements, never about its construction. That no stale pointer ever
  reaches the first pool (`FirstIsOwn`) is part of the argument: stale pointers are to
  earlier pools.

Model-checked only: liveness (`NativeReturns`, `CallsReturn`, `Reconnects`,
`FormatSettles`, `SubmittedComesBack`), which is out of the prover's reach.

Many leaves name the solver that proves them: a step over records with several `EXCEPT`s is
slow to put into SMT's language, and Zenon proves it at once when the step is small; steps
with arithmetic are SMT's. That is also why arithmetic and record updates are kept in
different leaves.

## 5. Not modelled

- `AidlFrameSource`: nothing calls `fillLatestInto` or `retryIfNeeded` any more.
- `stop()` of the bridge and of the two socket servers: only destructors of objects that
  live as long as the process call them.
- `onFrameAvailable` of the relay beyond the transport failure: it would take `StableHal`'s
  frame mailbox and the relay's queue in one model.
- The AIDL v2 provider, which enumerates one camera that is always there; the negotiation
  of a format through the ring's header, which the renderer only logs; static
  metadata, vendor tags, torch.
- `ProducerCapabilities` (two implementations of one rule): arithmetic without state.
- The producer application's `RenderRequestQueue` and its render thread: one lock and one
  consumer, tested in `tests/RenderRequestQueueTest.java`. `CameraService` has what the
  application does towards the service.
- Arithmetic on pixels, scaling, JPEG entropy coding: data, not control.
- The virtual microphone, viewer, sample and end-to-end applications, `system_server`
  start-up, build files and scripts: no protocol of the camera.

## 6. Plan

Done: `StableHal`, `RelayJni`, `CameraService`, `CaptureSession`, `SharedPool` with
`BufferExchange`, `LegacyFrames`, `AvailabilityRelay`, `OutputFill`, and for each of them
the proof of its safety properties and refinements, as section 4 lists them. Next, in this
order:

1. `CameraService`: removal completes and recovery registers again, as liveness under
   the executors' fairness.
2. `FramePath`: `StableHal`'s frame mailbox composed with the relay's queue and held
   buffers, against an abstract latest-frame mailbox in which a buffer belongs to one party
   at a time.
3. `RenderRequestQueue`, and `ProducerCapabilities` as operators against a reference
   definition.
4. The ring beyond the wrap of its indices: what is lost and how it recovers.
