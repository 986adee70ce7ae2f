--------------------------- MODULE CameraService ----------------------------
(***************************************************************************)
(* The service in system_server: service/VirtualCameraService.java and     *)
(* LifecycleSlot.java, on top of the relay.                                *)
(*                                                                         *)
(* A producer app registers a camera, which reserves a slot.  All that     *)
(* concerns the slot outside the process - registering and removing the    *)
(* producer, making and releasing surfaces, telling the producer - is done *)
(* by the slot's own executor, one task after the other, without a lock.   *)
(* The HAL's callbacks, its death, recovery and the app's calls come from  *)
(* other threads: they decide under mLock and append tasks afterwards, so  *)
(* that the order of the tasks need not be that of the decisions.  A task  *)
(* finds out when it runs whether it is still wanted.                      *)
(***************************************************************************)
EXTENDS RelayJni, Sequences

CONSTANTS
    Recovery,       \* the thread of mRecovery; an app's thread is its camera
    MaxAttempts     \* attempts of one recovery round (30)

ASSUME ServiceAssumption ==
    /\ Clients = Cameras \cup {Recovery}
    /\ MaxAttempts \in Nat \ {0}

VARIABLES
    app,              \* per camera, where its app is in registerCamera
    removing,         \* per camera, where removeCamera is, and on whose behalf
    mCameras,         \* keys of mCameras
    mSlotByCameraId,
    assigned,         \* the slot a camera was given, as its threads remember it
    mSlots,           \* LifecycleSlot per slot
    accepted,         \* event numbers of the callbacks that have yet to queue a task
    mLifecycle,       \* tasks queued at each slot's executor
    job,              \* the task each executor runs
    mRecoveryRound,
    scheduled,        \* recovery attempts that are due in a second
    recovery,         \* the attempt the recovery thread makes
    producer          \* what each VirtualCamera has told its producer

registry    == <<mCameras, mSlotByCameraId, assigned>>
queued      == <<accepted, mLifecycle>>
lifecycle   == <<queued, job>>
recoveries  == <<mRecoveryRound, scheduled, recovery>>
serviceVars == <<app, removing, registry, mSlots, lifecycle, recoveries, producer>>
vars        == <<relayVars, serviceVars>>

\* The relay's variables but native, and but native and calls.
relayGlobals == <<hal, calls, links, connection, admission, queues, gConnectLock, deaths>>
relayRest    == <<hal, links, connection, admission, queues, gConnectLock, deaths>>

NewSlot == [owner |-> None, closing |-> FALSE, connection |-> 0, event |-> 0,
            configuration |-> 0, configurationClosed |-> FALSE]
Task(kind, c) == [kind |-> kind, camera |-> c, event |-> 0, connection |-> 0, token |-> 0,
                  round |-> 0]
NoTask == Task("none", None)
Idle == [task |-> NoTask, at |-> "idle"]
NoAttempt == [round |-> 0, attempt |-> 0, at |-> "idle", slots |-> {}]

Init ==
    /\ RelayInit
    /\ app = [c \in Cameras |-> "new"]
    /\ removing = [c \in Cameras |-> "no"]
    /\ mCameras = {}
    /\ mSlotByCameraId = [c \in Cameras |-> None]
    /\ assigned = [c \in Cameras |-> None]
    /\ mSlots = [s \in Slots |-> NewSlot]
    /\ accepted = {}
    /\ mLifecycle = [s \in Slots |-> <<>>]
    /\ job = [s \in Slots |-> Idle]
    /\ mRecoveryRound = 0 /\ scheduled = {} /\ recovery = NoAttempt
    /\ producer = [c \in Cameras |-> [connection |-> 0, token |-> 0, open |-> FALSE]]
----------------------------------------------------------------------------
(***************************************************************************)
(* LifecycleSlot.                                                          *)
(***************************************************************************)

Owns(s, c) == mSlots[s].owner = c /\ ~mSlots[s].closing
Current(s) == IF mSlots[s].closing THEN None ELSE mSlots[s].owner
\* Mutant of IsCurrentEvent: the owner is enough.
IsCurrentOwner(s, c, event) == Owns(s, c)

IsCurrentEvent(s, c, event) == Owns(s, c) /\ event # 0 /\ mSlots[s].event = event

\* Mutant of NewerEvent: the tokens of the last connection are not forgotten.
NewerEventKeepsToken(s, c, conn, token, closed) ==
    LET slot == mSlots[s]
    IN /\ Owns(s, c) /\ conn # 0 /\ token > 0 /\ conn >= slot.connection
       /\ \/ token > slot.configuration
          \/ token = slot.configuration /\ closed /\ ~slot.configurationClosed

\* nextConfigurationEvent does not return 0.  A newer connection starts its
\* tokens afresh.
NewerEvent(s, c, conn, token, closed) ==
    LET slot == mSlots[s]
        sameConnection == conn = slot.connection
        last == IF sameConnection THEN slot.configuration ELSE 0
        lastClosed == sameConnection /\ slot.configurationClosed
    IN /\ Owns(s, c) /\ conn # 0 /\ token > 0 /\ conn >= slot.connection
       /\ token > last \/ (token = last /\ closed /\ ~lastClosed)

\* Mutant of BeginClose: the slot is free at once.
BeginCloseFrees(s) == mSlots' = [mSlots EXCEPT ![s].owner = None, ![s].event = @ + 1]

BeginClose(s) ==
    mSlots' = [mSlots EXCEPT ![s] = [@ EXCEPT !.closing = TRUE, !.configurationClosed = TRUE,
                                              !.event = mSlots[s].event + 1]]
----------------------------------------------------------------------------
Execute(s, task) == mLifecycle' = [mLifecycle EXCEPT ![s] = Append(@, task)]

(***************************************************************************)
(* The app: registerCamera, unregisterCamera, setProducerReady.            *)
(***************************************************************************)

RegisterCamera(c) ==
    /\ app[c] = "new"
    /\ GetMaxCameras(c)
    /\ app' = [app EXCEPT ![c] = "max"]
    /\ UNCHANGED <<relayGlobals, removing, registry, mSlots, lifecycle, recoveries, producer>>

\* Mutant of FreeSlots: a slot that is closing counts as free.
FreeSlotsClosing(max) == {s \in Slots : s < max /\ Current(s) = None}

\* allocateSlotLocked: the lowest free slot among those the HAL supports.
FreeSlots(max) == {s \in Slots : s < max /\ mSlots[s].owner = None}

\* The camera enters the registry, with its slot or, when none is free, without
\* one; with a dead app it is refused at once.
Reserve(c) ==
    LET free == FreeSlots(IF native[c].ok THEN NumSlots ELSE 1)
    IN /\ app[c] = "max" /\ native[c].at = "java"
       /\ \/ \E s \in free :
                /\ \A r \in free : s <= r
                /\ app' = [app EXCEPT ![c] = "execute"]
                /\ mCameras' = mCameras \cup {c}
                /\ mSlotByCameraId' = [mSlotByCameraId EXCEPT ![c] = s]
                /\ assigned' = [assigned EXCEPT ![c] = s]
                /\ mSlots' = [mSlots EXCEPT ![s].owner = c]
          \/ /\ free = {}
             /\ app' = [app EXCEPT ![c] = "noSlot"]
             /\ mCameras' = mCameras \cup {c}
             /\ UNCHANGED <<mSlotByCameraId, assigned, mSlots>>
          \/ /\ app' = [app EXCEPT ![c] = "refused"]
             /\ UNCHANGED <<registry, mSlots>>
       /\ Consume(c)
       /\ UNCHANGED <<relayGlobals, removing, lifecycle, recoveries, producer>>

\* removeCamera of a camera without a slot: there is nothing to tear down.
RemoveUnslotted(c) ==
    /\ mSlotByCameraId[c] = None
    /\ mCameras' = mCameras \ {c}
    /\ UNCHANGED <<mSlotByCameraId, assigned>>

\* registerCamera takes the camera out again, in a later section of mLock, unless
\* its app has died in between, and throws.
RefuseRegistration(c) ==
    /\ app[c] = "noSlot"
    /\ app' = [app EXCEPT ![c] = "refused"]
    /\ RemoveUnslotted(c)
    /\ UNCHANGED <<relayVars, removing, mSlots, lifecycle, recoveries, producer>>

\* Mutant of ExecuteRegister: the HAL is called on the app's thread.
ExecuteRegisterHere(c) ==
    /\ app[c] = "execute"
    /\ app' = [app EXCEPT ![c] = "registered"]
    /\ RegisterProducer(c, assigned[c], c)
    /\ UNCHANGED <<relayGlobals, removing, registry, mSlots, lifecycle, recoveries, producer>>

\* The task that registers the producer is queued after the slot is reserved,
\* perhaps after the camera has been removed.
ExecuteRegister(c) ==
    /\ app[c] = "execute"
    /\ app' = [app EXCEPT ![c] = "registered"]
    /\ Execute(assigned[c], Task("register", c))
    /\ UNCHANGED <<accepted, relayVars, removing, registry, mSlots, job, recoveries, producer>>

\* removeCamera takes the camera out of the registry; its slot stays reserved.
BeginRemove(c, behalf) ==
    LET s == mSlotByCameraId[c]
    IN /\ c \in mCameras /\ s # None /\ Owns(s, c)
       /\ BeginClose(s)
       /\ mCameras' = mCameras \ {c}
       /\ mSlotByCameraId' = [mSlotByCameraId EXCEPT ![c] = None]
       /\ removing' = [removing EXCEPT ![c] = behalf]
       /\ UNCHANGED assigned

\* The app unregisters or dies.
OwnerRemoves(c) ==
    /\ app[c] # "new"
    /\ \/ BeginRemove(c, "owner")
       \/ c \in mCameras /\ RemoveUnslotted(c) /\ UNCHANGED <<mSlots, removing>>
    /\ UNCHANGED <<relayVars, app, lifecycle, recoveries, producer>>

\* removeCamera queues the teardown; called by the registration task, that
\* task ends with it.
ExecuteRemove(c) ==
    /\ removing[c] \in {"owner", "rejected"}
    /\ removing' = [removing EXCEPT ![c] = "queued"]
    /\ Execute(assigned[c], Task("remove", c))
    /\ job' = IF removing[c] = "rejected" THEN [job EXCEPT ![assigned[c]] = Idle] ELSE job
    /\ UNCHANGED <<accepted, relayVars, app, registry, mSlots, recoveries, producer>>

SetProducerReady(c, ready) ==
    LET s == mSlotByCameraId[c]
    IN /\ app[c] = "registered" /\ c \in mCameras /\ Owns(s, c)
       /\ producer[c].connection # 0 /\ producer[c].token > 0
       /\ SetConfigurationReady(c, s, producer[c].connection, producer[c].token, ready)
       /\ app' = [app EXCEPT ![c] = "ready"]
       /\ UNCHANGED <<relayGlobals, removing, registry, mSlots, lifecycle, recoveries, producer>>

ReadyReturned(c) ==
    /\ app[c] = "ready" /\ native[c].at = "java"
    /\ app' = [app EXCEPT ![c] = "registered"]
    /\ Consume(c)
    /\ UNCHANGED <<relayGlobals, removing, registry, mSlots, lifecycle, recoveries, producer>>
----------------------------------------------------------------------------
(***************************************************************************)
(* The HAL's callbacks: onHalStreamsConfigured, onHalCameraClosed.         *)
(***************************************************************************)

\* The callback takes an event number under mLock, or is dropped.
Accept(k) ==
    LET s == k.slot
        wanted == /\ gHal # 0 /\ gConnectionEpoch = k.epoch
                  /\ Current(s) = k.registration
                  /\ NewerEvent(s, k.registration, k.epoch, k.token, k.closed)
    IN /\ k \in calls /\ k.at = "admitted"
       /\ IF wanted
          THEN /\ mSlots' = [mSlots EXCEPT ![s] =
                      [@ EXCEPT !.connection = k.epoch, !.configuration = k.token,
                                !.configurationClosed = k.closed,
                                !.event = mSlots[s].event + 1]]
               /\ Accepted(k)
               /\ accepted' = accepted \cup
                      {[call |-> [k EXCEPT !.at = "accepted"], event |-> mSlots[s].event + 1]}
          ELSE Dropped(k) /\ UNCHANGED <<mSlots, accepted>>
       /\ UNCHANGED <<relayRest, native, app, removing, registry, mLifecycle, job, recoveries,
                      producer>>

\* It queues its task and returns to the HAL.
ExecuteEvent(a) ==
    LET k == a.call
        kind == IF k.closed THEN "closed" ELSE "configured"
    IN
    /\ a \in accepted
    /\ accepted' = accepted \ {a}
    /\ Dropped(k)
    /\ Execute(k.slot, [Task(kind, k.registration) EXCEPT
                           !.event = a.event, !.connection = k.epoch, !.token = k.token])
    /\ UNCHANGED <<relayRest, native, app, removing, registry, mSlots, job, recoveries, producer>>
----------------------------------------------------------------------------
(***************************************************************************)
(* onHalDied and recoverHal.                                               *)
(***************************************************************************)

StartRound == /\ mRecoveryRound' = mRecoveryRound + 1
              /\ scheduled' = scheduled \cup {[round |-> mRecoveryRound + 1, attempt |-> 0]}

OnHalDied(d) ==
    /\ d \in deaths /\ d.slots = {}
    /\ deaths' = deaths \ {d}
    /\ mLifecycle' = [s \in Slots |->
           Append(mLifecycle[s], [Task("halDied", None) EXCEPT !.connection = d.epoch])]
    /\ StartRound
    /\ UNCHANGED <<hal, calls, links, connection, admission, queues, gConnectLock, native, app,
                   accepted, removing, registry, mSlots, job, recovery, producer>>

\* A scheduled attempt starts; one of an older round does nothing.
RecoverHal(r) ==
    /\ r \in scheduled /\ recovery.at = "idle"
    /\ scheduled' = scheduled \ {r}
    /\ IF r.round = mRecoveryRound
       THEN /\ IsHalUp(Recovery)
            /\ recovery' = [round |-> r.round, attempt |-> r.attempt, at |-> "isHalUp", slots |-> {}]
       ELSE UNCHANGED <<native, recovery>>
    /\ UNCHANGED <<relayGlobals, app, removing, registry, mSlots, lifecycle, mRecoveryRound,
                   producer>>

RecoverProceeds ==
    /\ recovery.at = "isHalUp" /\ native[Recovery].at = "java"
    /\ IF native[Recovery].ok
       THEN recovery' = [recovery EXCEPT !.at = "slots", !.slots = Slots] /\ UNCHANGED scheduled
       ELSE /\ recovery' = NoAttempt
            /\ scheduled' = IF recovery.attempt < MaxAttempts - 1
                            THEN scheduled \cup {[round |-> recovery.round,
                                                  attempt |-> recovery.attempt + 1]}
                            ELSE scheduled
    /\ Consume(Recovery)
    /\ UNCHANGED <<relayGlobals, app, removing, registry, mSlots, lifecycle, mRecoveryRound, producer>>

RecoverSlot(s) ==
    LET left == recovery.slots \ {s}
    IN /\ recovery.at = "slots" /\ s \in recovery.slots /\ \A r \in recovery.slots : s <= r
       /\ IF Current(s) = None THEN UNCHANGED mLifecycle
          ELSE Execute(s, [Task("recover", Current(s)) EXCEPT !.round = recovery.round])
       /\ recovery' = IF left = {} THEN NoAttempt ELSE [recovery EXCEPT !.slots = left]
       /\ UNCHANGED <<accepted, relayVars, app, removing, registry, mSlots, job, mRecoveryRound, scheduled,
                      producer>>
----------------------------------------------------------------------------
(***************************************************************************)
(* The executor of a slot.  A task starts when its predecessor is done,    *)
(* and begins by finding out whether it is still wanted.                   *)
(***************************************************************************)

NextTask(s, kind) ==
    job[s] = Idle /\ mLifecycle[s] # <<>> /\ Head(mLifecycle[s]).kind = kind

\* The task is taken, and waits for the native method it has called.
Take(s, at) ==
    /\ mLifecycle' = [mLifecycle EXCEPT ![s] = Tail(@)]
    /\ job' = [job EXCEPT ![s] = [task |-> Head(mLifecycle[s]), at |-> at]]
    /\ UNCHANGED accepted

\* The task is no longer wanted.
Skip(s) ==
    /\ mLifecycle' = [mLifecycle EXCEPT ![s] = Tail(@)]
    /\ UNCHANGED <<native, accepted, job>>

Back(s, at) == job[s].at = at /\ native[s].at = "java"
Waits(s, at) == job' = [job EXCEPT ![s].at = at]
Done(s) == job' = [job EXCEPT ![s] = Idle]

\* registerCamera's task.
StartRegister(s) ==
    LET c == Head(mLifecycle[s]).camera
    IN /\ NextTask(s, "register")
       /\ IF Owns(s, c) THEN Take(s, "register") /\ RegisterProducer(s, s, c) ELSE Skip(s)
       /\ UNCHANGED <<relayGlobals, app, removing, registry, mSlots, recoveries, producer>>

RegisterReturned(s) ==
    /\ Back(s, "register")
    /\ IF native[s].ok THEN Done(s) /\ Consume(s)
       ELSE Waits(s, "isHalUp") /\ IsHalUp(s)
    /\ UNCHANGED <<relayGlobals, app, removing, registry, mSlots, queued, recoveries, producer>>

\* The registration failed: with the HAL down it is left to recovery, with the
\* HAL up the descriptor is taken to be rejected.
RegisterFailed(s) ==
    LET c == job[s].task.camera
    IN /\ Back(s, "isHalUp")
       /\ IF ~native[s].ok
          THEN /\ StartRound /\ Done(s)
               /\ UNCHANGED <<removing, registry, mSlots>>
          ELSE /\ IF Owns(s, c) THEN BeginRemove(c, "rejected") /\ Waits(s, "reject")
                  ELSE Done(s) /\ UNCHANGED <<removing, registry, mSlots>>
               /\ UNCHANGED <<mRecoveryRound, scheduled>>
       /\ Consume(s)
       /\ UNCHANGED <<relayGlobals, app, queued, recovery, producer>>

\* A recovery attempt's task; whether it succeeds is not looked at.
StartRecover(s) ==
    LET task == Head(mLifecycle[s])
    IN /\ NextTask(s, "recover")
       /\ IF task.round = mRecoveryRound /\ Owns(s, task.camera)
          THEN Take(s, "call") /\ RegisterProducer(s, s, task.camera) ELSE Skip(s)
       /\ UNCHANGED <<relayGlobals, app, removing, registry, mSlots, recoveries, producer>>

\* onHalDied's task.
StartHalDied(s) ==
    /\ NextTask(s, "halDied")
    /\ Take(s, "call") /\ ReleaseSurfaceOf(s, s, Head(mLifecycle[s]).connection, 0)
    /\ UNCHANGED <<relayGlobals, app, removing, registry, mSlots, recoveries, producer>>

\* The last native method of a task returns.
CallReturned(s) ==
    /\ Back(s, "call") /\ Done(s)
    /\ Consume(s)
    /\ UNCHANGED <<relayGlobals, app, removing, registry, mSlots, queued, recoveries, producer>>

\* removeCamera's task: the HAL's registration goes, then the queue, then the
\* slot is free.
StartRemove(s) ==
    /\ NextTask(s, "remove")
    /\ Take(s, "remove") /\ RemoveProducer(s, s, Head(mLifecycle[s]).camera)
    /\ UNCHANGED <<relayGlobals, app, removing, registry, mSlots, recoveries, producer>>

RemoveReturned(s) ==
    /\ Back(s, "remove")
    /\ Waits(s, "release") /\ ReleaseSurfaceOf(s, s, 0, 0)
    /\ UNCHANGED <<relayGlobals, app, removing, registry, mSlots, queued, recoveries, producer>>

FinishRemove(s) ==
    LET c == job[s].task.camera
    IN /\ Back(s, "release")
       /\ producer' = [producer EXCEPT ![c].open = FALSE]
       /\ mSlots' = IF mSlots[s].owner = c /\ mSlots[s].closing
                    THEN [mSlots EXCEPT ![s] = [@ EXCEPT !.owner = None, !.closing = FALSE]]
                    ELSE mSlots
       /\ Done(s)
       /\ Consume(s)
       /\ UNCHANGED <<relayGlobals, app, removing, registry, queued, recoveries>>

\* onHalStreamsConfigured's task: the surface is made, and given to the producer
\* if nothing newer has happened.
StartConfigured(s) ==
    LET task == Head(mLifecycle[s])
    IN /\ NextTask(s, "configured")
       /\ IF IsCurrentEvent(s, task.camera, task.event)
          THEN Take(s, "create") /\ CreateSurface(s, s, task.connection, task.token) ELSE Skip(s)
       /\ UNCHANGED <<relayGlobals, app, removing, registry, mSlots, recoveries, producer>>

SurfaceCreated(s) ==
    LET task == job[s].task
    IN /\ Back(s, "create")
       /\ producer' = IF native[s].ok /\ IsCurrentEvent(s, task.camera, task.event)
                      THEN [producer EXCEPT ![task.camera] =
                               [connection |-> task.connection, token |-> task.token, open |-> TRUE]]
                      ELSE producer
       /\ Done(s)
       /\ Consume(s)
       /\ UNCHANGED <<relayGlobals, app, removing, registry, mSlots, queued, recoveries>>

\* Mutant of StartClosed: a newer event is not noticed.
StartClosedLate(s) ==
    LET task == Head(mLifecycle[s])
    IN /\ NextTask(s, "closed")
       /\ IF Owns(s, task.camera) /\ gHal # 0 /\ gConnectionEpoch = task.connection
          THEN /\ Take(s, "call") /\ ReleaseSurfaceOf(s, s, task.connection, task.token)
               /\ producer' = [producer EXCEPT ![task.camera].open = FALSE]
          ELSE Skip(s) /\ UNCHANGED producer
       /\ UNCHANGED <<relayGlobals, app, removing, registry, mSlots, recoveries>>

\* onHalCameraClosed's task: the producer is told first.
StartClosed(s) ==
    LET task == Head(mLifecycle[s])
        wanted == /\ IsCurrentEvent(s, task.camera, task.event)
                  /\ gHal # 0 /\ gConnectionEpoch = task.connection
    IN /\ NextTask(s, "closed")
       /\ IF wanted
          THEN /\ Take(s, "call") /\ ReleaseSurfaceOf(s, s, task.connection, task.token)
               /\ producer' = [producer EXCEPT ![task.camera].open = FALSE]
          ELSE Skip(s) /\ UNCHANGED producer
       /\ UNCHANGED <<relayGlobals, app, removing, registry, mSlots, recoveries>>
----------------------------------------------------------------------------
Executor(s) ==
    \/ StartRegister(s) \/ RegisterReturned(s) \/ RegisterFailed(s)
    \/ StartRecover(s) \/ StartHalDied(s) \/ CallReturned(s)
    \/ StartRemove(s) \/ RemoveReturned(s) \/ FinishRemove(s)
    \/ StartConfigured(s) \/ SurfaceCreated(s) \/ StartClosed(s)

App(c) ==
    \/ RegisterCamera(c) \/ Reserve(c) \/ RefuseRegistration(c) \/ ExecuteRegister(c)
    \/ OwnerRemoves(c) \/ ExecuteRemove(c)
    \/ \E ready \in BOOLEAN : SetProducerReady(c, ready)
    \/ ReadyReturned(c)

Service ==
    \/ \E c \in Cameras : App(c)
    \/ \E k \in calls : Accept(k)
    \/ \E a \in accepted : ExecuteEvent(a)
    \/ \E d \in deaths : OnHalDied(d)
    \/ \E r \in scheduled : RecoverHal(r)
    \/ RecoverProceeds
    \/ \E s \in Slots : RecoverSlot(s) \/ Executor(s)

ServiceNext ==
    \/ RelayNext /\ UNCHANGED serviceVars
    \/ Service

ServiceSpec == Init /\ [][ServiceNext]_vars
----------------------------------------------------------------------------
SlotType == [owner : Registration, closing : BOOLEAN, connection : 0 .. MaxLives, event : Nat,
             configuration : 0 .. MaxTokens, configurationClosed : BOOLEAN]
TaskType == [kind : {"none", "register", "recover", "halDied", "remove", "configured", "closed"},
             camera : Registration, event : Nat, connection : 0 .. MaxLives,
             token : 0 .. MaxTokens, round : Nat]
AttemptType == [round : Nat, attempt : 0 .. MaxAttempts - 1]

\* The state of VirtualCameraService.java:44-62 and LifecycleSlot.java:5-9.  A
\* camera whose slot is its own and not closing is in the registry, and one in the
\* registry without such a slot is on its way out of registerCamera (224-231).
ServiceTypeOK ==
    /\ RelayTypeOK
    /\ app \in [Cameras -> {"new", "max", "noSlot", "execute", "registered", "refused", "ready"}]
    /\ removing \in [Cameras -> {"no", "owner", "rejected", "queued"}]
    /\ mCameras \subseteq Cameras
    /\ mSlotByCameraId \in [Cameras -> Slots \cup {None}]
    /\ assigned \in [Cameras -> Slots \cup {None}]
    /\ mSlots \in [Slots -> SlotType]
    /\ accepted \subseteq [call : calls, event : Nat]
    /\ \A s \in Slots : Len(mLifecycle[s]) > 0 => mLifecycle[s] \in Seq(TaskType)
    /\ job \in [Slots -> [task : TaskType,
                          at : {"idle", "register", "isHalUp", "reject", "call", "remove",
                                "release", "create"}]]
    /\ mRecoveryRound \in Nat
    /\ scheduled \subseteq AttemptType
    /\ recovery \in [round : Nat, attempt : 0 .. MaxAttempts - 1,
                     at : {"idle", "isHalUp", "slots"}, slots : SUBSET Slots]
    /\ producer \in [Cameras -> [connection : 0 .. MaxLives, token : 0 .. MaxTokens,
                                 open : BOOLEAN]]
    /\ \A c \in Cameras : (\E s \in Slots : Owns(s, c)) => c \in mCameras
    /\ \A c \in mCameras : app[c] = "noSlot" \/ \E s \in Slots : Owns(s, c)

\* A slot is given to a new camera only after the HAL has let go of the old one
\* (LifecycleSlot.java:3, "A slot remains reserved until its owner's external
\* teardown completes"): the HAL never has a producer that is not the owner.
HalProducerIsOwner ==
    \A s \in Slots : halProducer[s] # None => mSlots[s].owner = halProducer[s]

\* The service is a caller of the relay as RelayJni.tla has it: what concerns a
\* slot reaches the relay from the slot's own thread (VirtualCameraService.java:53
\* and 68-69, one executor per slot), and Java disposes of every callback and death
\* once.  What RelayJni shows of its open caller therefore holds for the service.
CallsRelayInTurn == Spec

Newer(a, b) == a.connection > b.connection \/ (a.connection = b.connection /\ a.token > b.token)

\* A producer is never told of a configuration after a newer one, nor twice, and
\* never that an older one is closed while it draws for a newer one - in spite of
\* callbacks that overtake each other on their way through the relay and the
\* executors (VirtualCameraService.java:93, 99 and 132).
DeliveriesAdvance ==
    [][\A s \in Slots, c \in Cameras :
          producer'[c] # producer[c] /\ Owns(s, c)
              => IF producer'[c].open THEN Newer(producer'[c], producer[c])
                 ELSE job'[s].task.kind = "closed" /\ ~Newer(producer[c], job'[s].task)]_vars

\* Nothing that concerns slot s is under way between the HAL and the producer.
Quiet(s) == mLifecycle[s] = <<>> /\ job[s] = Idle /\ \A k \in calls : k.slot # s

\* No configuration is lost and no close is forgotten, however the callbacks of
\* one slot overtake each other and whatever the executors skip
\* (VirtualCameraService.java:93 and 102, "newer work/removal won"): with nothing
\* under way, a producer draws into the relay's queue of the configuration that
\* the living HAL has announced, and does not draw once the HAL has closed it.
ProducerFollowsConfiguration ==
    \A s \in Slots, c \in Cameras :
        LET last == [connection |-> gConnectionEpoch, token |-> gConfigurations[s].token]
            told == [connection |-> producer[c].connection, token |-> producer[c].token]
        IN Quiet(s) /\ Owns(s, c) /\ gRegistrations[s] = c /\ gHal # 0 /\ gHal = life
              /\ last.token # 0
           => IF gConfigurations[s].closed THEN ~producer[c].open
              ELSE producer[c].open /\ told = last /\ gSlots[s] = last

\* A camera whose descriptor the HAL accepts is only removed by its owner, or
\* its owner's death (VirtualCameraService.java:243, "Valid pending registration
\* stays hidden until the matched HAL accepts its descriptor").
ValidRegistrationStays == \A c \in Valid : removing[c] # "rejected"
=============================================================================
