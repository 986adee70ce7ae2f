------------------------ MODULE CameraService_proofs ------------------------
(***************************************************************************)
(* What TLAPS proves of CameraService, for any number of slots, cameras,   *)
(* HAL processes, tokens and callbacks.                                    *)
(*                                                                         *)
(* The service calls the relay only as RelayJni allows, so the invariants  *)
(* of RelayJni_proofs hold of it, and its own are proved on top of them:   *)
(* the registry and the slots, the tasks and the jobs of the executors,    *)
(* what the HAL has while a camera is removed, the order of events, and    *)
(* where the configuration in force is on its way to the producer.         *)
(***************************************************************************)
EXTENDS CameraService, RelayJni_proofs

Places == {"idle", "register", "isHalUp", "reject", "call", "remove", "release", "create"}

\* ServiceTypeOK without the relay's part, and with the queues as sequences.
ServiceTypes ==
    /\ app \in [Cameras -> {"new", "max", "noSlot", "execute", "registered", "refused", "ready"}]
    /\ removing \in [Cameras -> {"no", "owner", "rejected", "queued"}]
    /\ mCameras \subseteq Cameras
    /\ mSlotByCameraId \in [Cameras -> Slots \cup {None}]
    /\ assigned \in [Cameras -> Slots \cup {None}]
    /\ mSlots \in [Slots -> SlotType]
    /\ accepted \subseteq [call : Calls, event : Nat]
    /\ mLifecycle \in [Slots -> Seq(TaskType)]
    /\ job \in [Slots -> [task : TaskType, at : Places]]
    /\ mRecoveryRound \in Nat
    /\ scheduled \subseteq AttemptType
    /\ recovery \in [round : Nat, attempt : 0 .. MaxAttempts - 1,
                     at : {"idle", "isHalUp", "slots"}, slots : SUBSET Slots]
    /\ producer \in [Cameras -> [connection : 0 .. MaxLives, token : 0 .. MaxTokens,
                                 open : BOOLEAN]]

-----------------------------------------------------------------------------
\* A camera has the slot it was given until it is removed, and no other; one in
\* the registry without a slot is on its way out.
Registry ==
    /\ \A s \in Slots :
          /\ mSlots[s].owner # None => assigned[mSlots[s].owner] = s
          /\ mSlots[s].owner # None /\ ~mSlots[s].closing => mSlots[s].owner \in mCameras
          /\ mSlots[s].closing => mSlots[s].owner # None /\ mSlots[s].owner \notin mCameras
    /\ \A c \in mCameras : assigned[c] # None =>
          /\ assigned[c] \in Slots /\ mSlotByCameraId[c] = assigned[c]
          /\ mSlots[assigned[c]].owner = c
    /\ \A c \in Cameras :
          /\ app[c] \in {"new", "max", "noSlot", "refused"} <=> assigned[c] = None
          /\ assigned[c] = None => mSlotByCameraId[c] = None
          /\ assigned[c] = None /\ c \in mCameras => app[c] = "noSlot"
          /\ removing[c] # "no" => assigned[c] # None /\ c \notin mCameras
          /\ assigned[c] = None => producer[c].connection = 0 /\ producer[c].token = 0

\* What a task at slot s is about.  A camera is removed once.
TaskOK(s, task) ==
    /\ task.kind # "none" /\ task.connection <= gNextConnectionEpoch
    /\ task.kind # "halDied" => task.camera \in Cameras /\ assigned[task.camera] = s
    /\ task.kind = "remove" => task.camera \notin mCameras
    /\ task.kind \in {"configured", "closed"} => task.connection # 0 /\ task.token # 0

KindsAt ==
    [idle |-> {"none"}, register |-> {"register"}, isHalUp |-> {"register"},
     reject |-> {"register"}, call |-> {"recover", "halDied", "closed"},
     remove |-> {"remove"}, release |-> {"remove"}, create |-> {"configured"}]

Tasks ==
    \A s \in Slots :
        /\ \A i \in DOMAIN mLifecycle[s] : TaskOK(s, mLifecycle[s][i])
        /\ job[s].task.kind \in KindsAt[job[s].at]
        /\ job[s].at # "idle" => TaskOK(s, job[s].task)

\* While a slot's thread is in one of these methods, its executor is at the task
\* that called it; the registration is that of the slot's owner.
AtRegister(s) == job[s].at = "register" \/ (job[s].at = "call" /\ job[s].task.kind = "recover")

Jobs ==
    /\ \A s \in Slots :
          /\ native[s].method = "registerProducer"
                => AtRegister(s) /\ native[s].camera = job[s].task.camera
          /\ native[s].method = "removeProducer"
                => /\ job[s].at = "remove" /\ native[s].camera = job[s].task.camera
                   /\ native[s].at \in {"hal", "link", "setCallback", "ready", "lock", "rpc"}
          /\ AtRegister(s) => mSlots[s].owner = job[s].task.camera
          /\ job[s].at = "reject" => native[s].method = "none"
    /\ \A t \in Threads : native[t].at = "java" <=> native[t].method = "none"
    /\ \A c \in Cameras : removing[c] = "rejected"
          => job[assigned[c]].at = "reject" /\ job[assigned[c]].task.camera = c

\* A camera is gone from the HAL when its slot is freed.
Removal ==
    \A s \in Slots :
        mSlots[s].owner = job[s].task.camera /\ halProducer[s] # None
            => /\ job[s].at # "release"
               /\ job[s].at = "remove" => native[s].method = "removeProducer"
               /\ job[s].at = "remove" /\ native[s].at = "lock" => life = native[s].h

\* The HAL announces a configuration, or its end, once at a time.
Announced ==
    /\ \A k, m \in calls : k.epoch = m.epoch /\ k.token = m.token => k = m
    /\ \A k \in calls : k.epoch = halCallback => k.token <= halNextToken
    /\ \A s \in Slots : halToken[s] <= halNextToken

\* A callback that has its event number has yet to queue its task.
Accepting ==
    /\ \A a \in accepted : /\ a.call \in calls /\ a.call.at = "accepted"
                            /\ assigned[a.call.registration] = a.call.slot
    /\ \A a, b \in accepted : a.call = b.call => a = b

\* What is known of connections is no newer than they are.
Heard ==
    /\ \A s \in Slots : mSlots[s].connection <= gNextConnectionEpoch
    /\ \A c \in Cameras : producer[c].connection <= gNextConnectionEpoch

ServiceInv ==
    /\ ServiceTypes /\ Registry /\ Tasks /\ Jobs /\ HalProducerIsOwner /\ Removal
    /\ Announced /\ Accepting /\ Heard

-----------------------------------------------------------------------------
\* The slot's newest configuration.
Last(s) == [connection |-> mSlots[s].connection, token |-> mSlots[s].configuration]

\* An event at slot s was accepted when the slot's number became its own.  While
\* it is the newest, the slot still has its configuration, and if that is to be
\* delivered the producer has not heard of it.
EventOK(s, event, camera, conn, token, closed) ==
    /\ 0 < event /\ event <= mSlots[s].event
    /\ event = mSlots[s].event
          => /\ conn = mSlots[s].connection /\ token = mSlots[s].configuration
             /\ ~closed => Newer(Last(s), producer[camera])

Newest(s, task) == task.kind = "configured" /\ task.event = mSlots[s].event
NewestCall(s, a) == a.call.slot = s /\ ~a.call.closed /\ a.event = mSlots[s].event

Events ==
    /\ \A a \in accepted :
          /\ a.call.registration \in Cameras /\ assigned[a.call.registration] = a.call.slot
          /\ EventOK(a.call.slot, a.event, a.call.registration, a.call.epoch, a.call.token,
                     a.call.closed)
    /\ \A s \in Slots :
          /\ \A i \in DOMAIN mLifecycle[s] :
                LET task == mLifecycle[s][i]
                IN task.kind \in {"configured", "closed"}
                     => EventOK(s, task.event, task.camera, task.connection, task.token,
                                task.kind = "closed")
          /\ job[s].at = "create"
                => EventOK(s, job[s].task.event, job[s].task.camera, job[s].task.connection,
                           job[s].task.token, FALSE)

\* The newest configuration is on its way to the producer once.
DeliveredOnce ==
    \A s \in Slots :
        /\ \A a, b \in accepted : NewestCall(s, a) /\ NewestCall(s, b) => a = b
        /\ \A i, j \in DOMAIN mLifecycle[s] :
              Newest(s, mLifecycle[s][i]) /\ Newest(s, mLifecycle[s][j]) => i = j
        /\ \A a \in accepted, i \in DOMAIN mLifecycle[s] :
              ~(NewestCall(s, a) /\ Newest(s, mLifecycle[s][i]))
        /\ job[s].at = "create" /\ Newest(s, job[s].task)
              => /\ \A a \in accepted : ~NewestCall(s, a)
                 /\ \A i \in DOMAIN mLifecycle[s] : ~Newest(s, mLifecycle[s][i])

\* A slot's owner has heard of nothing newer than the slot has accepted.
NoneAhead ==
    \A s \in Slots : mSlots[s].owner # None => ~Newer(producer[mSlots[s].owner], Last(s))

EventInv == Events /\ DeliveredOnce /\ NoneAhead

RelayInv == ConnectionInv /\ QueueInv /\ RegistrationInv

-----------------------------------------------------------------------------
(***************************************************************************)
(* The service is a caller that RelayJni allows for.                       *)
(***************************************************************************)

\* The threads of the service are threads of the relay.
LEMMA OwnThreads ==
    /\ Cameras \subseteq Clients /\ Recovery \in Clients
    /\ Clients \subseteq Threads /\ Slots \subseteq Threads
    /\ \A t \in Clients : t \notin Slots
  BY ServiceAssumption, RelayAssumption DEF Threads, Slots

\* The task at the head of a queue, and the one at work.
LEMMA HeadTask ==
    ASSUME ServiceTypes, Tasks, NEW s \in Slots, mLifecycle[s] # <<>>
    PROVE  /\ Head(mLifecycle[s]) = mLifecycle[s][1] /\ 1 \in DOMAIN mLifecycle[s]
           /\ Head(mLifecycle[s]) \in TaskType
           /\ TaskOK(s, Head(mLifecycle[s]))
<1>1. mLifecycle[s] \in Seq(TaskType)
  BY DEF ServiceTypes
<1>2. 1 \in DOMAIN mLifecycle[s] /\ Head(mLifecycle[s]) = mLifecycle[s][1]
  BY <1>1
<1> QED
  BY <1>1, <1>2 DEF Tasks

LEMMA ExecutorCalls ==
    ASSUME RelayInv, ServiceInv, NEW s \in Slots, Executor(s)
    PROVE  UNCHANGED relayGlobals /\ (SlotCalls(s) \/ Consume(s) \/ UNCHANGED native)
<1>0. ServiceTypes /\ Tasks /\ RelayTypeOK
  BY Zenon DEF ServiceInv, RelayInv, ConnectionInv
<1>1. /\ ServiceTypes /\ Tasks
      /\ gNextConnectionEpoch \in Nat /\ MaxTokens \in Nat
  <2>1. gNextConnectionEpoch \in 0 .. lives /\ lives \in 0 .. MaxLives
    BY <1>0, Zenon DEF RelayTypeOK
  <2> QED
    BY <1>0, <2>1, Bounds
<1>2. UNCHANGED relayGlobals
  BY DEF Executor, StartRegister, RegisterReturned, RegisterFailed, StartRecover, StartHalDied,
         CallReturned, StartRemove, RemoveReturned, FinishRemove, StartConfigured, SurfaceCreated,
         StartClosed
<1> DEFINE task == Head(mLifecycle[s])
<1>3. ASSUME mLifecycle[s] # <<>>
      PROVE  /\ task.kind # "halDied" => task.camera \in Cameras
             /\ task.connection \in 0 .. gNextConnectionEpoch /\ task.token \in 0 .. MaxTokens
             /\ task.kind \in {"configured", "closed"}
                   => task.connection \in 1 .. gNextConnectionEpoch /\ task.token \in 1 .. MaxTokens
  <2>1. task \in TaskType /\ TaskOK(s, task)
    BY <1>1, <1>3, HeadTask
  <2> HIDE DEF task
  <2> QED
    BY <1>1, <2>1 DEF TaskOK, TaskType
<1>4. CASE StartRegister(s) \/ StartRecover(s)
  <2>1. /\ mLifecycle[s] # <<>> /\ task.kind # "halDied"
        /\ UNCHANGED native \/ RegisterProducer(s, s, task.camera)
    BY <1>4 DEF StartRegister, StartRecover, NextTask, Skip
  <2> QED
    BY <1>2, <1>3, <2>1 DEF SlotCalls
<1>5. CASE StartHalDied(s)
  <2>1. mLifecycle[s] # <<>> /\ ReleaseSurfaceOf(s, s, task.connection, 0)
    BY <1>5 DEF StartHalDied, NextTask
  <2> QED
    BY <1>1, <1>2, <1>3, <2>1 DEF SlotCalls
<1>6. CASE StartRemove(s)
  <2>1. mLifecycle[s] # <<>> /\ task.kind # "halDied" /\ RemoveProducer(s, s, task.camera)
    BY <1>6 DEF StartRemove, NextTask
  <2> QED
    BY <1>2, <1>3, <2>1 DEF SlotCalls
<1>7. CASE StartConfigured(s)
  <2>1. /\ mLifecycle[s] # <<>> /\ task.kind = "configured"
        /\ UNCHANGED native \/ CreateSurface(s, s, task.connection, task.token)
    BY <1>7 DEF StartConfigured, NextTask, Skip
  <2> QED
    BY <1>2, <1>3, <2>1 DEF SlotCalls
<1>8. CASE StartClosed(s)
  <2>1. /\ mLifecycle[s] # <<>>
        /\ UNCHANGED native \/ ReleaseSurfaceOf(s, s, task.connection, task.token)
    BY <1>8 DEF StartClosed, NextTask, Skip
  <2> QED
    BY <1>2, <1>3, <2>1 DEF SlotCalls
<1>9. CASE RegisterReturned(s)
  BY <1>2, <1>9 DEF RegisterReturned, SlotCalls
<1>10. CASE RemoveReturned(s)
  <2>1. ReleaseSurfaceOf(s, s, 0, 0)
    BY <1>10 DEF RemoveReturned
  <2> QED
    BY <1>1, <1>2, <2>1 DEF SlotCalls
<1>11. CASE RegisterFailed(s) \/ CallReturned(s) \/ FinishRemove(s) \/ SurfaceCreated(s)
  BY <1>2, <1>11 DEF RegisterFailed, CallReturned, FinishRemove, SurfaceCreated
<1> QED
  BY <1>4, <1>5, <1>6, <1>7, <1>8, <1>9, <1>10, <1>11 DEF Executor

LEMMA AppCalls ==
    ASSUME RelayInv, ServiceInv, NEW c \in Cameras, App(c)
    PROVE  UNCHANGED relayGlobals /\ (ClientCalls(c) \/ Consume(c) \/ UNCHANGED native)
<1>1. /\ ServiceTypes /\ Registry /\ Heard /\ gNextConnectionEpoch \in Nat /\ MaxTokens \in Nat
  BY Bounds DEF ServiceInv, RelayInv, ConnectionInv, RelayTypeOK
<1>2. CASE RegisterCamera(c) \/ Reserve(c) \/ ReadyReturned(c)
  BY <1>2 DEF RegisterCamera, Reserve, ReadyReturned, ClientCalls
<1>3. CASE RefuseRegistration(c) \/ ExecuteRegister(c) \/ OwnerRemoves(c) \/ ExecuteRemove(c)
  BY <1>3
     DEF RefuseRegistration, ExecuteRegister, OwnerRemoves, ExecuteRemove, relayVars, relayGlobals
<1>4. ASSUME NEW ready \in BOOLEAN, SetProducerReady(c, ready)
      PROVE  UNCHANGED relayGlobals /\ ClientCalls(c)
  <2>1. /\ c \in mCameras /\ producer[c].connection # 0 /\ producer[c].token > 0
        /\ app[c] = "registered"
        /\ SetConfigurationReady(c, mSlotByCameraId[c], producer[c].connection,
                                 producer[c].token, ready)
        /\ UNCHANGED relayGlobals
    BY <1>4 DEF SetProducerReady
  <2>2. mSlotByCameraId[c] \in Slots
    BY <1>1, <2>1 DEF Registry
  <2>3. producer[c].connection \in 1 .. gNextConnectionEpoch /\ producer[c].token \in 1 .. MaxTokens
    BY <1>1, <2>1 DEF ServiceTypes, Heard
  <2> QED
    BY <2>1, <2>2, <2>3 DEF ClientCalls
<1> QED
  BY <1>2, <1>3, <1>4 DEF App

LEMMA RecoveryCalls ==
    ASSUME \/ \E r \in scheduled : RecoverHal(r)
           \/ RecoverProceeds
           \/ \E s \in Slots : RecoverSlot(s)
    PROVE  /\ UNCHANGED relayGlobals
           /\ ClientCalls(Recovery) \/ Consume(Recovery) \/ UNCHANGED native
  BY Zenon DEF RecoverHal, RecoverProceeds, RecoverSlot, relayVars, relayGlobals, ClientCalls

\* Java disposes of callbacks and deaths, each once.
LEMMA CallbackDelivers ==
    ASSUME ServiceInv,
           \/ \E k \in calls : Accept(k)
           \/ \E a \in accepted : ExecuteEvent(a)
           \/ \E d \in deaths : OnHalDied(d)
    PROVE  JavaDelivers
<1>1. CASE \E k \in calls : Accept(k)
  BY <1>1, Zenon DEF Accept, JavaDelivers, Delivered, relayRest
<1>2. CASE \E a \in accepted : ExecuteEvent(a)
  <2>1. PICK a \in accepted : ExecuteEvent(a)
    BY <1>2
  <2>2. a.call \in calls /\ a.call.at = "accepted"
    BY DEF ServiceInv, Accepting
  <2> QED
    BY <2>1, <2>2, Zenon DEF ExecuteEvent, JavaDelivers, Delivered, relayRest
<1>3. CASE \E d \in deaths : OnHalDied(d)
  BY <1>3 DEF OnHalDied, JavaDelivers, Delivered
<1> QED
  BY <1>1, <1>2, <1>3

\* Every step of the service is one of the relay with its open caller, or none.
LEMMA ServiceCalls == RelayInv /\ ServiceInv /\ [ServiceNext]_vars => [Next]_relayVars
<1> SUFFICES ASSUME RelayInv, ServiceInv, [ServiceNext]_vars PROVE [Next]_relayVars
  OBVIOUS
<1>1. ASSUME UNCHANGED relayGlobals,
             \/ \E s \in Slots : SlotCalls(s) \/ Consume(s)
             \/ \E t \in Clients : ClientCalls(t) \/ Consume(t)
             \/ UNCHANGED native
      PROVE  [Next]_relayVars
  <2>1. CASE UNCHANGED native
    BY <1>1, <2>1 DEF relayGlobals, relayVars
  <2>2. CASE ~UNCHANGED native
    <3>1. JavaCalls
      BY <1>1, <2>2, OwnThreads DEF relayGlobals, JavaCalls
    <3> QED
      BY <3>1 DEF JavaCalls, AnyJava, Next
  <2> QED
    BY <2>1, <2>2
<1>2. CASE UNCHANGED vars
  BY <1>2 DEF vars
<1>3. CASE RelayNext
  BY <1>3 DEF Next
<1>4. CASE \E c \in Cameras : App(c)
  BY <1>1, <1>4, AppCalls, OwnThreads
<1>5. CASE \/ \E r \in scheduled : RecoverHal(r)
           \/ RecoverProceeds
           \/ \E s \in Slots : RecoverSlot(s)
  BY <1>1, <1>5, RecoveryCalls, OwnThreads
<1>6. CASE \/ \E k \in calls : Accept(k)
           \/ \E a \in accepted : ExecuteEvent(a)
           \/ \E d \in deaths : OnHalDied(d)
  BY <1>6, CallbackDelivers DEF JavaDelivers, AnyJava, Next
<1>7. CASE \E s \in Slots : Executor(s)
  BY <1>1, <1>7, ExecutorCalls
<1> QED
  BY <1>2, <1>3, <1>4, <1>5, <1>6, <1>7 DEF ServiceNext, Service

LEMMA RelayKept == RelayInv /\ [Next]_relayVars => RelayInv'
  BY NextConnection, NextQueue, NextRegistration DEF RelayInv

-----------------------------------------------------------------------------
(***************************************************************************)
(* What the relay's own steps mean to the service.                         *)
(***************************************************************************)

\* The steps of RelayNext, sorted.
LEMMA RelayCases ==
    ASSUME RelayNext
    PROVE  Hal \/ RelayAlone \/ \E t \in Threads : HalStep(t) \/ MethodStep(t)
  BY DEF RelayNext, Relay, RelayAlone, NativeStep, HalStep, MethodStep

\* A call that stands for another differs from it in how far it has come.
LEMMA MovedCall ==
    ASSUME NEW k \in Calls, NEW at \in {"sent", "admitted", "accepted"}
    PROVE  LET m == [k EXCEPT !.at = at]
           IN /\ m \in Calls /\ m.at = at
              /\ m.slot = k.slot /\ m.registration = k.registration /\ m.token = k.token
              /\ m.closed = k.closed /\ m.epoch = k.epoch
  BY DEF Calls

\* Calls are replaced by themselves, or go.
LEMMA AnnouncedCalls ==
    ASSUME Announced, calls \subseteq Calls, NEW k \in calls, Accepted(k) \/ Dropped(k)
    PROVE  /\ \A a, b \in calls' : a.epoch = b.epoch /\ a.token = b.token => a = b
           /\ \A a \in calls' : a.epoch = halCallback => a.token <= halNextToken
<1>1. CASE Dropped(k)
  BY <1>1 DEF Announced, Dropped
<1>2. CASE Accepted(k)
  <2> DEFINE m == [k EXCEPT !.at = "accepted"]
  <2>1. m.epoch = k.epoch /\ m.token = k.token
    BY MovedCall
  <2>2. calls' = (calls \ {k}) \cup {m}
    BY <1>2 DEF Accepted
  <2> HIDE DEF m
  <2> QED
    BY <2>1, <2>2 DEF Announced
<1> QED
  BY <1>1, <1>2

LEMMA HalAnnounced ==
    ASSUME ConnectionInv, Announced, Hal
    PROVE  Announced'
<1>1. /\ GlobalType /\ MaxTokens \in Nat
      /\ calls \subseteq Calls /\ halNextToken \in Nat
      /\ \A k \in calls : k.token \in Nat /\ k.epoch # 0
  BY TypeSplit, Bounds DEF ConnectionInv, GlobalType, Calls
<1>2. CASE HalStart
  BY <1>2 DEF HalStart, Announced
<1>3. CASE HalCrash
  BY <1>1, <1>3 DEF HalCrash, Announced, GlobalType
<1>4. ASSUME NEW s \in Slots, HalConfigure(s)
      PROVE  Announced'
  <2> DEFINE m == Call(s, halNextToken + 1, FALSE)
  <2>1. m.epoch = halCallback /\ m.token = halNextToken + 1
    BY DEF Call
  <2>2. /\ calls' = calls \cup {m} /\ halNextToken' = halNextToken + 1 /\ halCallback' = halCallback
        /\ halToken' = [halToken EXCEPT ![s] = halNextToken + 1]
    BY <1>4 DEF HalConfigure
  <2> HIDE DEF m
  <2>3. \A r \in Slots : halToken'[r] <= halNextToken'
    BY <1>1, <2>2 DEF Announced, GlobalType
  <2>4. \A k \in calls : k.epoch = halCallback => k.token <= halNextToken
    BY DEF Announced
  <2>5. \A k, n \in calls' : k.epoch = n.epoch /\ k.token = n.token => k = n
    BY <1>1, <2>1, <2>2, <2>4 DEF Announced
  <2>6. \A k \in calls' : k.epoch = halCallback' => k.token <= halNextToken'
    BY <1>1, <2>1, <2>2, <2>4
  <2> QED
    BY <2>3, <2>5, <2>6 DEF Announced
<1>5. ASSUME NEW s \in Slots, HalClose(s)
      PROVE  Announced'
  <2> DEFINE m == Call(s, halToken[s], TRUE)
  <2>1. m.epoch = halCallback /\ m.token = halToken[s]
    BY DEF Call
  <2>2. /\ calls' = calls \cup {m} /\ halNextToken' = halNextToken /\ halCallback' = halCallback
        /\ halToken' = [halToken EXCEPT ![s] = 0]
        /\ \A k \in calls : k.epoch = halCallback => k.token # halToken[s]
    BY <1>5 DEF HalClose
  <2> HIDE DEF m
  <2> QED
    BY <1>1, <2>1, <2>2 DEF Announced, GlobalType
<1> QED
  BY <1>2, <1>3, <1>4, <1>5 DEF Hal

LEMMA MethodStepAnnounced ==
    ASSUME ConnectionInv, Announced, NEW t \in Threads, MethodStep(t)
    PROVE  Announced'
<1>1. GlobalType /\ native[t].slot \in Slots
  BY TypeSplit DEF ConnectionInv, NativeType
<1>2. UNCHANGED <<calls, halCallback, halNextToken>>
  BY Zenon DEF MethodStep, MaxCameras, RegisterLock, RegisterRpc, RegisterRestore, RemoveLock, RemoveRpc,
         ReadyLock, ReadyRpc, SurfaceCheck, SurfaceAbandon, SurfaceInstall, ReleaseSurface, hal
<1>3. halToken' = halToken \/ halToken' = [halToken EXCEPT ![native[t].slot] = 0]
  BY Zenon DEF MethodStep, MaxCameras, RegisterLock, RegisterRpc, RegisterRestore, RemoveLock, RemoveRpc,
         ReadyLock, ReadyRpc, SurfaceCheck, SurfaceAbandon, SurfaceInstall, ReleaseSurface, hal
<1>4. \A s \in Slots : halToken'[s] \in {0, halToken[s]}
  BY <1>1, <1>3 DEF GlobalType
<1>5. \A s \in Slots : halToken'[s] <= halNextToken
  BY <1>1, <1>4, Bounds DEF Announced, GlobalType
<1> QED
  BY <1>2, <1>5 DEF Announced

LEMMA AnnouncedNext ==
    ASSUME RelayInv, Announced, [Next]_relayVars
    PROVE  Announced'
<1>1. ConnectionInv /\ calls \subseteq Calls
  BY DEF RelayInv, ConnectionInv, RelayTypeOK
<1>2. CASE UNCHANGED <<calls, hal>>
  BY <1>2 DEF Announced, hal
<1>3. CASE Hal
  BY <1>1, <1>3, HalAnnounced
<1>4. CASE RelayAlone
  <2>1. ASSUME NEW k \in calls, Admit(k), Admissible(k)
        PROVE  Announced'
    <3> DEFINE m == [k EXCEPT !.at = "admitted"]
    <3>1. m.epoch = k.epoch /\ m.token = k.token
      BY <1>1, MovedCall
    <3>2. calls' = (calls \ {k}) \cup {m} /\ UNCHANGED hal
      BY <2>1 DEF Admit
    <3> HIDE DEF m
    <3> QED
      BY <3>1, <3>2 DEF Announced, hal
  <2>2. ASSUME NEW k \in calls, Admit(k), ~Admissible(k)
        PROVE  Announced'
    BY <1>1, <2>2, AnnouncedCalls DEF Admit, Dropped, Announced, hal
  <2> QED
    BY <1>2, <1>4, <2>1, <2>2 DEF RelayAlone, HalDied, DeathReleases, FrameFails
<1>5. CASE JavaDelivers
  BY <1>1, <1>2, <1>5, AnnouncedCalls DEF JavaDelivers, Delivered, Announced, hal
<1>6. ASSUME NEW t \in Threads, HalStep(t)
      PROVE  Announced'
  <2>1. CASE SetCallback(t) /\ life = native[t].h
    <3>1. \A k \in calls : k.epoch # native[t].epoch
      BY <2>1 DEF RelayInv, QueueInv, Unannounced, Starting, SetCallback
    <3> QED
      BY <2>1, <3>1 DEF SetCallback, Announced
  <2>2. CASE ~(SetCallback(t) /\ life = native[t].h)
    BY <1>2, <1>6, <2>2
       DEF HalStep, HalCached, HalAbsent, Connect, Link, SetCallback, ConnectionReady, hal
  <2> QED
    BY <2>1, <2>2
<1>7. CASE JavaCalls \/ UNCHANGED relayVars
  BY <1>2, <1>7 DEF JavaCalls, relayVars
<1> QED
  BY <1>1, <1>3, <1>4, <1>5, <1>6, <1>7, StepCases, MethodStepAnnounced

\* A thread in a native method stays there, or returns from it.
LEMMA RelayThreads ==
    ASSUME ConnectionInv, RelayNext, NEW t \in Threads
    PROVE  \/ native'[t] = native[t]
           \/ native'[t].method = "none" /\ native'[t].at = "java"
           \/ /\ native'[t].method = native[t].method /\ native'[t].camera = native[t].camera
              /\ native'[t].at # "java" /\ native[t].at # "java"
<1>1. CASE Hal \/ RelayAlone
  BY <1>1, Zenon
     DEF Hal, HalStart, HalCrash, HalConfigure, HalClose, RelayAlone, Admit, HalDied, DeathReleases,
         FrameFails
<1>2. ASSUME NEW u \in Threads, HalStep(u)
      PROVE  \/ native'[t] = native[t]
             \/ native'[t].method = "none" /\ native'[t].at = "java"
             \/ /\ native'[t].method = native[t].method /\ native'[t].camera = native[t].camera
                /\ native'[t].at # "java" /\ native[t].at # "java"
  BY <1>2, HalStepMove
<1>3. ASSUME NEW u \in Threads, MethodStep(u)
      PROVE  \/ native'[t] = native[t]
             \/ native'[t].method = "none" /\ native'[t].at = "java"
             \/ /\ native'[t].method = native[t].method /\ native'[t].camera = native[t].camera
                /\ native'[t].at # "java" /\ native[t].at # "java"
  <2>1. native[u].at # "java"
    BY <1>3, Zenon
       DEF MethodStep, MaxCameras, RegisterLock, RegisterRpc, RegisterRestore, RemoveLock, RemoveRpc,
           ReadyLock, ReadyRpc, SurfaceCheck, SurfaceAbandon, SurfaceInstall, ReleaseSurface
  <2> QED
    BY <1>3, <2>1, MethodStepMove
<1> QED
  BY <1>1, <1>2, <1>3, RelayCases

\* A removal that is under way stays with hal() and the HAL.
LEMMA RemovalPlaces ==
    ASSUME ConnectionInv, RelayNext, NEW t \in Threads,
           native[t].method = "removeProducer" =>
               native[t].at \in {"hal", "link", "setCallback", "ready", "lock", "rpc"},
           native'[t].method = "removeProducer"
    PROVE  native'[t].at \in {"hal", "link", "setCallback", "ready", "lock", "rpc"}
<1>1. native \in [Threads -> NativeType]
  BY TypeSplit DEF ConnectionInv
<1>2. CASE native'[t] = native[t]
  BY <1>2
<1>3. ASSUME NEW u \in Threads, HalStep(u)
      PROVE  native'[t].at \in {"hal", "link", "setCallback", "ready", "lock", "rpc"}
  BY <1>2, <1>3, HalStepMove
<1>4. ASSUME NEW u \in Threads, MethodStep(u), native'[t] # native[t]
      PROVE  native'[t].at \in {"hal", "link", "setCallback", "ready", "lock", "rpc"}
  <2>1. u = t /\ native[t].method = "removeProducer"
    BY <1>4, MethodStepMove
  <2>2. RemoveLock(t) \/ RemoveRpc(t) \/ RegisterRestore(t)
    BY <1>4, <2>1, Zenon
       DEF MethodStep, MaxCameras, RegisterLock, RegisterRpc, RegisterRestore, RemoveLock, RemoveRpc,
           ReadyLock, ReadyRpc, SurfaceCheck, SurfaceAbandon, SurfaceInstall, ReleaseSurface
  <2>3. native'[t].at = "rpc" \/ native'[t] = Returned(FALSE) \/ native'[t] = Returned(TRUE)
    <3>1. CASE RemoveLock(t)
      <4>1. \/ native'[t] = Returned(FALSE)
            \/ native'[t] = [native[t] EXCEPT !.at = "rpc", !.epoch = gConnectionEpoch]
        BY <1>1, <3>1, Zenon DEF RemoveLock
      <4>2. [native[t] EXCEPT !.at = "rpc", !.epoch = gConnectionEpoch].at = "rpc"
        BY <1>1 DEF NativeType
      <4> QED
        BY <4>1, <4>2, Zenon
    <3>2. CASE RemoveRpc(t)
      BY <1>1, <3>2 DEF RemoveRpc
    <3>3. CASE RegisterRestore(t)
      BY <1>1, <3>3 DEF RegisterRestore
    <3> QED
      BY <2>2, <3>1, <3>2, <3>3, Zenon
  <2> QED
    BY <2>3 DEF Returned
<1>5. CASE Hal \/ RelayAlone
  BY <1>2, <1>5, Zenon
     DEF Hal, HalStart, HalCrash, HalConfigure, HalClose, RelayAlone, Admit, HalDied, DeathReleases,
         FrameFails
<1> QED
  BY <1>2, <1>3, <1>4, <1>5, RelayCases

\* The HAL gets a producer from the slot's own thread.
LEMMA ProducerMoves ==
    ASSUME ConnectionInv, OwnThread, RelayNext, NEW s \in Slots
    PROVE  \/ halProducer'[s] \in {halProducer[s], None}
           \/ native[s].method = "registerProducer" /\ halProducer'[s] = native[s].camera
<1>1. halProducer \in [Slots -> Registration]
  BY DEF ConnectionInv, RelayTypeOK
<1>2. CASE Hal \/ RelayAlone
  BY <1>2, Zenon
     DEF Hal, HalStart, HalCrash, HalConfigure, HalClose, RelayAlone, Admit, HalDied, DeathReleases,
         FrameFails, hal
<1>3. ASSUME NEW t \in Threads, HalStep(t)
      PROVE  halProducer' = halProducer
  BY <1>3 DEF HalStep, HalCached, HalAbsent, Connect, Link, SetCallback, ConnectionReady, hal
<1>4. ASSUME NEW t \in Threads, MethodStep(t), ~RegisterRpc(t), ~RemoveRpc(t)
      PROVE  halProducer' = halProducer
  BY <1>4, Zenon
     DEF MethodStep, MaxCameras, RegisterLock, RegisterRestore, RemoveLock,
         ReadyLock, ReadyRpc, SurfaceCheck, SurfaceAbandon, SurfaceInstall, ReleaseSurface, hal
<1>5. ASSUME NEW t \in Threads, RegisterRpc(t)
      PROVE  \/ halProducer'[s] \in {halProducer[s], None}
             \/ native[s].method = "registerProducer" /\ halProducer'[s] = native[s].camera
  <2>1. native[t].slot = t /\ t \in Slots
    BY <1>5, RegistrationStepSlot DEF ConnectionInv, RegistrationStep
  <2>2. native[t].method = "registerProducer"
    BY <1>5 DEF RegisterRpc
  <2>3. \/ halProducer' = [halProducer EXCEPT ![native[t].slot] = native[t].camera]
        \/ halProducer' = halProducer
    BY <1>5, Zenon DEF RegisterRpc
  <2> QED
    BY <1>1, <2>1, <2>2, <2>3
<1>6. ASSUME NEW t \in Threads, RemoveRpc(t)
      PROVE  halProducer'[s] \in {halProducer[s], None}
  BY <1>1, <1>6 DEF RemoveRpc
<1> QED
  BY <1>2, <1>3, <1>4, <1>5, <1>6, RelayCases

\* While the HAL has a producer, hal() finds its connection, and the connector
\* of that connection does not take it back.
LEMMA HalWithProducer ==
    ASSUME ConnectionInv, NEW s \in Slots, halProducer[s] # None, NEW t \in Threads, HalStep(t)
    PROVE  /\ UNCHANGED life
           /\ native'[t].at = "lock" => native'[t].h = life
           /\ native'[t].method = "removeProducer" \/ native[t].method # "removeProducer"
<1>1. /\ native \in [Threads -> NativeType] /\ native[t] \in NativeType
      /\ halCallback # 0 /\ life # 0 /\ gHal = life /\ gConnectionEpoch = halCallback
  BY TypeSplit, ProducerOfConnection DEF ConnectionInv
<1>2. UNCHANGED life
  BY DEF HalStep, HalCached, HalAbsent, Connect, Link, SetCallback, ConnectionReady, hal
<1>3. ASSUME AfterHal(t, life)
      PROVE  /\ native'[t].at = "lock" => native'[t].h = life
             /\ native'[t].method = "removeProducer" \/ native[t].method # "removeProducer"
  BY <1>1, <1>3 DEF AfterHal, NativeType, Returned
<1>4. CASE HalCached(t)
  BY <1>1, <1>2, <1>3, <1>4 DEF HalCached
<1>5. ~HalAbsent(t) /\ ~Connect(t)
  BY <1>1, ConnectFresh DEF HalAbsent
<1>6. ~Link(t) /\ ~SetCallback(t)
  BY <1>1, OneConnector, Zenon DEF Link, SetCallback, Connecting, Connector
<1>7. CASE ConnectionReady(t)
  <2>1. Connector(t) /\ native[t].at = "ready"
    BY <1>7, OneConnector DEF ConnectionReady, Connecting
  <2>2. gConnectionEpoch = native[t].epoch /\ native[t].h = life
    BY <1>1, <2>1, TypeSplit DEF Connector, ConnectionInv, GlobalType
  <2> QED
    BY <1>2, <1>3, <1>7, <2>2 DEF ConnectionReady
<1> QED
  BY <1>2, <1>4, <1>5, <1>6, <1>7 DEF HalStep

\* The removal of a producer that the HAL has comes to its end.
LEMMA RemovalReaches ==
    ASSUME ConnectionInv, RegistrationInv, NEW s \in Slots, MethodStep(s),
           native[s].method = "removeProducer",
           native[s].at \in {"hal", "link", "setCallback", "ready", "lock", "rpc"},
           halProducer[s] # None, native[s].camera = halProducer[s],
           native[s].at = "lock" => life = native[s].h,
           halProducer'[s] # None
    PROVE  native'[s].method = "removeProducer" /\ native'[s].at # "lock"
<1>1. /\ native \in [Threads -> NativeType] /\ native[s] \in NativeType /\ s \in Threads
      /\ halCallback # 0 /\ life # 0 /\ gHal = life /\ gConnectionEpoch = halCallback
      /\ native[s].slot = s /\ halProducer \in [Slots -> Registration]
  BY TypeSplit, ProducerOfConnection, Bounds
     DEF ConnectionInv, GlobalType, RegistrationInv, OwnThread
<1>2. RemoveLock(s) \/ RemoveRpc(s)
  BY Zenon DEF MethodStep, MaxCameras, RegisterLock, RegisterRpc, RegisterRestore, RemoveLock, RemoveRpc,
         ReadyLock, ReadyRpc, SurfaceCheck, SurfaceAbandon, SurfaceInstall, ReleaseSurface
<1>3. CASE RemoveLock(s)
  <2>1. gRegistrations[s] = native[s].camera /\ gHal = native[s].h
    BY <1>1, <1>3 DEF RemoveLock, RegistrationInv, HalRegistration, Registering, Removing
  <2>2. native' = [native EXCEPT ![s] = [@ EXCEPT !.at = "rpc", !.epoch = gConnectionEpoch]]
    BY <1>1, <1>3, <2>1 DEF RemoveLock
  <2> QED
    BY <1>1, <2>2 DEF NativeType
<1>4. CASE RemoveRpc(s)
  <2>1. Removing(s) /\ native[s].h = gHal /\ native[s].epoch = gConnectionEpoch
    BY <1>1, <1>4 DEF RemoveRpc, RegistrationInv, HalRegistration, Removing
  <2>2. halProducer' = [halProducer EXCEPT ![s] = None]
    BY <1>1, <1>4, <2>1 DEF RemoveRpc
  <2> QED
    BY <1>1, <2>2
<1> QED
  BY <1>2, <1>3, <1>4

LEMMA RelayRemoval ==
    ASSUME RelayInv, ServiceInv, RelayNext, UNCHANGED serviceVars
    PROVE  Removal'
<1> SUFFICES ASSUME NEW s \in Slots, (mSlots[s].owner = job[s].task.camera)',
                    halProducer'[s] # None
             PROVE  /\ job'[s].at # "release"
                    /\ job'[s].at = "remove" => native'[s].method = "removeProducer"
                    /\ job'[s].at = "remove" /\ native'[s].at = "lock" => life' = native'[s].h
  BY DEF Removal
<1>1. /\ ConnectionInv /\ RegistrationInv /\ Removal /\ Jobs /\ s \in Threads
      /\ HalProducerIsOwner /\ mSlots' = mSlots /\ job' = job
  BY Bounds DEF RelayInv, ServiceInv, serviceVars, lifecycle
<1>2. CASE halProducer[s] = None
  <2>1. native[s].method = "registerProducer"
    BY <1>1, <1>2, ProducerMoves DEF RegistrationInv
  <2> QED
    BY <1>1, <2>1 DEF Jobs, AtRegister
<1>3. CASE halProducer[s] # None
  <2>1. /\ job[s].at # "release"
        /\ job[s].at = "remove" => /\ native[s].method = "removeProducer"
                                   /\ native[s].at = "lock" => life = native[s].h
                                   /\ native[s].camera = halProducer[s]
                                   /\ native[s].at \in {"hal", "link", "setCallback", "ready",
                                                        "lock", "rpc"}
    BY <1>1, <1>3 DEF Removal, Jobs, HalProducerIsOwner
  <2> SUFFICES ASSUME job[s].at = "remove"
               PROVE  /\ native'[s].method = "removeProducer"
                      /\ native'[s].at = "lock" => life' = native'[s].h
    BY <1>1, <2>1
  <2>2. CASE native'[s] = native[s] /\ life' = life
    BY <2>1, <2>2
  <2>3. CASE Hal \/ RelayAlone
    <3>1. life # 0
      BY <1>1, <1>3, ProducerOfConnection
    <3>2. ~HalStart /\ ~HalCrash
      BY <3>1 DEF HalStart, HalCrash
    <3>3. native' = native /\ life' = life
      BY <2>3, <3>2, Zenon
         DEF Hal, HalConfigure, HalClose, RelayAlone, Admit, HalDied, DeathReleases, FrameFails, hal
    <3> QED
      BY <2>2, <3>3
  <2>4. ASSUME NEW t \in Threads, HalStep(t)
        PROVE  /\ native'[s].method = "removeProducer"
               /\ native'[s].at = "lock" => life' = native'[s].h
    BY <1>1, <1>3, <2>1, <2>2, <2>4, HalWithProducer, HalStepMove
  <2>5. ASSUME NEW t \in Threads, MethodStep(t)
        PROVE  /\ native'[s].method = "removeProducer"
               /\ native'[s].at = "lock" => life' = native'[s].h
    <3>1. UNCHANGED life
      BY <2>5, Zenon
         DEF MethodStep, MaxCameras, RegisterLock, RegisterRpc, RegisterRestore, RemoveLock,
             RemoveRpc, ReadyLock, ReadyRpc, SurfaceCheck, SurfaceAbandon, SurfaceInstall,
             ReleaseSurface, hal
    <3>2. t # s => native'[s] = native[s]
      BY <1>1, <2>5, MethodStepMove
    <3>3. CASE t = s
      BY <1>1, <1>3, <2>1, <2>5, <3>3, RemovalReaches
    <3> QED
      BY <2>2, <3>1, <3>2, <3>3
  <2> QED
    BY <2>3, <2>4, <2>5, RelayCases
<1> QED
  BY <1>2, <1>3

\* Connections are only added, and a callback that waits in Java stays.
LEMMA RelayGrows ==
    ASSUME ConnectionInv, RelayNext
    PROVE  /\ gNextConnectionEpoch <= gNextConnectionEpoch'
           /\ \A k \in calls : k.at = "accepted" => k \in calls'
<1>1. gNextConnectionEpoch \in Nat
  BY Numbered DEF ConnectionInv
<1>2. gNextConnectionEpoch' \in {gNextConnectionEpoch, gNextConnectionEpoch + 1}
  <2>1. CASE Hal
    BY <2>1, Zenon DEF Hal, HalStart, HalCrash, HalConfigure, HalClose, connection
  <2>2. CASE RelayAlone
    BY <2>2, Zenon DEF RelayAlone, Admit, HalDied, DeathReleases, FrameFails, connection
  <2>3. ASSUME NEW t \in Threads, HalStep(t)
        PROVE  gNextConnectionEpoch' \in {gNextConnectionEpoch, gNextConnectionEpoch + 1}
    BY <2>3
       DEF HalStep, HalCached, HalAbsent, Connect, Link, SetCallback, ConnectionReady, ConnectFails,
           connection
  <2>4. ASSUME NEW t \in Threads, MethodStep(t)
        PROVE  gNextConnectionEpoch' = gNextConnectionEpoch
    BY <2>4, Zenon
       DEF MethodStep, MaxCameras, RegisterLock, RegisterRpc, RegisterRestore, RemoveLock,
           RemoveRpc, ReadyLock, ReadyRpc, SurfaceCheck, SurfaceAbandon, SurfaceInstall,
           ReleaseSurface, connection
  <2> QED
    BY <2>1, <2>2, <2>3, <2>4, RelayCases
<1>3. CASE Hal \/ RelayAlone
  <2>1. \A k \in calls : k.at = "accepted" => k \in calls'
    BY <1>3, Zenon
       DEF Hal, HalStart, HalCrash, HalConfigure, HalClose, RelayAlone, Admit, HalDied,
           DeathReleases, FrameFails
  <2> QED
    BY <1>1, <1>2, <2>1
<1>4. ASSUME NEW t \in Threads, HalStep(t) \/ MethodStep(t)
      PROVE  calls' = calls
  BY <1>4, Zenon
     DEF HalStep, HalCached, HalAbsent, Connect, Link, SetCallback, ConnectionReady, MethodStep,
         MaxCameras, RegisterLock, RegisterRpc, RegisterRestore, RemoveLock, RemoveRpc, ReadyLock,
         ReadyRpc, SurfaceCheck, SurfaceAbandon, SurfaceInstall, ReleaseSurface
<1> QED
  BY <1>1, <1>2, <1>3, <1>4, RelayCases

\* The service's variables one by one.
LEMMA UnchangedService ==
    ASSUME UNCHANGED serviceVars
    PROVE  UNCHANGED <<app, removing, mCameras, mSlotByCameraId, assigned, mSlots, accepted,
                       mLifecycle, job, mRecoveryRound, scheduled, recovery, producer>>
  BY DEF serviceVars, registry, lifecycle, queued, recoveries

LEMMA RelayService ==
    ASSUME RelayInv, ServiceInv, RelayNext, UNCHANGED serviceVars
    PROVE  ServiceInv'
<1>1. /\ UNCHANGED <<app, removing, mCameras, mSlotByCameraId, assigned, mSlots, accepted,
                     mLifecycle, job, mRecoveryRound, scheduled, recovery, producer>>
      /\ ConnectionInv /\ RegistrationInv
      /\ ServiceTypes /\ Registry /\ Tasks /\ Jobs /\ HalProducerIsOwner /\ Announced /\ Accepting
      /\ Heard
  BY UnchangedService DEF RelayInv, ServiceInv
<1>2. /\ gNextConnectionEpoch <= gNextConnectionEpoch'
      /\ \A k \in calls : k.at = "accepted" => k \in calls'
      /\ gNextConnectionEpoch \in Nat /\ gNextConnectionEpoch' \in Nat
      /\ MaxLives \in Nat
  <2>1. RelayTypeOK /\ RelayTypeOK'
    BY <1>1, NextType DEF ConnectionInv, Next
  <2> QED
    BY <1>1, <2>1, RelayGrows, Bounds DEF RelayTypeOK
<1>3. ServiceTypes' /\ Registry'
  BY <1>1 DEF ServiceTypes, Registry
<1>4. Heard'
  BY <1>1, <1>2 DEF Heard, ServiceTypes, SlotType
<1>5. Tasks'
  <2>1. ASSUME NEW s \in Slots, NEW task \in TaskType, TaskOK(s, task)
        PROVE  TaskOK(s, task)'
    BY <1>1, <1>2, <2>1 DEF TaskOK, TaskType
  <2>2. \A s \in Slots : /\ job[s].task \in TaskType
                         /\ \A i \in DOMAIN mLifecycle[s] : mLifecycle[s][i] \in TaskType
    BY <1>1 DEF ServiceTypes
  <2>3. \A s \in Slots : \A i \in DOMAIN mLifecycle[s] : TaskOK(s, mLifecycle[s][i])'
    BY <1>1, <2>1, <2>2 DEF Tasks
  <2>4. \A s \in Slots : job[s].at # "idle" => TaskOK(s, job[s].task)'
    BY <1>1, <2>1, <2>2 DEF Tasks
  <2> QED
    BY <1>1, <2>3, <2>4 DEF Tasks
<1>6. Jobs'
  <2>1. \A t \in Threads :
            \/ native'[t] = native[t]
            \/ native'[t].method = "none" /\ native'[t].at = "java"
            \/ /\ native'[t].method = native[t].method /\ native'[t].camera = native[t].camera
               /\ native'[t].at # "java" /\ native[t].at # "java"
    BY <1>1, RelayThreads
  <2>2. \A s \in Slots :
            native'[s].method = "removeProducer"
                => native'[s].at \in {"hal", "link", "setCallback", "ready", "lock", "rpc"}
    BY <1>1, RemovalPlaces, Bounds DEF Jobs
  <2>3. \A s \in Slots : s \in Threads /\ (AtRegister(s)' <=> AtRegister(s))
    BY <1>1, Bounds, Zenon DEF AtRegister
  <2> QED
    BY <1>1, <2>1, <2>2, <2>3 DEF Jobs
<1>7. HalProducerIsOwner'
  BY <1>1, ProducerMoves DEF RegistrationInv, HalProducerIsOwner, Jobs
<1>8. Accepting'
  BY <1>1, <1>2 DEF Accepting
<1>9. Removal'
  BY RelayRemoval
<1>10. Announced'
  BY <1>1, AnnouncedNext DEF Next
<1> QED
  BY <1>3, <1>4, <1>5, <1>6, <1>7, <1>8, <1>9, <1>10 DEF ServiceInv

-----------------------------------------------------------------------------
(***************************************************************************)
(* Types of the service's own steps.                                       *)
(***************************************************************************)

Kinds == {"none", "register", "recover", "halDied", "remove", "configured", "closed"}

LEMMA CameraTask ==
    ASSUME NEW kind \in Kinds, NEW c \in Registration
    PROVE  /\ Task(kind, c) \in TaskType
           /\ Task(kind, c).kind = kind /\ Task(kind, c).camera = c
           /\ Task(kind, c).connection = 0 /\ Task(kind, c).token = 0 /\ Task(kind, c).event = 0
  BY Bounds DEF Task, TaskType, Kinds

LEMMA DiedTask ==
    ASSUME NEW conn \in 0 .. MaxLives
    PROVE  LET t == [Task("halDied", None) EXCEPT !.connection = conn]
           IN /\ t \in TaskType /\ t.kind = "halDied" /\ t.connection = conn
  BY Bounds DEF Task, TaskType, Registration

LEMMA RecoverTask ==
    ASSUME NEW c \in Cameras, NEW round \in Nat
    PROVE  LET t == [Task("recover", c) EXCEPT !.round = round]
           IN /\ t \in TaskType /\ t.kind = "recover" /\ t.camera = c /\ t.connection = 0
  BY Bounds DEF Task, TaskType, Registration

LEMMA IdleType ==
    /\ Idle.at = "idle" /\ Idle.task = NoTask /\ NoTask.kind = "none" /\ NoTask.camera = None
    /\ Idle \in [task : TaskType, at : Places] /\ NoTask \in TaskType
<1>1. NoTask.kind = "none" /\ NoTask.camera = None /\ NoTask \in TaskType
  BY Bounds DEF NoTask, Task, TaskType, Registration
<1> QED
  BY <1>1 DEF Idle, Places

\* A slot's queue, one task longer.
LEMMA Executed ==
    ASSUME mLifecycle \in [Slots -> Seq(TaskType)], NEW s \in Slots, NEW task \in TaskType,
           Execute(s, task)
    PROVE  /\ mLifecycle' \in [Slots -> Seq(TaskType)]
           /\ \A r \in Slots \ {s} : mLifecycle'[r] = mLifecycle[r]
           /\ DOMAIN mLifecycle'[s] = DOMAIN mLifecycle[s] \cup {Len(mLifecycle[s]) + 1}
           /\ Len(mLifecycle[s]) + 1 \notin DOMAIN mLifecycle[s]
           /\ \A i \in DOMAIN mLifecycle[s] : mLifecycle'[s][i] = mLifecycle[s][i]
           /\ mLifecycle'[s][Len(mLifecycle[s]) + 1] = task
<1>1. mLifecycle' = [mLifecycle EXCEPT ![s] = Append(mLifecycle[s], task)]
  BY DEF Execute
<1>2. mLifecycle'[s] = Append(mLifecycle[s], task) /\ mLifecycle[s] \in Seq(TaskType)
  BY <1>1
<1>3. /\ DOMAIN mLifecycle[s] = 1 .. Len(mLifecycle[s]) /\ Len(mLifecycle[s]) \in Nat
      /\ DOMAIN mLifecycle'[s] = 1 .. Len(mLifecycle[s]) + 1
  BY <1>2
<1>4. /\ DOMAIN mLifecycle'[s] = DOMAIN mLifecycle[s] \cup {Len(mLifecycle[s]) + 1}
      /\ Len(mLifecycle[s]) + 1 \notin DOMAIN mLifecycle[s]
  BY <1>3
<1>5. /\ \A i \in DOMAIN mLifecycle[s] : mLifecycle'[s][i] = mLifecycle[s][i]
      /\ mLifecycle'[s][Len(mLifecycle[s]) + 1] = task
  BY <1>2, <1>3
<1> QED
  BY <1>1, <1>4, <1>5

\* A slot's queue without its head.
LEMMA HeadGone ==
    ASSUME mLifecycle \in [Slots -> Seq(TaskType)], NEW s \in Slots, mLifecycle[s] # <<>>,
           mLifecycle' = [mLifecycle EXCEPT ![s] = Tail(@)]
    PROVE  /\ mLifecycle' \in [Slots -> Seq(TaskType)]
           /\ \A r \in Slots \ {s} : mLifecycle'[r] = mLifecycle[r]
           /\ \A i \in DOMAIN mLifecycle'[s] :
                  /\ i \in Nat /\ i + 1 # 1 /\ i + 1 \in DOMAIN mLifecycle[s]
                  /\ mLifecycle'[s][i] = mLifecycle[s][i + 1]
<1>1. mLifecycle[s] \in Seq(TaskType) /\ mLifecycle'[s] = Tail(mLifecycle[s])
  OBVIOUS
<1>2. \A i \in DOMAIN mLifecycle'[s] :
          /\ i \in Nat /\ i + 1 # 1 /\ i + 1 \in DOMAIN mLifecycle[s]
          /\ mLifecycle'[s][i] = mLifecycle[s][i + 1]
  BY <1>1
<1>3. Tail(mLifecycle[s]) \in Seq(TaskType)
  BY <1>1
<1> QED
  BY <1>2, <1>3

\* An executor takes the task at the head, or drops it.
LEMMA TakeTypes ==
    ASSUME ServiceTypes, NEW s \in Slots, mLifecycle[s] # <<>>, NEW at \in Places,
           Take(s, at) \/ (Skip(s) /\ UNCHANGED job)
    PROVE  /\ mLifecycle' \in [Slots -> Seq(TaskType)]
           /\ job' \in [Slots -> [task : TaskType, at : Places]]
           /\ accepted' = accepted
<1>1. mLifecycle' \in [Slots -> Seq(TaskType)]
  BY HeadGone, Zenon DEF ServiceTypes, Take, Skip
<1>2. Head(mLifecycle[s]) \in TaskType
  BY DEF ServiceTypes
<1>3. job' \in [Slots -> [task : TaskType, at : Places]]
  <2>1. CASE job' = job
    BY <2>1 DEF ServiceTypes
  <2>2. CASE job' = [job EXCEPT ![s] = [task |-> Head(mLifecycle[s]), at |-> at]]
    <3>1. [task |-> Head(mLifecycle[s]), at |-> at] \in [task : TaskType, at : Places]
      BY <1>2
    <3>2. job \in [Slots -> [task : TaskType, at : Places]]
      BY DEF ServiceTypes
    <3> QED
      BY <2>2, <3>1, <3>2
  <2> QED
    BY <2>1, <2>2 DEF Take
<1> QED
  BY <1>1, <1>3 DEF Take, Skip

LEMMA SlotUpdates ==
    ASSUME NEW slot \in SlotType, NEW c \in Registration
    PROVE  /\ [slot EXCEPT !.owner = c] \in SlotType
           /\ [slot EXCEPT !.owner = c, !.closing = FALSE] \in SlotType
           /\ [slot EXCEPT !.closing = TRUE, !.configurationClosed = TRUE, !.event = @ + 1]
                  \in SlotType
<1>1. slot.event + 1 \in Nat /\ TRUE \in BOOLEAN /\ FALSE \in BOOLEAN
  BY DEF SlotType
<1>2. [slot EXCEPT !.owner = c] \in SlotType
  BY DEF SlotType
<1>3. [slot EXCEPT !.owner = c, !.closing = FALSE] \in SlotType
  BY <1>1, Zenon DEF SlotType
<1>4. [slot EXCEPT !.closing = TRUE, !.configurationClosed = TRUE, !.event = @ + 1] \in SlotType
  BY <1>1, Zenon DEF SlotType
<1> QED
  BY <1>2, <1>3, <1>4

\* What the beginning of a removal leaves in the slot.
LEMMA SlotClosing ==
    ASSUME mSlots \in [Slots -> SlotType], NEW s \in Slots, BeginClose(s)
    PROVE  /\ mSlots' \in [Slots -> SlotType]
           /\ \A r \in Slots \ {s} : mSlots'[r] = mSlots[r]
           /\ mSlots'[s].owner = mSlots[s].owner /\ mSlots'[s].closing
           /\ mSlots'[s].connection = mSlots[s].connection
           /\ mSlots'[s].configuration = mSlots[s].configuration
           /\ mSlots'[s].event = mSlots[s].event + 1
<1> DEFINE slot == [mSlots[s] EXCEPT !.closing = TRUE, !.configurationClosed = TRUE,
                                     !.event = mSlots[s].event + 1]
<1>1. mSlots' = [mSlots EXCEPT ![s] = slot]
  BY DEF BeginClose
<1>2. slot \in SlotType
  BY SlotUpdates, Bounds, Zenon DEF Registration
<1>3. /\ slot.owner = mSlots[s].owner /\ slot.closing
      /\ slot.connection = mSlots[s].connection
      /\ slot.configuration = mSlots[s].configuration
      /\ slot.event = mSlots[s].event + 1
  BY DEF SlotType
<1> HIDE DEF slot
<1> QED
  BY <1>1, <1>2, <1>3

\* What an accepted callback leaves in the slot.
LEMMA SlotAccepting ==
    ASSUME mSlots \in [Slots -> SlotType], NEW k \in Calls,
           mSlots' = [mSlots EXCEPT ![k.slot] =
                      [@ EXCEPT !.connection = k.epoch, !.configuration = k.token,
                                !.configurationClosed = k.closed,
                                !.event = mSlots[k.slot].event + 1]]
    PROVE  /\ mSlots' \in [Slots -> SlotType] /\ k.slot \in Slots
           /\ \A r \in Slots \ {k.slot} : mSlots'[r] = mSlots[r]
           /\ mSlots'[k.slot].owner = mSlots[k.slot].owner
           /\ mSlots'[k.slot].closing = mSlots[k.slot].closing
           /\ mSlots'[k.slot].connection = k.epoch
           /\ mSlots'[k.slot].configuration = k.token
           /\ mSlots'[k.slot].event = mSlots[k.slot].event + 1
<1> DEFINE s == k.slot
           slot == [mSlots[s] EXCEPT !.connection = k.epoch, !.configuration = k.token,
                                     !.configurationClosed = k.closed,
                                     !.event = mSlots[s].event + 1]
<1>1. s \in Slots /\ mSlots[s] \in SlotType
  BY DEF Calls
<1>2. mSlots' = [mSlots EXCEPT ![s] = slot]
  OBVIOUS
<1>3. slot \in SlotType
  <2>1. /\ k.epoch \in 0 .. MaxLives /\ k.token \in 0 .. MaxTokens /\ k.closed \in BOOLEAN
        /\ mSlots[s].event + 1 \in Nat
    BY <1>1, Bounds DEF Calls, SlotType
  <2> QED
    BY <1>1, <2>1, Zenon DEF SlotType
<1>4. /\ slot.owner = mSlots[s].owner /\ slot.closing = mSlots[s].closing
      /\ slot.connection = k.epoch /\ slot.configuration = k.token
      /\ slot.event = mSlots[s].event + 1
  BY <1>1 DEF SlotType
<1> HIDE DEF slot
<1> QED
  BY <1>1, <1>2, <1>3, <1>4

LEMMA BeginRemoveTypes ==
    ASSUME ServiceTypes, NEW c \in Cameras, NEW behalf \in {"owner", "rejected"},
           BeginRemove(c, behalf)
    PROVE  /\ removing' \in [Cameras -> {"no", "owner", "rejected", "queued"}]
           /\ mCameras' \subseteq Cameras
           /\ mSlotByCameraId' \in [Cameras -> Slots \cup {None}]
           /\ assigned' = assigned
           /\ mSlots' \in [Slots -> SlotType]
<1>1. mSlotByCameraId[c] \in Slots
  BY DEF BeginRemove, ServiceTypes
<1>2. mSlots' \in [Slots -> SlotType]
  BY <1>1, SlotClosing DEF BeginRemove, ServiceTypes
<1> QED
  BY <1>2 DEF BeginRemove, ServiceTypes

LEMMA AppTypes ==
    ASSUME ServiceTypes, Registry, NEW c \in Cameras, App(c)
    PROVE  ServiceTypes'
<1>1. CASE RegisterCamera(c) \/ ReadyReturned(c) \/ \E ready \in BOOLEAN : SetProducerReady(c, ready)
  <2>1. /\ UNCHANGED <<removing, mCameras, mSlotByCameraId, assigned, mSlots, accepted, mLifecycle,
                       job, mRecoveryRound, scheduled, recovery, producer>>
        /\ \E a \in {"max", "registered", "ready"} : app' = [app EXCEPT ![c] = a]
    BY <1>1 DEF RegisterCamera, ReadyReturned, SetProducerReady, registry, lifecycle, queued,
                recoveries
  <2> QED
    BY <2>1 DEF ServiceTypes
<1>2. CASE Reserve(c)
  <2>1. /\ UNCHANGED <<removing, accepted, mLifecycle, job, mRecoveryRound, scheduled, recovery,
                       producer>>
        /\ \/ /\ app' = [app EXCEPT ![c] = "refused"]
              /\ UNCHANGED <<mCameras, mSlotByCameraId, assigned, mSlots>>
           \/ /\ app' = [app EXCEPT ![c] = "noSlot"]
              /\ mCameras' = mCameras \cup {c}
              /\ UNCHANGED <<mSlotByCameraId, assigned, mSlots>>
           \/ \E s \in Slots :
                 /\ app' = [app EXCEPT ![c] = "execute"]
                 /\ mCameras' = mCameras \cup {c}
                 /\ mSlotByCameraId' = [mSlotByCameraId EXCEPT ![c] = s]
                 /\ assigned' = [assigned EXCEPT ![c] = s]
                 /\ mSlots' = [mSlots EXCEPT ![s].owner = c]
    BY <1>2 DEF Reserve, FreeSlots, registry, lifecycle, queued, recoveries
  <2>2. mSlots' \in [Slots -> SlotType]
    <3>1. c \in Registration /\ mSlots \in [Slots -> SlotType]
      BY DEF Registration, ServiceTypes
    <3>2. \A s \in Slots : [mSlots[s] EXCEPT !.owner = c] \in SlotType
      BY <3>1, SlotUpdates, Zenon
    <3> QED
      BY <2>1, <3>1, <3>2
  <2>3. app' \in [Cameras -> {"new", "max", "noSlot", "execute", "registered", "refused", "ready"}]
    BY <2>1, Zenon DEF ServiceTypes
  <2>4. /\ mCameras' \subseteq Cameras
        /\ mSlotByCameraId' \in [Cameras -> Slots \cup {None}]
        /\ assigned' \in [Cameras -> Slots \cup {None}]
    <3>1. /\ mCameras \subseteq Cameras
          /\ mSlotByCameraId \in [Cameras -> Slots \cup {None}]
          /\ assigned \in [Cameras -> Slots \cup {None}]
      BY DEF ServiceTypes
    <3> QED
      BY <2>1, <3>1
  <2> QED
    BY <2>1, <2>2, <2>3, <2>4 DEF ServiceTypes
<1>3. CASE ExecuteRegister(c)
  <2>1. assigned[c] \in Slots
    <3>1. app[c] = "execute"
      BY <1>3 DEF ExecuteRegister
    <3>2. app[c] \in {"new", "max", "noSlot", "refused"} <=> assigned[c] = None
      BY DEF Registry
    <3>3. assigned[c] \in Slots \cup {None}
      BY DEF ServiceTypes
    <3> QED
      BY <3>1, <3>2, <3>3
  <2>2. mLifecycle' \in [Slots -> Seq(TaskType)]
    <3>1. Task("register", c) \in TaskType
      BY CameraTask DEF Kinds, Registration
    <3> QED
      BY <1>3, <2>1, <3>1, Executed DEF ExecuteRegister, ServiceTypes
  <2>3. /\ UNCHANGED <<removing, mCameras, mSlotByCameraId, assigned, mSlots, accepted,
                       job, mRecoveryRound, scheduled, recovery, producer>>
        /\ app' = [app EXCEPT ![c] = "registered"]
    BY <1>3 DEF ExecuteRegister, registry, recoveries
  <2> QED
    BY <2>2, <2>3 DEF ServiceTypes
<1>4. CASE OwnerRemoves(c)
  <2>1. UNCHANGED <<app, accepted, mLifecycle, job, mRecoveryRound, scheduled, recovery, producer>>
    BY <1>4 DEF OwnerRemoves, lifecycle, queued, recoveries
  <2>2. CASE BeginRemove(c, "owner")
    BY <2>1, <2>2, BeginRemoveTypes DEF ServiceTypes
  <2>3. CASE RemoveUnslotted(c) /\ UNCHANGED <<mSlots, removing>>
    BY <2>1, <2>3 DEF RemoveUnslotted, ServiceTypes
  <2> QED
    BY <1>4, <2>2, <2>3 DEF OwnerRemoves
<1>5. CASE ExecuteRemove(c)
  <2>1. assigned[c] \in Slots
    BY <1>5 DEF ExecuteRemove, Registry, ServiceTypes
  <2>2. mLifecycle' \in [Slots -> Seq(TaskType)]
    <3>1. Task("remove", c) \in TaskType
      BY CameraTask DEF Kinds, Registration
    <3> QED
      BY <1>5, <2>1, <3>1, Executed DEF ExecuteRemove, ServiceTypes
  <2>3. /\ UNCHANGED <<app, mCameras, mSlotByCameraId, assigned, mSlots, accepted,
                       mRecoveryRound, scheduled, recovery, producer>>
        /\ removing' = [removing EXCEPT ![c] = "queued"]
        /\ job' = job \/ job' = [job EXCEPT ![assigned[c]] = Idle]
    BY <1>5 DEF ExecuteRemove, registry, recoveries
  <2>4. job' \in [Slots -> [task : TaskType, at : Places]]
    BY <2>3, IdleType, Zenon DEF ServiceTypes
  <2> QED
    BY <2>2, <2>3, <2>4 DEF ServiceTypes
<1>6. CASE RefuseRegistration(c)
  <2>1. /\ UNCHANGED <<removing, mSlotByCameraId, assigned, mSlots, accepted, mLifecycle, job,
                       mRecoveryRound, scheduled, recovery, producer>>
        /\ app' = [app EXCEPT ![c] = "refused"] /\ mCameras' = mCameras \ {c}
    BY <1>6 DEF RefuseRegistration, RemoveUnslotted, lifecycle, queued, recoveries
  <2> QED
    BY <2>1 DEF ServiceTypes
<1> QED
  BY <1>1, <1>2, <1>3, <1>4, <1>5, <1>6 DEF App

LEMMA CallbackTypes ==
    ASSUME ServiceTypes, calls \subseteq Calls, NEW k \in calls, Accept(k)
    PROVE  ServiceTypes'
<1>1. k \in Calls
  OBVIOUS
<1>2. mSlots' \in [Slots -> SlotType]
  <2>1. CASE mSlots' = mSlots
    BY <2>1 DEF ServiceTypes
  <2>2. CASE mSlots' # mSlots
    BY <1>1, <2>2, SlotAccepting, Zenon DEF ServiceTypes, Accept
  <2> QED
    BY <2>1, <2>2
<1>3. accepted' \subseteq [call : Calls, event : Nat]
  <2>1. [k EXCEPT !.at = "accepted"] \in Calls
    BY <1>1, MovedCall, Zenon
  <2>2. mSlots[k.slot].event + 1 \in Nat
    BY <1>1 DEF ServiceTypes, SlotType, Calls
  <2> DEFINE a == [call |-> [k EXCEPT !.at = "accepted"], event |-> mSlots[k.slot].event + 1]
  <2>3. a \in [call : Calls, event : Nat]
    BY <2>1, <2>2
  <2>4. accepted' = accepted \cup {a} \/ accepted' = accepted
    BY DEF Accept
  <2> HIDE DEF a
  <2> QED
    BY <2>3, <2>4 DEF ServiceTypes
<1>4. UNCHANGED <<app, removing, mCameras, mSlotByCameraId, assigned, mLifecycle, job,
                  mRecoveryRound, scheduled, recovery, producer>>
  BY DEF Accept, registry, recoveries
<1> QED
  BY <1>2, <1>3, <1>4 DEF ServiceTypes

LEMMA EventTask ==
    ASSUME NEW a \in [call : Calls, event : Nat]
    PROVE  LET kind == IF a.call.closed THEN "closed" ELSE "configured"
               t == [Task(kind, a.call.registration) EXCEPT
                         !.event = a.event, !.connection = a.call.epoch, !.token = a.call.token]
           IN /\ t \in TaskType /\ t.kind = kind /\ t.camera = a.call.registration
              /\ t.event = a.event /\ t.connection = a.call.epoch /\ t.token = a.call.token
              /\ a.call.slot \in Slots /\ a.call.registration \in Cameras
              /\ t.connection # 0 /\ t.token # 0
<1>1. /\ a.call.slot \in Slots /\ a.call.registration \in Registration /\ a.event \in Nat
      /\ a.call.registration \in Cameras
      /\ a.call.epoch \in 0 .. MaxLives /\ a.call.token \in 0 .. MaxTokens
      /\ a.call.epoch # 0 /\ a.call.token # 0
  BY Bounds DEF Calls, Registration
<1> DEFINE kind == IF a.call.closed THEN "closed" ELSE "configured"
<1>2. kind \in Kinds
  BY DEF Kinds
<1> HIDE DEF kind
<1>3. LET t == [Task(kind, a.call.registration) EXCEPT
                    !.event = a.event, !.connection = a.call.epoch, !.token = a.call.token]
      IN /\ t \in TaskType /\ t.kind = kind /\ t.camera = a.call.registration
         /\ t.event = a.event /\ t.connection = a.call.epoch /\ t.token = a.call.token
  BY <1>1, <1>2, Bounds, Zenon DEF Task, TaskType, Kinds
<1> QED
  BY <1>1, <1>3 DEF kind

LEMMA EventTypes ==
    ASSUME ServiceTypes, NEW a \in accepted, ExecuteEvent(a)
    PROVE  ServiceTypes'
<1>1. a \in [call : Calls, event : Nat]
  BY DEF ServiceTypes
<1>2. mLifecycle' \in [Slots -> Seq(TaskType)]
  BY <1>1, EventTask, Executed, Zenon DEF ExecuteEvent, ServiceTypes
<1>3. /\ UNCHANGED <<app, removing, mCameras, mSlotByCameraId, assigned, mSlots, job,
                     mRecoveryRound, scheduled, recovery, producer>>
      /\ accepted' \subseteq accepted
  BY DEF ExecuteEvent, registry, recoveries
<1> QED
  BY <1>2, <1>3 DEF ServiceTypes

LEMMA DeathTypes ==
    ASSUME ServiceTypes, RelayTypeOK, NEW d \in deaths, OnHalDied(d)
    PROVE  ServiceTypes'
<1> DEFINE task == [Task("halDied", None) EXCEPT !.connection = d.epoch]
<1>1. task \in TaskType
  <2>1. d.epoch \in 0 .. MaxLives
    BY Bounds DEF RelayTypeOK
  <2> QED
    BY <2>1, DiedTask
<1>2. mLifecycle' = [s \in Slots |-> Append(mLifecycle[s], task)]
  BY DEF OnHalDied
<1> HIDE DEF task
<1>3. mLifecycle' \in [Slots -> Seq(TaskType)]
  BY <1>1, <1>2 DEF ServiceTypes
<1>4. /\ UNCHANGED <<app, removing, mCameras, mSlotByCameraId, assigned, mSlots, accepted, job,
                     recovery, producer>>
      /\ StartRound
  BY DEF OnHalDied, registry
<1>5. mRecoveryRound' \in Nat /\ scheduled' \subseteq AttemptType
  BY <1>4, ServiceAssumption DEF StartRound, ServiceTypes, AttemptType
<1> QED
  BY <1>3, <1>4, <1>5 DEF ServiceTypes

LEMMA RecoveryTypes ==
    ASSUME ServiceTypes,
           \/ \E r \in scheduled : RecoverHal(r)
           \/ RecoverProceeds
           \/ \E s \in Slots : RecoverSlot(s)
    PROVE  ServiceTypes'
<1> DEFINE R == [round : Nat, attempt : 0 .. MaxAttempts - 1,
                 at : {"idle", "isHalUp", "slots"}, slots : SUBSET Slots]
<1>1. UNCHANGED <<app, removing, mCameras, mSlotByCameraId, assigned, mSlots, accepted, job,
                  mRecoveryRound, producer>>
  BY Zenon DEF RecoverHal, RecoverProceeds, RecoverSlot, registry, lifecycle, queued
<1>2. MaxAttempts \in Nat /\ 0 \in 0 .. MaxAttempts - 1 /\ NoAttempt \in R
  BY ServiceAssumption DEF NoAttempt
<1>3. ASSUME NEW r \in scheduled, RecoverHal(r)
      PROVE  /\ mLifecycle' = mLifecycle /\ scheduled' \subseteq AttemptType /\ recovery' \in R
  <2>1. r.round \in Nat /\ r.attempt \in 0 .. MaxAttempts - 1
    BY DEF ServiceTypes, AttemptType
  <2> DEFINE x == [round |-> r.round, attempt |-> r.attempt, at |-> "isHalUp", slots |-> {}]
  <2>2. x \in R
    BY <2>1
  <2>3. recovery' = x \/ recovery' = recovery
    BY <1>3 DEF RecoverHal
  <2> HIDE DEF x
  <2> QED
    BY <1>3, <2>2, <2>3 DEF RecoverHal, ServiceTypes, lifecycle, queued
<1>4. CASE RecoverProceeds
  <2>1. recovery \in R /\ scheduled \subseteq AttemptType
    BY DEF ServiceTypes
  <2>2. CASE native[Recovery].ok
    <3>1. recovery' = [recovery EXCEPT !.at = "slots", !.slots = Slots] /\ scheduled' = scheduled
      BY <1>4, <2>2 DEF RecoverProceeds
    <3> QED
      BY <1>1, <1>4, <2>1, <3>1, Zenon DEF RecoverProceeds, ServiceTypes, lifecycle, queued
  <2>3. CASE ~native[Recovery].ok
    <3>1. /\ recovery' = NoAttempt
          /\ \/ scheduled' = scheduled
             \/ /\ recovery.attempt < MaxAttempts - 1
                /\ scheduled' = scheduled \cup {[round |-> recovery.round,
                                                 attempt |-> recovery.attempt + 1]}
      BY <1>4, <2>3 DEF RecoverProceeds
    <3>2. scheduled' \subseteq AttemptType
      BY <1>2, <2>1, <3>1 DEF AttemptType
    <3> QED
      BY <1>1, <1>2, <1>4, <3>1, <3>2 DEF RecoverProceeds, ServiceTypes, lifecycle, queued
  <2> QED
    BY <2>2, <2>3
<1>5. ASSUME NEW s \in Slots, RecoverSlot(s)
      PROVE  /\ mLifecycle' \in [Slots -> Seq(TaskType)] /\ scheduled' = scheduled
             /\ recovery' \in R
  <2>1. recovery \in R /\ mLifecycle \in [Slots -> Seq(TaskType)] /\ mSlots \in [Slots -> SlotType]
    BY DEF ServiceTypes
  <2>2. recovery' \in R
    <3>1. recovery' = NoAttempt \/ recovery' = [recovery EXCEPT !.slots = recovery.slots \ {s}]
      BY <1>5 DEF RecoverSlot
    <3> QED
      BY <1>2, <2>1, <3>1
  <2>3. mLifecycle' \in [Slots -> Seq(TaskType)]
    <3>1. CASE Current(s) = None
      BY <1>5, <2>1, <3>1 DEF RecoverSlot
    <3>2. CASE Current(s) # None
      <4> DEFINE task == [Task("recover", Current(s)) EXCEPT !.round = recovery.round]
      <4>1. Current(s) \in Cameras /\ recovery.round \in Nat
        BY <2>1, <3>2 DEF Current, SlotType, Registration
      <4>2. task \in TaskType
        BY <4>1, RecoverTask
      <4>3. Execute(s, task)
        BY <1>5, <3>2 DEF RecoverSlot
      <4> QED
        BY <2>1, <4>2, <4>3, Executed
    <3> QED
      BY <3>1, <3>2
  <2> QED
    BY <1>5, <2>2, <2>3 DEF RecoverSlot
<1> QED
  BY <1>1, <1>3, <1>4, <1>5 DEF ServiceTypes

\* A producer is no longer open, if there is one.
LEMMA ProducerStops ==
    ASSUME producer \in [Cameras -> [connection : 0 .. MaxLives, token : 0 .. MaxTokens,
                                     open : BOOLEAN]],
           NEW c, producer' = [producer EXCEPT ![c].open = FALSE]
    PROVE  /\ producer' \in [Cameras -> [connection : 0 .. MaxLives, token : 0 .. MaxTokens,
                                         open : BOOLEAN]]
           /\ \A d \in Cameras : /\ producer'[d].connection = producer[d].connection
                                 /\ producer'[d].token = producer[d].token
           /\ \A d \in Cameras \ {c} : producer'[d] = producer[d]
<1> DEFINE Producers == [connection : 0 .. MaxLives, token : 0 .. MaxTokens, open : BOOLEAN]
           p == [producer[c] EXCEPT !.open = FALSE]
<1>1. producer \in [Cameras -> Producers]
  OBVIOUS
<1>2. producer' = [producer EXCEPT ![c] = p]
  OBVIOUS
<1>3. CASE c \in Cameras
  <2>1. producer[c] \in Producers
    BY <1>1, <1>3
  <2>2. p \in Producers /\ p.connection = producer[c].connection /\ p.token = producer[c].token
    BY <2>1, Zenon
  <2> HIDE DEF p, Producers
  <2>3. producer'[c] = p /\ \A d \in Cameras \ {c} : producer'[d] = producer[d]
    BY <1>1, <1>2, <1>3
  <2>4. producer' \in [Cameras -> Producers]
    BY <1>1, <1>2, <2>2, Zenon
  <2> QED
    BY <2>2, <2>3, <2>4 DEF Producers
<1>4. CASE c \notin Cameras
  <2> HIDE DEF p, Producers
  <2>1. producer' = producer
    BY <1>1, <1>2, <1>4
  <2> QED
    BY <1>1, <2>1, Zenon DEF Producers
<1> QED
  BY <1>3, <1>4

LEMMA ExecutorTypes ==
    ASSUME ServiceTypes, Registry, Tasks, NEW s \in Slots, Executor(s)
    PROVE  ServiceTypes'
<1>1. /\ mSlots \in [Slots -> SlotType] /\ mLifecycle \in [Slots -> Seq(TaskType)]
      /\ job \in [Slots -> [task : TaskType, at : Places]] /\ job[s].task \in TaskType
      /\ producer \in [Cameras -> [connection : 0 .. MaxLives, token : 0 .. MaxTokens,
                                   open : BOOLEAN]]
  BY DEF ServiceTypes
<1>2. ASSUME mLifecycle[s] # <<>>, UNCHANGED <<app, removing, registry, mSlots, recoveries>>,
             \E at \in Places : Take(s, at) \/ (Skip(s) /\ UNCHANGED job),
             producer' \in [Cameras -> [connection : 0 .. MaxLives, token : 0 .. MaxTokens,
                                        open : BOOLEAN]]
      PROVE  ServiceTypes'
  BY <1>2, TakeTypes, Zenon DEF ServiceTypes, registry, recoveries
<1>3. ASSUME \/ \E at \in Places : Waits(s, at)
             \/ Done(s)
      PROVE  job' \in [Slots -> [task : TaskType, at : Places]]
  <2>1. \A at \in Places : [job[s] EXCEPT !.at = at] \in [task : TaskType, at : Places]
    BY <1>1, Zenon
  <2>2. CASE Done(s)
    BY <1>1, <2>2, IdleType DEF Done
  <2>3. ASSUME NEW at \in Places, Waits(s, at)
        PROVE  job' \in [Slots -> [task : TaskType, at : Places]]
    BY <1>1, <2>1, <2>3 DEF Waits
  <2> QED
    BY <1>3, <2>2, <2>3
<1>4. CASE StartRegister(s) \/ StartRecover(s) \/ StartHalDied(s) \/ StartRemove(s)
           \/ StartConfigured(s)
  <2>1. /\ mLifecycle[s] # <<>> /\ UNCHANGED <<app, removing, registry, mSlots, recoveries, producer>>
        /\ \E at \in {"register", "call", "remove", "create"} :
               Take(s, at) \/ (Skip(s) /\ UNCHANGED job)
    BY <1>4 DEF StartRegister, StartRecover, StartHalDied, StartRemove, StartConfigured, NextTask, Skip
  <2> QED
    BY <1>1, <1>2, <2>1 DEF Places
<1>5. CASE StartClosed(s)
  <2>1. /\ mLifecycle[s] # <<>> /\ UNCHANGED <<app, removing, registry, mSlots, recoveries>>
        /\ Take(s, "call") \/ (Skip(s) /\ UNCHANGED job)
        /\ \/ producer' = producer
           \/ producer' = [producer EXCEPT ![Head(mLifecycle[s]).camera].open = FALSE]
    BY <1>5 DEF StartClosed, NextTask, Skip
  <2>2. producer' \in [Cameras -> [connection : 0 .. MaxLives, token : 0 .. MaxTokens,
                                   open : BOOLEAN]]
    BY <1>1, <2>1, ProducerStops, Zenon
  <2> QED
    BY <1>2, <2>1, <2>2 DEF Places
<1>6. CASE RegisterReturned(s) \/ CallReturned(s) \/ RemoveReturned(s)
  <2>1. /\ UNCHANGED <<app, removing, registry, mSlots, queued, recoveries, producer>>
        /\ Done(s) \/ \E at \in {"isHalUp", "release"} : Waits(s, at)
    BY <1>6 DEF RegisterReturned, CallReturned, RemoveReturned
  <2> QED
    BY <1>1, <1>3, <2>1 DEF ServiceTypes, registry, queued, recoveries, Places
<1>7. CASE RegisterFailed(s)
  <2>1. /\ UNCHANGED <<app, queued, recovery, producer>>
        /\ Done(s) \/ Waits(s, "reject")
        /\ \/ StartRound /\ UNCHANGED <<removing, registry, mSlots>>
           \/ /\ UNCHANGED <<mRecoveryRound, scheduled>>
              /\ \/ UNCHANGED <<removing, registry, mSlots>>
                 \/ BeginRemove(job[s].task.camera, "rejected")
    BY <1>7 DEF RegisterFailed
  <2>2. mRecoveryRound' \in Nat /\ scheduled' \subseteq AttemptType
    BY <2>1, ServiceAssumption DEF StartRound, ServiceTypes, AttemptType
  <2>3. /\ removing' \in [Cameras -> {"no", "owner", "rejected", "queued"}]
        /\ mCameras' \subseteq Cameras
        /\ mSlotByCameraId' \in [Cameras -> Slots \cup {None}]
        /\ assigned' = assigned
        /\ mSlots' \in [Slots -> SlotType]
    <3>1. CASE UNCHANGED <<removing, registry, mSlots>>
      BY <3>1 DEF ServiceTypes, registry
    <3>2. CASE BeginRemove(job[s].task.camera, "rejected")
      <4>1. job[s].task.camera \in Cameras
        BY <3>2 DEF BeginRemove, ServiceTypes
      <4> QED
        BY <3>2, <4>1, BeginRemoveTypes
    <3> QED
      BY <2>1, <3>1, <3>2
  <2> QED
    BY <1>1, <1>3, <2>1, <2>2, <2>3, Zenon DEF ServiceTypes, queued, Places
<1>8. CASE FinishRemove(s)
  <2>1. /\ UNCHANGED <<app, removing, registry, queued, recoveries>> /\ Done(s)
        /\ producer' = [producer EXCEPT ![job[s].task.camera].open = FALSE]
        /\ \/ mSlots' = mSlots
           \/ mSlots' = [mSlots EXCEPT ![s] = [@ EXCEPT !.owner = None, !.closing = FALSE]]
    BY <1>8 DEF FinishRemove
  <2>2. mSlots' \in [Slots -> SlotType]
    <3>1. [mSlots[s] EXCEPT !.owner = None, !.closing = FALSE] \in SlotType
      BY <1>1, SlotUpdates, Zenon DEF Registration
    <3> QED
      BY <1>1, <2>1, <3>1, Zenon
  <2>3. producer' \in [Cameras -> [connection : 0 .. MaxLives, token : 0 .. MaxTokens,
                                   open : BOOLEAN]]
    BY <1>1, <2>1, ProducerStops, Zenon
  <2> QED
    BY <1>1, <1>3, <2>1, <2>2, <2>3, Zenon DEF ServiceTypes, registry, queued, recoveries
<1>9. CASE SurfaceCreated(s)
  <2> DEFINE task == job[s].task
             told == [connection |-> task.connection, token |-> task.token, open |-> TRUE]
  <2>1. /\ UNCHANGED <<app, removing, registry, mSlots, queued, recoveries>> /\ Done(s)
        /\ producer' = producer \/ producer' = [producer EXCEPT ![task.camera] = told]
    BY <1>9 DEF SurfaceCreated
  <2>2. told \in [connection : 0 .. MaxLives, token : 0 .. MaxTokens, open : BOOLEAN]
    BY <1>1 DEF TaskType
  <2> HIDE DEF told
  <2>3. producer' \in [Cameras -> [connection : 0 .. MaxLives, token : 0 .. MaxTokens,
                                   open : BOOLEAN]]
    BY <1>1, <2>1, <2>2, Zenon
  <2> QED
    BY <1>1, <1>3, <2>1, <2>3 DEF ServiceTypes, registry, queued, recoveries
<1> QED
  BY <1>4, <1>5, <1>6, <1>7, <1>8, <1>9 DEF Executor

-----------------------------------------------------------------------------
(***************************************************************************)
(* The registry.                                                           *)
(***************************************************************************)

\* A camera in the registry with a slot.
LEMMA Registered ==
    ASSUME ServiceTypes, Registry, NEW c \in mCameras, assigned[c] # None
    PROVE  /\ c \in Cameras /\ assigned[c] \in Slots /\ mSlotByCameraId[c] = assigned[c]
           /\ mSlots[assigned[c]].owner = c
           /\ \A s \in Slots : mSlots[s].owner = c => s = assigned[c]
  BY Bounds DEF ServiceTypes, Registry

\* A camera whose removal begins a teardown has a slot.
LEMMA ToRemove ==
    ASSUME ServiceTypes, Registry, NEW c, NEW behalf, BeginRemove(c, behalf)
    PROVE  c \in mCameras /\ assigned[c] # None
  BY DEF BeginRemove, ServiceTypes, Registry

\* A camera without a slot goes as it came.
LEMMA UnslottedRegistry ==
    ASSUME ServiceTypes, Registry, NEW c \in Cameras, RemoveUnslotted(c),
           c \in mCameras \/ app[c] = "noSlot",
           app' = app \/ (app[c] = "noSlot" /\ app' = [app EXCEPT ![c] = "refused"]),
           UNCHANGED <<removing, mSlots, producer>>
    PROVE  Registry'
<1>1. /\ assigned' = assigned /\ mSlotByCameraId' = mSlotByCameraId /\ mCameras' = mCameras \ {c}
      /\ mCameras \subseteq Cameras /\ assigned[c] = None
      /\ \A d \in Cameras \ {c} : app'[d] = app[d]
      /\ app'[c] \in {"new", "max", "noSlot", "refused"}
            <=> app[c] \in {"new", "max", "noSlot", "refused"}
  BY Bounds DEF RemoveUnslotted, ServiceTypes, Registry
<1>2. \A s \in Slots : mSlots[s].owner # c
  BY <1>1, Bounds DEF Registry
<1>3. \A s \in Slots :
          /\ mSlots'[s].owner # None => assigned'[mSlots'[s].owner] = s
          /\ mSlots'[s].owner # None /\ ~mSlots'[s].closing => mSlots'[s].owner \in mCameras'
          /\ mSlots'[s].closing => mSlots'[s].owner # None /\ mSlots'[s].owner \notin mCameras'
  BY <1>1, <1>2 DEF Registry
<1> QED
  BY <1>1, <1>3 DEF Registry

LEMMA BeginRemoveRegistry ==
    ASSUME ServiceTypes, Registry, NEW c \in Cameras, NEW behalf, BeginRemove(c, behalf),
           UNCHANGED <<app, producer>>
    PROVE  Registry'
<1> DEFINE s == assigned[c]
<1>1. /\ s \in Slots /\ mSlotByCameraId[c] = s /\ mSlots[s].owner = c /\ ~mSlots[s].closing
      /\ c \in mCameras /\ c # None /\ s # None
  BY Registered, ToRemove, Bounds, Zenon DEF BeginRemove, Owns
<1>2. /\ mSlots' \in [Slots -> SlotType]
      /\ \A r \in Slots \ {s} : mSlots'[r] = mSlots[r]
      /\ mSlots'[s].owner = c /\ mSlots'[s].closing
  BY <1>1, SlotClosing DEF BeginRemove, ServiceTypes
<1>3. /\ assigned' = assigned /\ mCameras' = mCameras \ {c}
      /\ mSlotByCameraId' = [mSlotByCameraId EXCEPT ![c] = None]
      /\ removing' = [removing EXCEPT ![c] = behalf]
      /\ UNCHANGED <<app, producer>>
  BY DEF BeginRemove
<1> HIDE DEF s
<1>4. \A r \in Slots \ {s} : mSlots[r].owner # c
  BY <1>1, Registered, ToRemove DEF s
<1>5. ASSUME NEW r \in Slots
      PROVE  /\ mSlots'[r].owner # None => assigned'[mSlots'[r].owner] = r
             /\ mSlots'[r].owner # None /\ ~mSlots'[r].closing => mSlots'[r].owner \in mCameras'
             /\ mSlots'[r].closing => mSlots'[r].owner # None /\ mSlots'[r].owner \notin mCameras'
  BY <1>1, <1>2, <1>3, <1>4 DEF Registry
<1>6. ASSUME NEW d \in mCameras', assigned'[d] # None
      PROVE  /\ assigned'[d] \in Slots /\ mSlotByCameraId'[d] = assigned'[d]
             /\ mSlots'[assigned'[d]].owner = d
  <2>1. d \in mCameras /\ d # c /\ assigned[d] # None
    BY <1>3, <1>6
  <2>2. d \in Cameras /\ assigned[d] \in Slots /\ mSlotByCameraId[d] = assigned[d]
        /\ mSlots[assigned[d]].owner = d
    BY <2>1, Registered
  <2>3. mSlotByCameraId'[d] = mSlotByCameraId[d]
    BY <1>3, <2>1, <2>2 DEF ServiceTypes
  <2> QED
    BY <1>1, <1>2, <1>3, <2>1, <2>2, <2>3
<1>7. ASSUME NEW d \in Cameras
      PROVE  /\ app'[d] \in {"new", "max", "noSlot", "refused"} <=> assigned'[d] = None
             /\ assigned'[d] = None => mSlotByCameraId'[d] = None
             /\ assigned'[d] = None /\ d \in mCameras' => app'[d] = "noSlot"
             /\ removing'[d] # "no" => assigned'[d] # None /\ d \notin mCameras'
             /\ assigned'[d] = None => producer'[d].connection = 0 /\ producer'[d].token = 0
  <2>1. removing'[d] # "no" => assigned'[d] # None /\ d \notin mCameras'
    BY <1>1, <1>3 DEF Registry, ServiceTypes, s
  <2>2. mSlotByCameraId'[d] = mSlotByCameraId[d] \/ mSlotByCameraId'[d] = None
    BY <1>3 DEF ServiceTypes
  <2> QED
    BY <1>3, <2>1, <2>2 DEF Registry
<1> QED
  BY <1>5, <1>6, <1>7, Zenon DEF Registry

LEMMA ReserveRegistry ==
    ASSUME ServiceTypes, Registry, NEW c \in Cameras, NEW s \in Slots, mSlots[s].owner = None,
           app[c] = "max",
           app' = [app EXCEPT ![c] = "execute"],
           mCameras' = mCameras \cup {c},
           mSlotByCameraId' = [mSlotByCameraId EXCEPT ![c] = s],
           assigned' = [assigned EXCEPT ![c] = s],
           mSlots' = [mSlots EXCEPT ![s].owner = c],
           UNCHANGED <<removing, producer>>
    PROVE  Registry'
<1>1. /\ assigned[c] = None /\ c \notin mCameras /\ c # None /\ s # None /\ removing[c] = "no"
      /\ ~mSlots[s].closing
  BY Bounds DEF Registry
<1>2. /\ \A r \in Slots \ {s} : mSlots'[r] = mSlots[r]
      /\ mSlots'[s].owner = c /\ mSlots'[s].closing = mSlots[s].closing
  BY DEF ServiceTypes, SlotType
<1>3. /\ \A d \in Cameras \ {c} : /\ assigned'[d] = assigned[d] /\ app'[d] = app[d]
                                  /\ mSlotByCameraId'[d] = mSlotByCameraId[d]
      /\ assigned'[c] = s /\ app'[c] = "execute" /\ mSlotByCameraId'[c] = s
  BY DEF ServiceTypes
<1>4. mCameras \subseteq Cameras /\ \A r \in Slots : mSlots[r].owner \in Registration
  BY DEF ServiceTypes, SlotType
<1>5. \A r \in Slots : mSlots[r].owner # c
  BY <1>1, Bounds DEF Registry
<1>6. ASSUME NEW r \in Slots
      PROVE  /\ mSlots'[r].owner # None => assigned'[mSlots'[r].owner] = r
             /\ mSlots'[r].owner # None /\ ~mSlots'[r].closing => mSlots'[r].owner \in mCameras'
             /\ mSlots'[r].closing => mSlots'[r].owner # None /\ mSlots'[r].owner \notin mCameras'
  <2>1. CASE r = s
    BY <1>1, <1>2, <1>3, <2>1
  <2>2. CASE r # s
    <3>1. mSlots'[r] = mSlots[r] /\ mSlots[r].owner # c /\ mSlots[r].owner \in Cameras \cup {None}
      BY <1>2, <1>4, <1>5, <2>2 DEF Registration
    <3> QED
      BY <1>3, <3>1 DEF Registry
  <2> QED
    BY <2>1, <2>2
<1>7. ASSUME NEW d \in mCameras', assigned'[d] # None
      PROVE  /\ assigned'[d] \in Slots /\ mSlotByCameraId'[d] = assigned'[d]
             /\ mSlots'[assigned'[d]].owner = d
  <2>1. CASE d = c
    BY <1>2, <1>3, <2>1
  <2>2. CASE d # c
    <3>1. d \in mCameras /\ d \in Cameras \ {c} /\ d # None
      BY <1>4, <2>2, Bounds
    <3>2. mSlots[assigned[d]].owner = d /\ assigned[d] \in Slots /\ mSlotByCameraId[d] = assigned[d]
      BY <1>3, <1>7, <3>1 DEF Registry
    <3> QED
      BY <1>2, <1>3, <3>1, <3>2
  <2> QED
    BY <2>1, <2>2
<1>8. ASSUME NEW d \in Cameras
      PROVE  /\ app'[d] \in {"new", "max", "noSlot", "refused"} <=> assigned'[d] = None
             /\ assigned'[d] = None => mSlotByCameraId'[d] = None
             /\ assigned'[d] = None /\ d \in mCameras' => app'[d] = "noSlot"
             /\ removing'[d] # "no" => assigned'[d] # None /\ d \notin mCameras'
             /\ assigned'[d] = None => producer'[d].connection = 0 /\ producer'[d].token = 0
  <2>1. CASE d = c
    BY <1>1, <1>3, <2>1
  <2>2. CASE d # c
    BY <1>3, <2>2 DEF Registry
  <2> QED
    BY <2>1, <2>2
<1> QED
  BY <1>6, <1>7, <1>8, Zenon DEF Registry

\* A slot is freed by the removal it is closing for.
LEMMA FinishRegistry ==
    ASSUME ServiceTypes, Registry, NEW s \in Slots, mSlots[s].closing,
           mSlots' = [mSlots EXCEPT ![s] = [@ EXCEPT !.owner = None, !.closing = FALSE]],
           UNCHANGED <<app, removing, mCameras, mSlotByCameraId, assigned>>,
           \A d \in Cameras : /\ producer'[d].connection = producer[d].connection
                              /\ producer'[d].token = producer[d].token
    PROVE  Registry'
<1>1. /\ \A r \in Slots \ {s} : mSlots'[r] = mSlots[r]
      /\ mSlots'[s].owner = None /\ mSlots'[s].closing = FALSE
  BY DEF ServiceTypes, SlotType
<1>2. \A d \in mCameras : assigned[d] # None => assigned[d] \in Slots \ {s}
  BY DEF Registry
<1>3. \A r \in Slots :
          /\ mSlots'[r].owner # None => assigned'[mSlots'[r].owner] = r
          /\ mSlots'[r].owner # None /\ ~mSlots'[r].closing => mSlots'[r].owner \in mCameras'
          /\ mSlots'[r].closing => mSlots'[r].owner # None /\ mSlots'[r].owner \notin mCameras'
  BY <1>1 DEF Registry
<1>4. \A d \in mCameras' : assigned'[d] # None =>
          /\ assigned'[d] \in Slots /\ mSlotByCameraId'[d] = assigned'[d]
          /\ mSlots'[assigned'[d]].owner = d
  BY <1>1, <1>2 DEF Registry
<1>5. \A d \in Cameras :
          /\ app'[d] \in {"new", "max", "noSlot", "refused"} <=> assigned'[d] = None
          /\ removing'[d] # "no" => assigned'[d] # None /\ d \notin mCameras'
          /\ assigned'[d] = None => producer'[d].connection = 0 /\ producer'[d].token = 0
  BY DEF Registry
<1> QED
  BY <1>3, <1>4, <1>5 DEF Registry

LEMMA AppRegistry ==
    ASSUME ServiceTypes, Registry, NEW c \in Cameras, App(c)
    PROVE  Registry'
<1>1. CASE RegisterCamera(c) \/ ReadyReturned(c) \/ ExecuteRegister(c)
           \/ \E ready \in BOOLEAN : SetProducerReady(c, ready)
  <2>1. /\ UNCHANGED <<removing, mCameras, mSlotByCameraId, assigned, mSlots, producer>>
        /\ \/ app[c] = "new" /\ app' = [app EXCEPT ![c] = "max"]
           \/ /\ app[c] \in {"execute", "ready", "registered"}
              /\ app' = [app EXCEPT ![c] = "ready"] \/ app' = [app EXCEPT ![c] = "registered"]
    BY <1>1 DEF RegisterCamera, ReadyReturned, ExecuteRegister, SetProducerReady, registry
  <2>2. /\ app'[c] \in {"new", "max", "noSlot", "refused"}
            <=> app[c] \in {"new", "max", "noSlot", "refused"}
        /\ \A d \in Cameras \ {c} : app'[d] = app[d]
    BY <2>1 DEF ServiceTypes
  <2>3. assigned[c] = None => c \notin mCameras
    BY <2>1 DEF Registry
  <2> QED
    BY <2>1, <2>2, <2>3 DEF Registry
<1>2. CASE Reserve(c)
  <2> DEFINE entered == /\ app' = [app EXCEPT ![c] = "noSlot"] /\ mCameras' = mCameras \cup {c}
                        /\ UNCHANGED <<mSlotByCameraId, assigned, mSlots>>
  <2>1. CASE app' = [app EXCEPT ![c] = "refused"] /\ UNCHANGED <<registry, mSlots>>
    <3>1. UNCHANGED <<removing, mCameras, mSlotByCameraId, assigned, mSlots, producer>>
      BY <1>2, <2>1 DEF Reserve, registry
    <3>2. /\ app'[c] \in {"new", "max", "noSlot", "refused"}
            <=> app[c] \in {"new", "max", "noSlot", "refused"}
          /\ \A d \in Cameras \ {c} : app'[d] = app[d]
      BY <1>2, <2>1 DEF Reserve, ServiceTypes
    <3>3. assigned[c] = None => c \notin mCameras
      BY <1>2 DEF Reserve, Registry
    <3> QED
      BY <3>1, <3>2, <3>3 DEF Registry
  <2>2. CASE ~(app' = [app EXCEPT ![c] = "refused"] /\ UNCHANGED <<registry, mSlots>>) /\ ~entered
    <3>1. app[c] = "max" /\ UNCHANGED <<removing, producer>>
      BY <1>2 DEF Reserve
    <3>2. PICK s \in Slots : /\ mSlots[s].owner = None
                             /\ app' = [app EXCEPT ![c] = "execute"]
                             /\ mCameras' = mCameras \cup {c}
                             /\ mSlotByCameraId' = [mSlotByCameraId EXCEPT ![c] = s]
                             /\ assigned' = [assigned EXCEPT ![c] = s]
                             /\ mSlots' = [mSlots EXCEPT ![s].owner = c]
      BY <1>2, <2>2 DEF Reserve, FreeSlots
    <3> QED
      BY <3>1, <3>2, ReserveRegistry, Zenon
  <2>3. CASE entered
    <3>1. /\ app[c] = "max" /\ UNCHANGED <<removing, producer, mSlotByCameraId, assigned, mSlots>>
          /\ mCameras' = mCameras \cup {c} /\ mCameras \subseteq Cameras
          /\ app'[c] = "noSlot" /\ \A d \in Cameras \ {c} : app'[d] = app[d]
      BY <1>2, <2>3 DEF Reserve, ServiceTypes
    <3>2. assigned[c] = None /\ \A s \in Slots : mSlots[s].owner # c
      BY <3>1, Bounds DEF Registry
    <3>3. \A s \in Slots :
              /\ mSlots'[s].owner # None => assigned'[mSlots'[s].owner] = s
              /\ mSlots'[s].owner # None /\ ~mSlots'[s].closing => mSlots'[s].owner \in mCameras'
              /\ mSlots'[s].closing => mSlots'[s].owner # None /\ mSlots'[s].owner \notin mCameras'
      BY <3>1, <3>2 DEF Registry
    <3>4. \A d \in mCameras' : assigned'[d] # None =>
              /\ assigned'[d] \in Slots /\ mSlotByCameraId'[d] = assigned'[d]
              /\ mSlots'[assigned'[d]].owner = d
      BY <3>1, <3>2 DEF Registry
    <3> QED
      BY <3>1, <3>2, <3>3, <3>4 DEF Registry
  <2> QED
    BY <2>1, <2>2, <2>3
<1>3. CASE OwnerRemoves(c)
  BY <1>3, BeginRemoveRegistry, UnslottedRegistry DEF OwnerRemoves
<1>5. CASE RefuseRegistration(c)
  BY <1>5, UnslottedRegistry DEF RefuseRegistration
<1>4. CASE ExecuteRemove(c)
  <2>1. /\ UNCHANGED <<app, mCameras, mSlotByCameraId, assigned, mSlots, producer>>
        /\ removing[c] # "no" /\ removing' = [removing EXCEPT ![c] = "queued"]
    BY <1>4 DEF ExecuteRemove, registry
  <2>2. \A d \in Cameras : removing'[d] # "no" => removing[d] # "no"
    BY <2>1 DEF ServiceTypes
  <2> QED
    BY <2>1, <2>2 DEF Registry
<1> QED
  BY <1>1, <1>2, <1>3, <1>4, <1>5 DEF App

\* Callbacks, deaths and recovery decide nothing about who has a slot.
LEMMA CallbackRegistry ==
    ASSUME ServiceTypes, Registry, calls \subseteq Calls,
           \/ \E k \in calls : Accept(k)
           \/ \E a \in accepted : ExecuteEvent(a)
           \/ \E d \in deaths : OnHalDied(d)
           \/ \E r \in scheduled : RecoverHal(r)
           \/ RecoverProceeds
           \/ \E s \in Slots : RecoverSlot(s)
    PROVE  Registry'
<1>1. UNCHANGED <<app, removing, mCameras, mSlotByCameraId, assigned, producer>>
  BY Zenon DEF Accept, ExecuteEvent, OnHalDied, RecoverHal, RecoverProceeds, RecoverSlot, registry
<1>2. \A s \in Slots : /\ mSlots'[s].owner = mSlots[s].owner
                       /\ mSlots'[s].closing = mSlots[s].closing
  <2>1. CASE mSlots' = mSlots
    BY <2>1
  <2>2. CASE mSlots' # mSlots
    <3>1. PICK k \in calls : Accept(k)
      BY <2>2, Zenon DEF ExecuteEvent, OnHalDied, RecoverHal, RecoverProceeds, RecoverSlot
    <3> QED
      BY <2>2, <3>1, SlotAccepting, Zenon DEF Accept, ServiceTypes
  <2> QED
    BY <2>1, <2>2
<1> QED
  BY <1>1, <1>2 DEF Registry

LEMMA ExecutorRegistry ==
    ASSUME ServiceTypes, Registry, Tasks, NEW s \in Slots, Executor(s)
    PROVE  Registry'
<1>1. /\ mSlots \in [Slots -> SlotType]
      /\ producer \in [Cameras -> [connection : 0 .. MaxLives, token : 0 .. MaxTokens,
                                   open : BOOLEAN]]
  BY DEF ServiceTypes
<1>2. CASE UNCHANGED <<app, removing, registry, mSlots, producer>>
  BY <1>2 DEF Registry, registry
<1>3. CASE RegisterFailed(s)
  <2>1. /\ UNCHANGED <<app, producer>>
        /\ \/ UNCHANGED <<removing, registry, mSlots>>
           \/ BeginRemove(job[s].task.camera, "rejected")
    BY <1>3 DEF RegisterFailed
  <2>2. CASE BeginRemove(job[s].task.camera, "rejected")
    <3>1. job[s].task.camera \in Cameras
      BY <2>2 DEF BeginRemove, ServiceTypes
    <3> QED
      BY <2>1, <2>2, <3>1, BeginRemoveRegistry
  <2> QED
    BY <1>2, <2>1, <2>2
<1>4. ASSUME NEW c, producer' = [producer EXCEPT ![c].open = FALSE]
      PROVE  \A d \in Cameras : /\ producer'[d].connection = producer[d].connection
                                /\ producer'[d].token = producer[d].token
  BY <1>1, <1>4, ProducerStops
<1>5. CASE FinishRemove(s)
  <2>1. /\ UNCHANGED <<app, removing, mCameras, mSlotByCameraId, assigned>>
        /\ producer' = [producer EXCEPT ![job[s].task.camera].open = FALSE]
        /\ \/ mSlots' = mSlots
           \/ /\ mSlots[s].closing
              /\ mSlots' = [mSlots EXCEPT ![s] = [@ EXCEPT !.owner = None, !.closing = FALSE]]
    BY <1>5 DEF FinishRemove, registry
  <2>2. \A d \in Cameras : /\ producer'[d].connection = producer[d].connection
                           /\ producer'[d].token = producer[d].token
    BY <1>4, <2>1, Zenon
  <2>3. CASE mSlots' = mSlots
    BY <2>1, <2>2, <2>3 DEF Registry
  <2> QED
    BY <2>1, <2>2, <2>3, FinishRegistry, Zenon
<1>6. CASE StartClosed(s)
  <2>1. /\ UNCHANGED <<app, removing, mCameras, mSlotByCameraId, assigned, mSlots>>
        /\ \/ producer' = producer
           \/ producer' = [producer EXCEPT ![Head(mLifecycle[s]).camera].open = FALSE]
    BY <1>6 DEF StartClosed, registry
  <2>2. \A d \in Cameras : /\ producer'[d].connection = producer[d].connection
                           /\ producer'[d].token = producer[d].token
    BY <1>4, <2>1
  <2> QED
    BY <2>1, <2>2 DEF Registry
<1>7. CASE SurfaceCreated(s)
  <2> DEFINE c == job[s].task.camera
             told == [connection |-> job[s].task.connection, token |-> job[s].task.token,
                      open |-> TRUE]
  <2>1. /\ UNCHANGED <<app, removing, mCameras, mSlotByCameraId, assigned, mSlots>>
        /\ job[s].at = "create"
        /\ producer' = producer \/ producer' = [producer EXCEPT ![c] = told]
    BY <1>7 DEF SurfaceCreated, Back, registry
  <2>2. assigned[c] = s /\ s # None
    BY <2>1, Bounds DEF Tasks, TaskOK, KindsAt
  <2>3. \A d \in Cameras : assigned[d] = None => producer'[d] = producer[d]
    BY <1>1, <2>1, <2>2
  <2> QED
    BY <2>1, <2>3 DEF Registry
<1>8. CASE ~RegisterFailed(s) /\ ~FinishRemove(s) /\ ~StartClosed(s) /\ ~SurfaceCreated(s)
  BY <1>2, <1>8
     DEF Executor, StartRegister, RegisterReturned, StartRecover, StartHalDied, CallReturned,
         StartRemove, RemoveReturned, StartConfigured
<1> QED
  BY <1>3, <1>5, <1>6, <1>7, <1>8

-----------------------------------------------------------------------------
(***************************************************************************)
(* The tasks.                                                              *)
(***************************************************************************)

\* A camera keeps its slot, and does not come back.
Onward ==
    /\ \A c \in Cameras : assigned[c] # None
          => assigned'[c] = assigned[c] /\ (c \notin mCameras => c \notin mCameras')
    /\ gNextConnectionEpoch' = gNextConnectionEpoch

LEMMA OnwardTasks ==
    ASSUME Onward, NEW s \in Slots, NEW task, TaskOK(s, task)
    PROVE  TaskOK(s, task)'
<1>1. s # None
  BY Bounds
<1> QED
  BY <1>1 DEF Onward, TaskOK

LEMMA BeginRemoveOnward ==
    ASSUME ServiceTypes, Registry, NEW c, NEW behalf, BeginRemove(c, behalf)
    PROVE  assigned' = assigned /\ mCameras' \subseteq mCameras
  BY DEF BeginRemove

LEMMA ServiceOnward ==
    ASSUME RelayInv, ServiceInv, Service
    PROVE  Onward
<1>1. ServiceTypes /\ Registry
  BY DEF ServiceInv
<1>2. gNextConnectionEpoch' = gNextConnectionEpoch
  <2>1. CASE UNCHANGED relayGlobals
    BY <2>1 DEF relayGlobals, connection
  <2>2. CASE JavaDelivers
    BY <2>2 DEF JavaDelivers, connection
  <2> QED
    BY <2>1, <2>2, AppCalls, ExecutorCalls, RecoveryCalls, CallbackDelivers DEF Service
<1>3. CASE UNCHANGED <<mCameras, assigned>>
  BY <1>2, <1>3 DEF Onward
<1>4. ASSUME NEW c \in Cameras, App(c)
      PROVE  Onward
  <2>1. CASE OwnerRemoves(c) \/ RefuseRegistration(c)
    BY <1>1, <1>2, <2>1, BeginRemoveOnward
       DEF OwnerRemoves, RefuseRegistration, RemoveUnslotted, Onward
  <2>2. CASE Reserve(c)
    <3>1. assigned[c] = None
      BY <1>1, <2>2 DEF Reserve, Registry
    <3>2. /\ \A d \in Cameras \ {c} : assigned'[d] = assigned[d]
          /\ mCameras' \subseteq mCameras \cup {c}
      BY <1>1, <2>2 DEF Reserve, registry, ServiceTypes
    <3> QED
      BY <1>2, <3>1, <3>2 DEF Onward
  <2>3. CASE ~OwnerRemoves(c) /\ ~RefuseRegistration(c) /\ ~Reserve(c)
    BY <1>3, <1>4, <2>3
       DEF App, RegisterCamera, ExecuteRegister, ExecuteRemove, SetProducerReady, ReadyReturned,
           registry
  <2> QED
    BY <2>1, <2>2, <2>3
<1>5. ASSUME NEW s \in Slots, Executor(s)
      PROVE  Onward
  <2>1. CASE RegisterFailed(s)
    BY <1>1, <1>2, <1>3, <2>1, BeginRemoveOnward DEF RegisterFailed, Onward, registry
  <2>2. CASE ~RegisterFailed(s)
    BY <1>3, <1>5, <2>2
       DEF Executor, StartRegister, RegisterReturned, StartRecover, StartHalDied, CallReturned,
           StartRemove, RemoveReturned, FinishRemove, StartConfigured, SurfaceCreated, StartClosed,
           registry
  <2> QED
    BY <2>1, <2>2
<1>6. CASE \/ \E k \in calls : Accept(k)
           \/ \E a \in accepted : ExecuteEvent(a)
           \/ \E d \in deaths : OnHalDied(d)
           \/ \E r \in scheduled : RecoverHal(r)
           \/ RecoverProceeds
           \/ \E s \in Slots : RecoverSlot(s)
  BY <1>3, <1>6, Zenon
     DEF Accept, ExecuteEvent, OnHalDied, RecoverHal, RecoverProceeds, RecoverSlot, registry
<1> QED
  BY <1>4, <1>5, <1>6 DEF Service

\* What is queued and at work stays as it is, or goes, or is added with care.
LEMMA TasksKept ==
    ASSUME Tasks, Onward,
           \A s \in Slots : \A i \in DOMAIN mLifecycle'[s] :
               \/ \E j \in DOMAIN mLifecycle[s] : mLifecycle'[s][i] = mLifecycle[s][j]
               \/ TaskOK(s, mLifecycle[s][i])',
           \A s \in Slots :
               \/ job'[s] = job[s]
               \/ /\ job'[s].task.kind \in KindsAt[job'[s].at]
                  /\ job'[s].at # "idle"
                        => \/ job[s].at # "idle" /\ job'[s].task = job[s].task
                           \/ mLifecycle[s] # <<>> /\ 1 \in DOMAIN mLifecycle[s]
                                 /\ job'[s].task = mLifecycle[s][1]
    PROVE  Tasks'
<1>1. \A s \in Slots : \A i \in DOMAIN mLifecycle'[s] : TaskOK(s, mLifecycle[s][i])'
  <2>1. ASSUME NEW s \in Slots, NEW i \in DOMAIN mLifecycle'[s], NEW j \in DOMAIN mLifecycle[s],
               mLifecycle'[s][i] = mLifecycle[s][j]
        PROVE  TaskOK(s, mLifecycle[s][i])'
    <3>1. TaskOK(s, mLifecycle[s][j])
      BY DEF Tasks
    <3>2. PICK task : task = mLifecycle[s][j]
      OBVIOUS
    <3>3. TaskOK(s, task)'
      BY <3>1, <3>2, OnwardTasks
    <3> QED
      BY <2>1, <3>2, <3>3 DEF TaskOK
  <2> QED
    BY <2>1
<1>2. \A s \in Slots : job'[s].at # "idle" => TaskOK(s, job[s].task)'
  <2>1. ASSUME NEW s \in Slots, NEW task, TaskOK(s, task), job'[s].task = task
        PROVE  TaskOK(s, job[s].task)'
    BY <2>1, OnwardTasks DEF TaskOK
  <2>2. ASSUME NEW s \in Slots, job'[s].at # "idle"
        PROVE  TaskOK(s, job[s].task)'
    <3>1. CASE job[s].at # "idle" /\ job'[s].task = job[s].task
      BY <2>1, <3>1 DEF Tasks
    <3>2. CASE 1 \in DOMAIN mLifecycle[s] /\ job'[s].task = mLifecycle[s][1]
      BY <2>1, <3>2 DEF Tasks
    <3> QED
      BY <2>2, <3>1, <3>2
  <2> QED
    BY <2>2
<1>3. \A s \in Slots : job'[s].task.kind \in KindsAt[job'[s].at]
  BY DEF Tasks
<1> QED
  BY <1>1, <1>2, <1>3 DEF Tasks

LEMMA TaskAdded ==
    ASSUME ServiceTypes, Tasks, Onward, NEW s \in Slots, NEW task \in TaskType, Execute(s, task),
           TaskOK(s, task)', \A r \in Slots : job'[r] \in {job[r], Idle}
    PROVE  Tasks'
<1>1. /\ \A r \in Slots \ {s} : mLifecycle'[r] = mLifecycle[r]
      /\ DOMAIN mLifecycle'[s] = DOMAIN mLifecycle[s] \cup {Len(mLifecycle[s]) + 1}
      /\ \A i \in DOMAIN mLifecycle[s] : mLifecycle'[s][i] = mLifecycle[s][i]
      /\ mLifecycle'[s][Len(mLifecycle[s]) + 1] = task
  BY Executed DEF ServiceTypes
<1>3. ASSUME NEW r \in Slots, NEW i \in DOMAIN mLifecycle'[r]
      PROVE  \/ \E j \in DOMAIN mLifecycle[r] : mLifecycle'[r][i] = mLifecycle[r][j]
             \/ TaskOK(r, mLifecycle[r][i])'
  <2>1. CASE r # s
    BY <1>1, <2>1
  <2>2. CASE r = s /\ i \in DOMAIN mLifecycle[s]
    BY <1>1, <2>2
  <2>3. CASE r = s /\ i \notin DOMAIN mLifecycle[s]
    BY <1>1, <2>3 DEF TaskOK
  <2> QED
    BY <2>1, <2>2, <2>3
<1>4. ASSUME NEW r \in Slots
      PROVE  \/ job'[r] = job[r]
             \/ job'[r].task.kind \in KindsAt[job'[r].at] /\ job'[r].at = "idle"
  BY IdleType DEF KindsAt
<1> QED
  BY <1>3, <1>4, TasksKept

LEMMA TaskTaken ==
    ASSUME ServiceTypes, Tasks, Onward, NEW s \in Slots, mLifecycle[s] # <<>>,
           \/ \E at \in Places : Take(s, at) /\ Head(mLifecycle[s]).kind \in KindsAt[at]
           \/ Skip(s) /\ UNCHANGED job
    PROVE  Tasks'
<1>1. /\ \A r \in Slots \ {s} : mLifecycle'[r] = mLifecycle[r]
      /\ \A i \in DOMAIN mLifecycle'[s] :
             /\ i \in Nat /\ i + 1 # 1 /\ i + 1 \in DOMAIN mLifecycle[s]
             /\ mLifecycle'[s][i] = mLifecycle[s][i + 1]
  BY HeadGone, Zenon DEF ServiceTypes, Take, Skip
<1>2. \A r \in Slots : \A i \in DOMAIN mLifecycle'[r] :
          \E j \in DOMAIN mLifecycle[r] : mLifecycle'[r][i] = mLifecycle[r][j]
  BY <1>1
<1>3. ASSUME NEW at \in Places, Take(s, at), Head(mLifecycle[s]).kind \in KindsAt[at]
      PROVE  /\ \A r \in Slots \ {s} : job'[r] = job[r]
             /\ job'[s].task = Head(mLifecycle[s])
             /\ job'[s].task.kind \in KindsAt[job'[s].at]
  BY <1>3 DEF Take, ServiceTypes
<1>4. Head(mLifecycle[s]) = mLifecycle[s][1] /\ 1 \in DOMAIN mLifecycle[s]
  BY HeadTask
<1>5. ASSUME NEW r \in Slots
      PROVE  \/ job'[r] = job[r]
             \/ /\ job'[r].task.kind \in KindsAt[job'[r].at]
                /\ mLifecycle[r] # <<>> /\ 1 \in DOMAIN mLifecycle[r]
                /\ job'[r].task = mLifecycle[r][1]
  BY <1>3, <1>4
<1> QED
  BY <1>2, <1>5, TasksKept

LEMMA TaskMoved ==
    ASSUME ServiceTypes, Tasks, Onward, NEW s \in Slots, mLifecycle' = mLifecycle,
           \/ Done(s)
           \/ \E at \in Places \ {"idle"} :
                  Waits(s, at) /\ job[s].task.kind \in KindsAt[at] /\ job[s].at # "idle"
    PROVE  Tasks'
<1>1. job \in [Slots -> [task : TaskType, at : Places]]
  BY DEF ServiceTypes
<1>2. ASSUME NEW r \in Slots
      PROVE  \/ job'[r] = job[r]
             \/ /\ job'[r].task.kind \in KindsAt[job'[r].at]
                /\ job'[r].at # "idle" => job[r].at # "idle" /\ job'[r].task = job[r].task
  <2>1. CASE Done(s)
    BY <1>1, <2>1, IdleType DEF Done, KindsAt
  <2>2. ASSUME NEW at \in Places, Waits(s, at), job[s].task.kind \in KindsAt[at], job[s].at # "idle"
        PROVE  \/ job'[r] = job[r]
               \/ /\ job'[r].task.kind \in KindsAt[job'[r].at]
                  /\ job'[r].at # "idle" => job[r].at # "idle" /\ job'[r].task = job[r].task
    BY <1>1, <2>2 DEF Waits
  <2> QED
    BY <2>1, <2>2
<1> QED
  BY <1>2, TasksKept

LEMMA ExecutorTasks ==
    ASSUME ServiceTypes, Tasks, Onward, NEW s \in Slots, Executor(s)
    PROVE  Tasks'
<1>1. CASE StartRegister(s) \/ StartRecover(s) \/ StartHalDied(s) \/ StartRemove(s)
           \/ StartConfigured(s) \/ StartClosed(s)
  <2>1. /\ mLifecycle[s] # <<>>
        /\ \/ \E at \in Places : Take(s, at) /\ Head(mLifecycle[s]).kind \in KindsAt[at]
           \/ Skip(s) /\ UNCHANGED job
    BY <1>1 DEF StartRegister, StartRecover, StartHalDied, StartRemove, StartConfigured, StartClosed,
                NextTask, Skip, KindsAt, Places
  <2> QED
    BY <2>1, TaskTaken
<1>2. CASE CallReturned(s) \/ FinishRemove(s) \/ SurfaceCreated(s)
  BY <1>2, TaskMoved DEF CallReturned, FinishRemove, SurfaceCreated, queued
<1>3. CASE RegisterReturned(s)
  <2>1. /\ mLifecycle' = mLifecycle
        /\ Done(s) \/ Waits(s, "isHalUp")
        /\ job[s].task.kind \in KindsAt["register"] /\ job[s].at = "register"
    BY <1>3 DEF RegisterReturned, queued, Back, Tasks
  <2> QED
    BY <2>1, TaskMoved DEF KindsAt, Places
<1>4. CASE RegisterFailed(s)
  <2>1. /\ mLifecycle' = mLifecycle
        /\ Done(s) \/ Waits(s, "reject")
        /\ job[s].task.kind \in KindsAt["isHalUp"] /\ job[s].at = "isHalUp"
    BY <1>4 DEF RegisterFailed, queued, Back, Tasks
  <2> QED
    BY <2>1, TaskMoved DEF KindsAt, Places
<1>5. CASE RemoveReturned(s)
  <2>1. /\ mLifecycle' = mLifecycle /\ Waits(s, "release")
        /\ job[s].task.kind \in KindsAt["remove"] /\ job[s].at = "remove"
    BY <1>5 DEF RemoveReturned, queued, Back, Tasks
  <2> QED
    BY <2>1, TaskMoved DEF KindsAt, Places
<1> QED
  BY <1>1, <1>2, <1>3, <1>4, <1>5 DEF Executor

LEMMA ServiceTasks ==
    ASSUME RelayInv, ServiceInv, Service
    PROVE  Tasks'
<1>1. /\ ServiceTypes /\ Registry /\ Tasks /\ Onward /\ Accepting
      /\ gNextConnectionEpoch \in Nat /\ gNextConnectionEpoch' = gNextConnectionEpoch
      /\ calls \subseteq Calls /\ \A k \in calls : k.epoch <= gNextConnectionEpoch
      /\ RelayTypeOK
  BY ServiceOnward, Bounds
     DEF ServiceInv, RelayInv, ConnectionInv, RelayTypeOK, QueueInv, CallsOfConnections, Onward
<1>2. CASE UNCHANGED <<mLifecycle, job>>
  BY <1>1, <1>2, TasksKept
<1>3. ASSUME NEW c \in Cameras, App(c)
      PROVE  Tasks'
  <2>1. CASE ExecuteRegister(c)
    <3>1. app[c] = "execute" /\ assigned' = assigned /\ job' = job
          /\ Execute(assigned[c], Task("register", c))
      BY <2>1 DEF ExecuteRegister, registry
    <3>2. assigned[c] \in Slots
      <4>1. app[c] \in {"new", "max", "noSlot", "refused"} <=> assigned[c] = None
        BY <1>1 DEF Registry
      <4> QED
        BY <1>1, <3>1, <4>1 DEF ServiceTypes
    <3>3. /\ Task("register", c) \in TaskType /\ Task("register", c).kind = "register"
          /\ Task("register", c).camera = c /\ Task("register", c).connection = 0
      BY CameraTask DEF Kinds, Registration
    <3>4. TaskOK(assigned[c], Task("register", c))'
      BY <1>1, <3>1, <3>3 DEF TaskOK
    <3> QED
      BY <1>1, <3>1, <3>2, <3>3, <3>4, TaskAdded DEF TaskOK
  <2>2. CASE ExecuteRemove(c)
    <3>1. /\ removing[c] # "no" /\ assigned' = assigned /\ mCameras' = mCameras
          /\ Execute(assigned[c], Task("remove", c))
          /\ job' = job \/ job' = [job EXCEPT ![assigned[c]] = Idle]
      BY <2>2 DEF ExecuteRemove, registry
    <3>2. assigned[c] \in Slots /\ c \notin mCameras
      BY <1>1, <3>1 DEF Registry, ServiceTypes
    <3>3. /\ Task("remove", c) \in TaskType /\ Task("remove", c).kind = "remove"
          /\ Task("remove", c).camera = c /\ Task("remove", c).connection = 0
      BY CameraTask DEF Kinds, Registration
    <3>4. TaskOK(assigned[c], Task("remove", c))'
      BY <1>1, <3>1, <3>2, <3>3 DEF TaskOK
    <3>5. \A r \in Slots : job'[r] \in {job[r], Idle}
      BY <1>1, <3>1 DEF ServiceTypes
    <3> QED
      BY <1>1, <3>1, <3>2, <3>3, <3>4, <3>5, TaskAdded DEF TaskOK
  <2>3. CASE ~ExecuteRegister(c) /\ ~ExecuteRemove(c)
    BY <1>2, <1>3, <2>3
       DEF App, RegisterCamera, Reserve, RefuseRegistration, OwnerRemoves, SetProducerReady,
           ReadyReturned, lifecycle,
           queued
  <2> QED
    BY <2>1, <2>2, <2>3
<1>4. ASSUME NEW a \in accepted, ExecuteEvent(a)
      PROVE  Tasks'
  <2> DEFINE kind == IF a.call.closed THEN "closed" ELSE "configured"
             task == [Task(kind, a.call.registration) EXCEPT
                          !.event = a.event, !.connection = a.call.epoch, !.token = a.call.token]
  <2>1. /\ Execute(a.call.slot, task) /\ assigned' = assigned /\ job' = job
    BY <1>4 DEF ExecuteEvent, registry
  <2>2. a \in [call : Calls, event : Nat]
    BY <1>1 DEF ServiceTypes
  <2>3. /\ task \in TaskType /\ task.kind = kind /\ task.camera = a.call.registration
        /\ task.connection = a.call.epoch /\ task.token = a.call.token
        /\ a.call.slot \in Slots /\ a.call.registration \in Cameras
        /\ task.connection # 0 /\ task.token # 0
    BY <2>2, EventTask, Zenon
  <2>4. a.call.epoch <= gNextConnectionEpoch /\ assigned[a.call.registration] = a.call.slot
    BY <1>1 DEF Accepting
  <2>5. kind # "none" /\ kind # "halDied" /\ kind # "remove"
    OBVIOUS
  <2> HIDE DEF task, kind
  <2>6. ASSUME NEW t, t = task
        PROVE  TaskOK(a.call.slot, t)'
    <3>1. PICK s \in Slots : s = a.call.slot
      BY <2>3
    <3>2. TaskOK(s, t)'
      BY <1>1, <2>1, <2>3, <2>4, <2>5, <2>6, <3>1 DEF TaskOK
    <3> QED
      BY <3>1, <3>2
  <2>7. PICK s \in Slots : s = a.call.slot
    BY <2>3
  <2>8. PICK t : t = task
    OBVIOUS
  <2>9. TaskOK(s, t)'
    BY <2>6, <2>7, <2>8
  <2> QED
    BY <1>1, <2>1, <2>3, <2>7, <2>8, <2>9, TaskAdded
<1>5. ASSUME NEW d \in deaths, OnHalDied(d)
      PROVE  Tasks'
  <2> DEFINE task == [Task("halDied", None) EXCEPT !.connection = d.epoch]
  <2>1. /\ task \in TaskType /\ task.kind = "halDied" /\ task.connection = d.epoch
        /\ d.epoch <= gNextConnectionEpoch
    <3>1. d.epoch \in 1 .. gNextConnectionEpoch /\ d.epoch \in 0 .. MaxLives
      BY <1>1, Bounds DEF RelayTypeOK
    <3> QED
      BY <3>1, DiedTask
  <2>2. mLifecycle' = [s \in Slots |-> Append(mLifecycle[s], task)] /\ job' = job
    BY <1>5 DEF OnHalDied
  <2> HIDE DEF task
  <2>3. ASSUME NEW t, t = task, NEW s \in Slots
        PROVE  TaskOK(s, t)'
    BY <1>1, <2>1, <2>3 DEF TaskOK
  <2>4. ASSUME NEW s \in Slots, NEW i \in DOMAIN mLifecycle'[s]
        PROVE  \/ \E j \in DOMAIN mLifecycle[s] : mLifecycle'[s][i] = mLifecycle[s][j]
               \/ TaskOK(s, mLifecycle[s][i])'
    <3>1. mLifecycle[s] \in Seq(TaskType) /\ mLifecycle'[s] = Append(mLifecycle[s], task)
      BY <1>1, <2>2 DEF ServiceTypes
    <3>2. \/ i \in DOMAIN mLifecycle[s] /\ mLifecycle'[s][i] = mLifecycle[s][i]
          \/ mLifecycle'[s][i] = task
      BY <3>1
    <3>3. PICK t : t = task
      OBVIOUS
    <3>4. TaskOK(s, t)'
      BY <2>3, <3>3
    <3> QED
      BY <3>2, <3>3, <3>4 DEF TaskOK
  <2> QED
    BY <1>1, <2>2, <2>4, TasksKept
<1>6. ASSUME NEW s \in Slots, RecoverSlot(s)
      PROVE  Tasks'
  <2>1. job' = job /\ assigned' = assigned
    BY <1>6 DEF RecoverSlot, registry
  <2>2. CASE Current(s) = None
    BY <1>2, <1>6, <2>1, <2>2 DEF RecoverSlot
  <2>3. CASE Current(s) # None
    <3> DEFINE c == mSlots[s].owner
               task == [Task("recover", c) EXCEPT !.round = recovery.round]
    <3>1. /\ Current(s) = c /\ c \in Cameras /\ assigned[c] = s /\ recovery.round \in Nat
      BY <1>1, <2>3 DEF Current, Registry, ServiceTypes, SlotType, Registration
    <3>2. Execute(s, task)
      BY <1>6, <2>3, <3>1 DEF RecoverSlot
    <3>3. /\ task \in TaskType /\ task.kind = "recover" /\ task.camera = c /\ task.connection = 0
      BY <3>1, RecoverTask
    <3> HIDE DEF task
    <3>4. PICK t : t = task
      OBVIOUS
    <3>5. TaskOK(s, t)'
      BY <1>1, <2>1, <3>1, <3>3, <3>4 DEF TaskOK
    <3> QED
      BY <1>1, <2>1, <3>2, <3>3, <3>4, <3>5, TaskAdded
  <2> QED
    BY <2>2, <2>3
<1>7. ASSUME NEW s \in Slots, Executor(s)
      PROVE  Tasks'
  BY <1>1, <1>7, ExecutorTasks
<1>8. CASE \/ \E k \in calls : Accept(k)
           \/ \E r \in scheduled : RecoverHal(r)
           \/ RecoverProceeds
  BY <1>2, <1>8, Zenon DEF Accept, RecoverHal, RecoverProceeds, lifecycle, queued
<1> QED
  BY <1>3, <1>4, <1>5, <1>6, <1>7, <1>8 DEF Service

-----------------------------------------------------------------------------
(***************************************************************************)
(* The jobs.                                                               *)
(***************************************************************************)

\* What a thread has on its way into a native method, and out of it.
LEMMA Entered ==
    ASSUME native \in [Threads -> NativeType], NEW t \in Threads, NEW method, NEW at, NEW slot,
           NEW camera, NEW conn, NEW token, NEW flag,
           Enter(t, method, at, slot, camera, conn, token, flag)
    PROVE  /\ native[t].at = "java" /\ \A u \in Threads \ {t} : native'[u] = native[u]
           /\ native'[t].method = method /\ native'[t].at = at /\ native'[t].camera = camera
  BY DEF Enter, Returned

LEMMA Consumed ==
    ASSUME native \in [Threads -> NativeType], NEW t \in Threads, Consume(t)
    PROVE  /\ native[t].at = "java" /\ \A u \in Threads \ {t} : native'[u] = native[u]
           /\ native'[t].method = "none" /\ native'[t].at = "java"
  BY DEF Consume, Returned

\* A thread is in Java while it is in no native method.
InJava(n) == n.at = "java" <=> n.method = "none"

LEMMA ClientMoves ==
    ASSUME native \in [Threads -> NativeType], NEW t \in Threads,
           ClientCalls(t) \/ Consume(t) \/ UNCHANGED native
    PROVE  /\ \A u \in Threads \ {t} : native'[u] = native[u]
           /\ InJava(native[t]) => InJava(native'[t])
<1>1. CASE IsHalUp(t)
  BY <1>1 DEF IsHalUp, Enter, Returned, InJava
<1>2. CASE GetMaxCameras(t)
  BY <1>2 DEF GetMaxCameras, Enter, Returned, InJava
<1>3. ASSUME NEW s, NEW e, NEW k, NEW ready, SetConfigurationReady(t, s, e, k, ready)
      PROVE  /\ \A u \in Threads \ {t} : native'[u] = native[u]
             /\ InJava(native[t]) => InJava(native'[t])
  BY <1>3 DEF SetConfigurationReady, Enter, Returned, InJava
<1>4. CASE Consume(t) \/ UNCHANGED native
  BY <1>4, Consumed DEF InJava
<1> QED
  BY <1>1, <1>2, <1>3, <1>4 DEF ClientCalls

LEMMA SlotMoves ==
    ASSUME native \in [Threads -> NativeType], NEW t \in Slots,
           SlotCalls(t) \/ Consume(t) \/ UNCHANGED native
    PROVE  /\ \A u \in Threads \ {t} : native'[u] = native[u]
           /\ InJava(native[t]) => InJava(native'[t])
<1>0. t \in Threads
  BY Bounds
<1>5. ASSUME NEW method, NEW at, NEW slot, NEW camera, NEW conn, NEW token,
             Enter(t, method, at, slot, camera, conn, token, FALSE), method # "none", at # "java"
      PROVE  /\ \A u \in Threads \ {t} : native'[u] = native[u]
             /\ InJava(native[t]) => InJava(native'[t])
  BY <1>0, <1>5, Entered, Zenon DEF InJava
<1>1. CASE IsHalUp(t)
  BY <1>1, <1>5, Zenon DEF IsHalUp
<1>2. ASSUME NEW c, RegisterProducer(t, t, c) \/ RemoveProducer(t, t, c)
      PROVE  /\ \A u \in Threads \ {t} : native'[u] = native[u]
             /\ InJava(native[t]) => InJava(native'[t])
  BY <1>2, <1>5, Zenon DEF RegisterProducer, RemoveProducer
<1>3. ASSUME NEW e, NEW k, CreateSurface(t, t, e, k) \/ ReleaseSurfaceOf(t, t, e, k)
      PROVE  /\ \A u \in Threads \ {t} : native'[u] = native[u]
             /\ InJava(native[t]) => InJava(native'[t])
  BY <1>3, <1>5, Zenon DEF CreateSurface, ReleaseSurfaceOf
<1>4. CASE Consume(t) \/ UNCHANGED native
  BY <1>0, <1>4, Consumed DEF InJava
<1> QED
  BY <1>1, <1>2, <1>3, <1>4 DEF SlotCalls

\* The slots' threads do not move, nor do their jobs.
SlotsRest ==
    /\ \A s \in Slots : native'[s] = native[s]
    /\ \A t \in Threads : InJava(native[t]) => InJava(native'[t])

LEMMA ClientsRest ==
    ASSUME RelayInv, NEW t \in Clients, ClientCalls(t) \/ Consume(t) \/ UNCHANGED native
    PROVE  SlotsRest
<1>1. native \in [Threads -> NativeType] /\ t \in Threads /\ t \notin Slots
  BY TypeSplit, OwnThreads DEF RelayInv, ConnectionInv
<1> QED
  BY <1>1, ClientMoves, OwnThreads DEF SlotsRest

LEMMA DeliveriesRest ==
    ASSUME JavaDelivers
    PROVE  SlotsRest
  BY DEF JavaDelivers, SlotsRest

\* Jobs that are not touched, in slots whose owner is not touched.
LEMMA JobsRest ==
    ASSUME Jobs, Tasks, Registry, SlotsRest, UNCHANGED <<job, removing, assigned>>,
           \A s \in Slots : mSlots[s].owner # None => mSlots'[s].owner = mSlots[s].owner
    PROVE  Jobs'
<1>1. \A s \in Slots : AtRegister(s)' <=> AtRegister(s)
  BY DEF AtRegister
<1>2. ASSUME NEW s \in Slots, AtRegister(s)
      PROVE  mSlots'[s].owner = job[s].task.camera
  <2>1. job[s].task.kind \in {"register", "recover"} /\ job[s].at # "idle"
    BY <1>2 DEF AtRegister, Tasks, KindsAt
  <2>2. job[s].task.camera \in Cameras
    BY <2>1 DEF Tasks, TaskOK
  <2> QED
    BY <1>2, <2>2, Bounds DEF Jobs
<1>3. \A t \in Threads : native'[t].at = "java" <=> native'[t].method = "none"
  BY DEF Jobs, SlotsRest, InJava
<1> QED
  BY <1>1, <1>2, <1>3 DEF Jobs, SlotsRest

\* What Jobs says of one slot.
JobAt(s) ==
    /\ native[s].method = "registerProducer"
          => AtRegister(s) /\ native[s].camera = job[s].task.camera
    /\ native[s].method = "removeProducer"
          => /\ job[s].at = "remove" /\ native[s].camera = job[s].task.camera
             /\ native[s].at \in {"hal", "link", "setCallback", "ready", "lock", "rpc"}
    /\ AtRegister(s) => mSlots[s].owner = job[s].task.camera
    /\ job[s].at = "reject" => native[s].method = "none"

\* A step of slot s's thread and executor, which is not about to report a
\* rejection.
LEMMA JobsAt ==
    ASSUME ServiceTypes, Jobs, Tasks, Registry, NEW s \in Slots, assigned' = assigned,
           \A r \in Slots \ {s} : native'[r] = native[r] /\ job'[r] = job[r],
           \A t \in Threads : InJava(native[t]) => InJava(native'[t]),
           \A r \in Slots \ {s} : mSlots'[r].owner = mSlots[r].owner,
           JobAt(s)',
           job[s].at # "reject",
           \A c \in Cameras : removing'[c] = "rejected"
               => \/ removing[c] = "rejected"
                  \/ assigned[c] = s /\ job'[s].at = "reject" /\ job'[s].task.camera = c
    PROVE  Jobs'
<1>1. \A r \in Slots \ {s} : AtRegister(r)' <=> AtRegister(r)
  BY DEF AtRegister
<1>2. \A r \in Slots \ {s} : JobAt(r)'
  BY <1>1 DEF Jobs, JobAt
<1>3. \A r \in Slots : JobAt(r)'
  BY <1>2
<1>4. \A t \in Threads : native'[t].at = "java" <=> native'[t].method = "none"
  BY DEF Jobs, InJava
<1>5. ASSUME NEW c \in Cameras, removing'[c] = "rejected"
      PROVE  job'[assigned'[c]].at = "reject" /\ job'[assigned'[c]].task.camera = c
  <2>1. CASE removing[c] = "rejected"
    <3>1. job[assigned[c]].at = "reject" /\ job[assigned[c]].task.camera = c
      BY <2>1 DEF Jobs
    <3>2. assigned[c] # s /\ assigned[c] \in Slots
      BY <2>1, <3>1 DEF Registry, ServiceTypes
    <3> QED
      BY <3>1, <3>2
  <2> QED
    BY <1>5, <2>1
<1> QED
  BY <1>3, <1>4, <1>5 DEF Jobs, JobAt

\* The executor's steps, and what they make of their own slot.
LEMMA ExecutorJobAt ==
    ASSUME RelayInv, ServiceInv, NEW s \in Slots, Executor(s), ~UNCHANGED <<native, job>>
    PROVE  /\ \A r \in Slots \ {s} : native'[r] = native[r] /\ job'[r] = job[r]
           /\ \A t \in Threads : InJava(native[t]) => InJava(native'[t])
           /\ \A r \in Slots \ {s} : mSlots'[r].owner = mSlots[r].owner
           /\ JobAt(s)' /\ job[s].at # "reject"
<1>1. /\ native \in [Threads -> NativeType] /\ s \in Threads /\ Slots \subseteq Threads
      /\ ServiceTypes /\ Registry /\ Tasks /\ Jobs
  BY TypeSplit, Bounds DEF RelayInv, ConnectionInv, ServiceInv
<1>2. /\ \A r \in Slots \ {s} : native'[r] = native[r]
      /\ \A t \in Threads : InJava(native[t]) => InJava(native'[t])
  BY <1>1, ExecutorCalls, SlotMoves
<1>3. /\ \A r \in Slots \ {s} : job'[r] = job[r]
      /\ job[s].at # "reject"
  BY <1>1, IdleType
     DEF ServiceTypes, Executor, StartRegister, RegisterReturned, RegisterFailed, StartRecover,
         StartHalDied, CallReturned, StartRemove, RemoveReturned, FinishRemove, StartConfigured,
         SurfaceCreated, StartClosed, Take, Skip, Done, Waits, Back, NextTask
<1>4. \A r \in Slots \ {s} : mSlots'[r].owner = mSlots[r].owner
  <2>1. CASE RegisterFailed(s) /\ BeginRemove(job[s].task.camera, "rejected")
    <3>1. job[s].task.camera \in mCameras
      BY <2>1 DEF BeginRemove
    <3>2. job[s].at = "isHalUp" /\ assigned[job[s].task.camera] = s
      BY <1>1, <2>1 DEF RegisterFailed, Back, Tasks, TaskOK, KindsAt
    <3>3. mSlotByCameraId[job[s].task.camera] = s
      BY <1>1, <2>1, <3>1, <3>2, Registered, ToRemove
    <3>4. BeginClose(s)
      BY <2>1, <3>3 DEF BeginRemove
    <3> QED
      BY <1>1, <3>4, SlotClosing DEF ServiceTypes
  <2>2. CASE FinishRemove(s)
    BY <1>1, <2>2 DEF FinishRemove, ServiceTypes
  <2>3. CASE ~(RegisterFailed(s) /\ BeginRemove(job[s].task.camera, "rejected")) /\ ~FinishRemove(s)
    BY <2>3
       DEF Executor, StartRegister, RegisterReturned, RegisterFailed, StartRecover, StartHalDied,
           CallReturned, StartRemove, RemoveReturned, StartConfigured, SurfaceCreated, StartClosed
  <2> QED
    BY <2>1, <2>2, <2>3
<1>5. JobAt(s)'
  <2> DEFINE task == Head(mLifecycle[s])
  <2>1. ASSUME NEW at \in Places, Take(s, at)
        PROVE  job'[s].task = task /\ job'[s].at = at
    BY <1>1, <2>1 DEF Take, ServiceTypes
  <2>2. ASSUME NEW at \in Places, Waits(s, at)
        PROVE  job'[s].task = job[s].task /\ job'[s].at = at
    BY <1>1, <2>2 DEF Waits, ServiceTypes
  <2>3. ASSUME Done(s)
        PROVE  job'[s].at = "idle"
    BY <1>1, <2>3, IdleType DEF Done, ServiceTypes
  <2>4. CASE StartRegister(s) \/ StartRecover(s)
    <3>1. /\ \/ Take(s, "register") /\ task.kind = "register"
             \/ Take(s, "call") /\ task.kind = "recover"
          /\ RegisterProducer(s, s, task.camera) /\ mSlots[s].owner = task.camera
          /\ mSlots' = mSlots
      BY <2>4 DEF StartRegister, StartRecover, NextTask, Skip, Owns
    <3>2. native'[s].method = "registerProducer" /\ native'[s].camera = task.camera
      BY <1>1, <3>1 DEF RegisterProducer, Enter, Returned
    <3>3. /\ job'[s].task = task
          /\ job'[s].at = "register" \/ (job'[s].at = "call" /\ task.kind = "recover")
      BY <2>1, <3>1 DEF Places
    <3> HIDE DEF task
    <3> QED
      BY <3>1, <3>2, <3>3 DEF JobAt, AtRegister
  <2>5. CASE StartRemove(s)
    <3>1. Take(s, "remove") /\ RemoveProducer(s, s, task.camera)
      BY <2>5 DEF StartRemove
    <3>2. /\ native'[s].method = "removeProducer" /\ native'[s].camera = task.camera
          /\ native'[s].at = "hal"
      BY <1>1, <3>1 DEF RemoveProducer, Enter, Returned
    <3>3. job'[s].task = task /\ job'[s].at = "remove"
      BY <2>1, <3>1 DEF Places
    <3> HIDE DEF task
    <3> QED
      BY <3>2, <3>3 DEF JobAt, AtRegister
  <2>6. CASE StartHalDied(s) \/ StartConfigured(s) \/ StartClosed(s)
    <3>1. /\ Take(s, "call") \/ Take(s, "create")
          /\ task.kind \in {"halDied", "configured", "closed"}
          /\ \/ CreateSurface(s, s, task.connection, task.token)
             \/ \E k : ReleaseSurfaceOf(s, s, task.connection, k)
      BY <2>6 DEF StartHalDied, StartConfigured, StartClosed, NextTask, Skip
    <3>2. native'[s].method \in {"createSurface", "releaseSurface"}
      BY <1>1, <3>1, Zenon DEF CreateSurface, ReleaseSurfaceOf, Enter, Returned
    <3>3. job'[s].task = task /\ job'[s].at \in {"call", "create"}
      BY <2>1, <3>1 DEF Places
    <3> HIDE DEF task
    <3> QED
      BY <3>1, <3>2, <3>3 DEF JobAt, AtRegister
  <2>7. CASE RegisterReturned(s)
    <3>1. native'[s].method \in {"none", "isHalUp"}
      <4>1. Consume(s) \/ IsHalUp(s)
        BY <2>7 DEF RegisterReturned
      <4>2. CASE Consume(s)
        BY <1>1, <4>2 DEF Consume, Returned
      <4>3. CASE IsHalUp(s)
        BY <1>1, <4>3 DEF IsHalUp, Enter, Returned
      <4> QED
        BY <4>1, <4>2, <4>3
    <3>2. job'[s].at \in {"idle", "isHalUp"}
      BY <2>2, <2>3, <2>7 DEF RegisterReturned, Places
    <3> QED
      BY <3>1, <3>2 DEF JobAt, AtRegister
  <2>8. CASE RegisterFailed(s) \/ CallReturned(s) \/ FinishRemove(s) \/ SurfaceCreated(s)
    <3>1. Consume(s) /\ (Done(s) \/ Waits(s, "reject"))
      BY <2>8 DEF RegisterFailed, CallReturned, FinishRemove, SurfaceCreated
    <3>2. native'[s].method = "none"
      BY <1>1, <3>1 DEF Consume, Returned
    <3>3. job'[s].at \in {"idle", "reject"}
      BY <2>2, <2>3, <3>1 DEF Places
    <3> QED
      BY <3>2, <3>3 DEF JobAt, AtRegister
  <2>9. CASE RemoveReturned(s)
    <3>1. native'[s].method = "releaseSurface"
      BY <1>1, <2>9 DEF RemoveReturned, ReleaseSurfaceOf, Enter, Returned
    <3>2. job'[s].at = "release"
      BY <2>2, <2>9 DEF RemoveReturned, Places
    <3> QED
      BY <3>1, <3>2 DEF JobAt, AtRegister
  <2> QED
    BY <2>4, <2>5, <2>6, <2>7, <2>8, <2>9 DEF Executor
<1> QED
  BY <1>2, <1>3, <1>4, <1>5

LEMMA ServiceJobs ==
    ASSUME RelayInv, ServiceInv, Service
    PROVE  Jobs'
<1>1. ServiceTypes /\ Registry /\ Tasks /\ Jobs
  BY DEF ServiceInv
<1>2. ASSUME NEW c \in Cameras, App(c)
      PROVE  Jobs'
  <2>1. SlotsRest
    BY <1>2, AppCalls, ClientsRest, OwnThreads
  <2>2. CASE \/ RegisterCamera(c) \/ ReadyReturned(c) \/ ExecuteRegister(c)
             \/ \E ready \in BOOLEAN : SetProducerReady(c, ready)
             \/ RefuseRegistration(c)
             \/ OwnerRemoves(c) /\ ~BeginRemove(c, "owner")
    <3>1. UNCHANGED <<job, removing, assigned, mSlots>>
      BY <2>2
         DEF RegisterCamera, ReadyReturned, ExecuteRegister, SetProducerReady, lifecycle, registry,
             RefuseRegistration, OwnerRemoves, RemoveUnslotted
    <3> QED
      BY <1>1, <2>1, <3>1, JobsRest
  <2>3. CASE Reserve(c)
    <3>1. /\ UNCHANGED <<job, removing>> /\ assigned[c] = None
          /\ \/ UNCHANGED <<assigned, mSlots>>
             \/ \E s \in Slots : /\ mSlots[s].owner = None
                                 /\ mSlots' = [mSlots EXCEPT ![s].owner = c]
                                 /\ assigned' = [assigned EXCEPT ![c] = s]
      BY <1>1, <2>3 DEF Reserve, FreeSlots, lifecycle, registry, Registry
    <3>2. \A s \in Slots : mSlots[s].owner # None => mSlots'[s].owner = mSlots[s].owner
      BY <1>1, <3>1, Zenon DEF ServiceTypes
    <3>3. \A d \in Cameras : removing[d] = "rejected" => assigned'[d] = assigned[d]
      BY <1>1, <3>1 DEF ServiceTypes, Registry
    <3>4. \A s \in Slots : AtRegister(s)' <=> AtRegister(s)
      BY <3>1 DEF AtRegister
    <3>5. ASSUME NEW s \in Slots, AtRegister(s)
          PROVE  mSlots'[s].owner = job[s].task.camera
      <4>1. job[s].task.kind \in {"register", "recover"} /\ job[s].at # "idle"
        BY <1>1, <3>5 DEF AtRegister, Tasks, KindsAt
      <4>2. job[s].task.camera \in Cameras
        BY <1>1, <4>1 DEF Tasks, TaskOK
      <4> QED
        BY <1>1, <3>2, <3>5, <4>2, Bounds DEF Jobs
    <3>6. \A t \in Threads : native'[t].at = "java" <=> native'[t].method = "none"
      BY <1>1, <2>1 DEF Jobs, SlotsRest, InJava
    <3> QED
      BY <1>1, <2>1, <3>1, <3>3, <3>4, <3>5, <3>6 DEF Jobs, SlotsRest
  <2>4. CASE OwnerRemoves(c) /\ BeginRemove(c, "owner")
    <3>1. /\ job' = job /\ assigned' = assigned /\ removing' = [removing EXCEPT ![c] = "owner"]
          /\ BeginClose(mSlotByCameraId[c]) /\ c \in mCameras
      BY <2>4 DEF OwnerRemoves, BeginRemove, lifecycle
    <3>2. \A s \in Slots : mSlots'[s].owner = mSlots[s].owner
      <4>1. PICK s \in Slots : s = mSlotByCameraId[c]
        BY <1>1, <2>4 DEF BeginRemove, ServiceTypes
      <4> QED
        BY <1>1, <3>1, <4>1, SlotClosing, Zenon DEF ServiceTypes
    <3>3. \A d \in Cameras : removing'[d] = "rejected" => removing[d] = "rejected"
      BY <1>1, <3>1 DEF ServiceTypes
    <3>4. \A s \in Slots : AtRegister(s)' <=> AtRegister(s)
      BY <3>1 DEF AtRegister
    <3>5. \A t \in Threads : native'[t].at = "java" <=> native'[t].method = "none"
      BY <1>1, <2>1 DEF Jobs, SlotsRest, InJava
    <3> QED
      BY <1>1, <2>1, <3>1, <3>2, <3>3, <3>4, <3>5 DEF Jobs, SlotsRest
  <2>5. CASE ExecuteRemove(c)
    <3>1. /\ UNCHANGED <<assigned, mSlots>> /\ removing' = [removing EXCEPT ![c] = "queued"]
          /\ \/ job' = job
             \/ removing[c] = "rejected" /\ job' = [job EXCEPT ![assigned[c]] = Idle]
      BY <2>5 DEF ExecuteRemove, registry
    <3>2. \A d \in Cameras : removing'[d] = "rejected" => removing[d] = "rejected" /\ d # c
      BY <1>1, <3>1 DEF ServiceTypes
    <3>3. \A t \in Threads : native'[t].at = "java" <=> native'[t].method = "none"
      BY <1>1, <2>1 DEF Jobs, SlotsRest, InJava
    <3>4. CASE job' = job
      <4>1. \A s \in Slots : AtRegister(s)' <=> AtRegister(s)
        BY <3>4 DEF AtRegister
      <4> QED
        BY <1>1, <2>1, <3>1, <3>2, <3>3, <3>4, <4>1 DEF Jobs, SlotsRest
    <3>5. CASE removing[c] = "rejected" /\ job' = [job EXCEPT ![assigned[c]] = Idle]
      <4>1. PICK s \in Slots : s = assigned[c]
        BY <1>1, <3>5 DEF Registry, ServiceTypes
      <4>2. job[s].at = "reject" /\ job[s].task.camera = c /\ native[s].method = "none"
        BY <1>1, <3>5, <4>1 DEF Jobs
      <4>3. job'[s].at = "idle" /\ \A r \in Slots \ {s} : job'[r] = job[r]
        BY <1>1, <3>5, <4>1, IdleType DEF ServiceTypes
      <4>4. \A r \in Slots \ {s} : AtRegister(r)' <=> AtRegister(r)
        BY <4>3 DEF AtRegister
      <4>5. ~AtRegister(s)'
        BY <4>3 DEF AtRegister
      <4>6. \A d \in Cameras : removing'[d] = "rejected"
                => assigned[d] \in Slots \ {s} /\ job[assigned[d]].at = "reject"
                      /\ job[assigned[d]].task.camera = d
        BY <1>1, <3>2, <4>2 DEF Jobs, Registry, ServiceTypes
      <4> QED
        BY <1>1, <2>1, <3>1, <3>3, <4>2, <4>3, <4>4, <4>5, <4>6 DEF Jobs, SlotsRest
    <3> QED
      BY <3>1, <3>4, <3>5
  <2> QED
    BY <1>2, <2>2, <2>3, <2>4, <2>5 DEF App
<1>3. CASE \/ \E k \in calls : Accept(k)
           \/ \E a \in accepted : ExecuteEvent(a)
           \/ \E d \in deaths : OnHalDied(d)
           \/ \E r \in scheduled : RecoverHal(r)
           \/ RecoverProceeds
           \/ \E s \in Slots : RecoverSlot(s)
  <2>1. SlotsRest
    BY <1>3, CallbackDelivers, DeliveriesRest, RecoveryCalls, ClientsRest, OwnThreads DEF ServiceInv
  <2>2. UNCHANGED <<job, removing, assigned>>
    BY <1>3, Zenon
       DEF Accept, ExecuteEvent, OnHalDied, RecoverHal, RecoverProceeds, RecoverSlot, registry,
           lifecycle
  <2>3. \A s \in Slots : mSlots'[s].owner = mSlots[s].owner
    <3>1. ASSUME NEW k \in calls, Accept(k)
          PROVE  \A s \in Slots : mSlots'[s].owner = mSlots[s].owner
      <4>1. k \in Calls
        BY DEF RelayInv, ConnectionInv, RelayTypeOK
      <4> QED
        BY <1>1, <3>1, <4>1, SlotAccepting, Zenon DEF Accept, ServiceTypes
    <3> QED
      BY <1>3, <3>1, Zenon DEF ExecuteEvent, OnHalDied, RecoverHal, RecoverProceeds, RecoverSlot
  <2> QED
    BY <1>1, <2>1, <2>2, <2>3, JobsRest
<1>4. ASSUME NEW s \in Slots, Executor(s)
      PROVE  Jobs'
  <2>1. assigned' = assigned
    BY <1>4, Zenon
       DEF Executor, StartRegister, RegisterReturned, RegisterFailed, StartRecover, StartHalDied,
           CallReturned, StartRemove, RemoveReturned, FinishRemove, StartConfigured, SurfaceCreated,
           StartClosed, registry, BeginRemove
  <2>2. CASE UNCHANGED <<native, job>>
    <3>1. UNCHANGED <<removing, mSlots>>
      <4>1. ~RegisterFailed(s) /\ ~FinishRemove(s)
        <5>1. job[s].at \in {"isHalUp", "release"} => ~Done(s) /\ ~Waits(s, "reject")
          BY <1>1, <2>2, IdleType DEF Done, Waits, ServiceTypes
        <5> QED
          BY <5>1 DEF RegisterFailed, FinishRemove, Back
      <4> QED
        BY <1>4, <4>1
           DEF Executor, StartRegister, RegisterReturned, StartRecover, StartHalDied, CallReturned,
               StartRemove, RemoveReturned, StartConfigured, SurfaceCreated, StartClosed
    <3> QED
      BY <1>1, <2>1, <2>2, <3>1, JobsRest DEF SlotsRest
  <2>3. CASE ~UNCHANGED <<native, job>>
    <3>1. /\ \A r \in Slots \ {s} : native'[r] = native[r] /\ job'[r] = job[r]
          /\ \A t \in Threads : InJava(native[t]) => InJava(native'[t])
          /\ \A r \in Slots \ {s} : mSlots'[r].owner = mSlots[r].owner
          /\ JobAt(s)' /\ job[s].at # "reject"
      BY <1>4, <2>3, ExecutorJobAt
    <3>2. ASSUME NEW c \in Cameras, removing'[c] = "rejected", removing[c] # "rejected"
          PROVE  assigned[c] = s /\ job'[s].at = "reject" /\ job'[s].task.camera = c
      <4>1. /\ RegisterFailed(s) /\ BeginRemove(job[s].task.camera, "rejected")
            /\ Waits(s, "reject")
        BY <1>4, <3>2
           DEF Executor, StartRegister, RegisterReturned, RegisterFailed, StartRecover,
               StartHalDied, CallReturned, StartRemove, RemoveReturned, FinishRemove,
               StartConfigured, SurfaceCreated, StartClosed
      <4>2. c = job[s].task.camera
        BY <1>1, <3>2, <4>1 DEF BeginRemove, ServiceTypes
      <4>3. job[s].at = "isHalUp" /\ assigned[job[s].task.camera] = s
        BY <1>1, <4>1 DEF RegisterFailed, Back, Tasks, TaskOK, KindsAt
      <4>4. job'[s].at = "reject" /\ job'[s].task = job[s].task
        BY <1>1, <4>1 DEF Waits, ServiceTypes
      <4> QED
        BY <4>2, <4>3, <4>4
    <3> QED
      BY <1>1, <2>1, <3>1, <3>2, JobsAt
  <2> QED
    BY <2>2, <2>3
<1> QED
  BY <1>2, <1>3, <1>4 DEF Service

-----------------------------------------------------------------------------
(***************************************************************************)
(* The HAL's producers, while cameras are removed and slots given away.    *)
(***************************************************************************)

LEMMA ServiceLeavesHal ==
    ASSUME RelayInv, ServiceInv, Service
    PROVE  UNCHANGED hal
<1>1. CASE UNCHANGED relayGlobals
  BY <1>1 DEF relayGlobals
<1>2. CASE JavaDelivers
  BY <1>2 DEF JavaDelivers, Delivered
<1> QED
  BY <1>1, <1>2, AppCalls, ExecutorCalls, RecoveryCalls, CallbackDelivers DEF Service

\* Slots change hands when they are free, and are freed when the HAL has let go.
LEMMA OwnersKept ==
    ASSUME RelayInv, ServiceInv, Service, NEW s \in Slots, mSlots'[s].owner # mSlots[s].owner
    PROVE  \/ /\ mSlots[s].owner = None
              /\ \E c \in Cameras : assigned[c] = None /\ mSlots'[s].owner = c
              /\ native'[s] = native[s] /\ job'[s] = job[s]
           \/ /\ mSlots'[s].owner = None /\ job[s].at = "release"
              /\ mSlots[s].owner = job[s].task.camera /\ job'[s] = Idle
<1>1. ServiceTypes /\ Registry /\ Tasks
  BY DEF ServiceInv
<1>2. ASSUME NEW c \in Cameras, App(c)
      PROVE  /\ mSlots[s].owner = None /\ assigned[c] = None /\ mSlots'[s].owner = c
             /\ native'[s] = native[s] /\ job'[s] = job[s]
  <2>1. SlotsRest
    BY <1>2, AppCalls, ClientsRest, OwnThreads
  <2>2. ~OwnerRemoves(c)
    <3>1. SUFFICES ASSUME BeginRemove(c, "owner") PROVE FALSE
      BY DEF OwnerRemoves
    <3>2. PICK r \in Slots : r = mSlotByCameraId[c]
      BY <1>1, <3>1 DEF BeginRemove, ServiceTypes
    <3>3. BeginClose(r)
      BY <3>1, <3>2 DEF BeginRemove
    <3> QED
      BY <1>1, <3>3, SlotClosing, Zenon DEF ServiceTypes
  <2>3. Reserve(c)
    BY <1>2, <2>2
       DEF App, RefuseRegistration, RegisterCamera, ExecuteRegister, ExecuteRemove,
           SetProducerReady, ReadyReturned
  <2>4. PICK r \in Slots : mSlots[r].owner = None /\ mSlots' = [mSlots EXCEPT ![r].owner = c]
    BY <2>3 DEF Reserve, FreeSlots
  <2>5. mSlots[s].owner = None /\ mSlots'[s].owner = c
    BY <1>1, <2>4 DEF ServiceTypes
  <2> QED
    BY <1>1, <2>1, <2>3, <2>5 DEF Reserve, SlotsRest, Registry, lifecycle
<1>3. ASSUME NEW r \in Slots, Executor(r)
      PROVE  /\ mSlots'[s].owner = None /\ job[s].at = "release"
             /\ mSlots[s].owner = job[s].task.camera /\ job'[s] = Idle
  <2>1. ~(RegisterFailed(r) /\ BeginRemove(job[r].task.camera, "rejected"))
    <3>1. SUFFICES ASSUME BeginRemove(job[r].task.camera, "rejected") PROVE FALSE
      OBVIOUS
    <3>2. PICK q \in Slots : q = mSlotByCameraId[job[r].task.camera]
      BY <1>1, <3>1 DEF BeginRemove, ServiceTypes
    <3>3. BeginClose(q)
      BY <3>1, <3>2 DEF BeginRemove
    <3> QED
      BY <1>1, <3>3, SlotClosing, Zenon DEF ServiceTypes
  <2>2. FinishRemove(r)
    BY <1>3, <2>1
       DEF Executor, StartRegister, RegisterReturned, RegisterFailed, StartRecover, StartHalDied,
           CallReturned, StartRemove, RemoveReturned, StartConfigured, SurfaceCreated, StartClosed
  <2>3. /\ mSlots[r].owner = job[r].task.camera /\ job[r].at = "release"
        /\ mSlots' = [mSlots EXCEPT ![r] = [@ EXCEPT !.owner = None, !.closing = FALSE]]
        /\ job' = [job EXCEPT ![r] = Idle]
    BY <2>2 DEF FinishRemove, Back, Done
  <2>4. r = s /\ mSlots'[r].owner = None /\ job'[r] = Idle
    <3>1. /\ mSlots'[r] = [mSlots[r] EXCEPT !.owner = None, !.closing = FALSE] /\ job'[r] = Idle
          /\ \A q \in Slots \ {r} : mSlots'[q] = mSlots[q]
      BY <1>1, <2>3 DEF ServiceTypes
    <3>2. [mSlots[r] EXCEPT !.owner = None, !.closing = FALSE].owner = None
      BY <1>1 DEF ServiceTypes, SlotType
    <3> QED
      BY <1>3, <3>1, <3>2
  <2> QED
    BY <2>3, <2>4
<1>4. ASSUME NEW k \in calls, Accept(k)
      PROVE  FALSE
  <2>1. k \in Calls
    BY DEF RelayInv, ConnectionInv, RelayTypeOK
  <2> QED
    BY <1>1, <1>4, <2>1, SlotAccepting, Zenon DEF Accept, ServiceTypes
<1> QED
  BY <1>2, <1>3, <1>4, Zenon DEF Service, ExecuteEvent, OnHalDied, RecoverHal, RecoverProceeds, RecoverSlot

LEMMA ServiceOwners ==
    ASSUME RelayInv, ServiceInv, Service
    PROVE  HalProducerIsOwner'
<1> SUFFICES ASSUME NEW s \in Slots, halProducer'[s] # None
             PROVE  mSlots'[s].owner = halProducer'[s]
  BY DEF HalProducerIsOwner
<1>1. halProducer' = halProducer /\ mSlots[s].owner = halProducer[s]
  BY ServiceLeavesHal DEF hal, ServiceInv, HalProducerIsOwner
<1>2. ~(job[s].at = "release" /\ mSlots[s].owner = job[s].task.camera)
  BY <1>1 DEF ServiceInv, Removal
<1> QED
  BY <1>1, <1>2, OwnersKept

\* What the executor does with the removal of a camera that the HAL still has.
LEMMA ExecutorRemoval ==
    ASSUME RelayInv, ServiceInv, NEW s \in Slots, Executor(s), halProducer[s] # None,
           mSlots[s].owner = job'[s].task.camera
    PROVE  /\ job'[s].at # "release"
           /\ job'[s].at = "remove" => native'[s].method = "removeProducer"
           /\ job'[s].at = "remove" /\ native'[s].at = "lock" => life = native'[s].h
<1>1. /\ native \in [Threads -> NativeType] /\ s \in Threads /\ Slots \subseteq Threads
      /\ ServiceTypes /\ Tasks /\ Jobs /\ Removal
  BY TypeSplit, Bounds DEF RelayInv, ConnectionInv, ServiceInv
<1>2. CASE UNCHANGED <<native, job>>
  BY <1>1, <1>2 DEF Removal
<1>3. CASE StartRemove(s)
  <2>1. native'[s].method = "removeProducer" /\ native'[s].at = "hal"
    BY <1>1, <1>3 DEF StartRemove, RemoveProducer, Enter, Returned
  <2>2. job'[s].at = "remove"
    BY <1>1, <1>3 DEF StartRemove, Take, ServiceTypes
  <2> QED
    BY <2>1, <2>2
<1>4. CASE RemoveReturned(s)
  <2>1. job[s].at = "remove" /\ job'[s].task = job[s].task /\ native[s].at = "java"
    BY <1>1, <1>4 DEF RemoveReturned, Back, Waits, ServiceTypes
  <2>2. native[s].method = "none"
    BY <1>1, <2>1 DEF Jobs
  <2> QED
    BY <1>1, <2>1, <2>2 DEF Removal
<1>5. ASSUME ~StartRemove(s), ~RemoveReturned(s), ~UNCHANGED <<native, job>>
      PROVE  job'[s].at \notin {"remove", "release"}
  <2>1. \/ \E at \in {"register", "call", "create"} : Take(s, at)
        \/ \E at \in {"isHalUp", "reject"} : Waits(s, at)
        \/ Done(s)
    BY <1>5
       DEF Executor, StartRegister, RegisterReturned, RegisterFailed, StartRecover, StartHalDied,
           CallReturned, FinishRemove, StartConfigured, SurfaceCreated, StartClosed, Skip
  <2> QED
    BY <1>1, <2>1, IdleType DEF Take, Waits, Done, ServiceTypes
<1> QED
  BY <1>2, <1>3, <1>4, <1>5

LEMMA ServiceRemoval ==
    ASSUME RelayInv, ServiceInv, Service
    PROVE  Removal'
<1> SUFFICES ASSUME NEW s \in Slots, mSlots'[s].owner = job'[s].task.camera,
                    halProducer'[s] # None
             PROVE  /\ job'[s].at # "release"
                    /\ job'[s].at = "remove" => native'[s].method = "removeProducer"
                    /\ job'[s].at = "remove" /\ native'[s].at = "lock" => life' = native'[s].h
  BY DEF Removal
<1>1. /\ ServiceTypes /\ Registry /\ Tasks /\ Jobs /\ Removal /\ HalProducerIsOwner
      /\ halProducer' = halProducer /\ life' = life
      /\ native \in [Threads -> NativeType] /\ Slots \subseteq Threads
  BY ServiceLeavesHal, TypeSplit, Bounds DEF ServiceInv, hal, RelayInv, ConnectionInv
<1>2. mSlots'[s].owner = mSlots[s].owner
  BY <1>1, ServiceOwners DEF HalProducerIsOwner
<1>3. CASE Executor(s)
  BY <1>1, <1>2, <1>3, ExecutorRemoval, Zenon
<1>4. CASE native'[s] = native[s] /\ job'[s] = job[s]
  BY <1>1, <1>2, <1>4, Zenon DEF Removal
<1>5. ASSUME NEW r \in Slots \ {s}, Executor(r)
      PROVE  native'[s] = native[s] /\ job'[s] = job[s]
  <2>1. CASE UNCHANGED <<native, job>>
    BY <2>1
  <2>2. CASE ~UNCHANGED <<native, job>>
    BY <1>5, <2>2, ExecutorJobAt
  <2> QED
    BY <2>1, <2>2
<1>6. ASSUME NEW c \in Cameras, App(c), ~ExecuteRemove(c)
      PROVE  native'[s] = native[s] /\ job'[s] = job[s]
  <2>1. SlotsRest
    BY <1>6, AppCalls, ClientsRest, OwnThreads
  <2> QED
    BY <1>6, <2>1
       DEF SlotsRest, App, RegisterCamera, Reserve, RefuseRegistration, ExecuteRegister,
           OwnerRemoves, SetProducerReady,
           ReadyReturned, lifecycle
<1>7. ASSUME NEW c \in Cameras, ExecuteRemove(c)
      PROVE  \/ native'[s] = native[s] /\ job'[s] = job[s]
             \/ job'[s].at = "idle"
  <2>1. SlotsRest
    BY <1>7, AppCalls, ClientsRest, OwnThreads DEF App
  <2> QED
    BY <1>1, <1>7, <2>1, IdleType DEF SlotsRest, ExecuteRemove, ServiceTypes
<1>8. CASE \/ \E k \in calls : Accept(k)
           \/ \E a \in accepted : ExecuteEvent(a)
           \/ \E d \in deaths : OnHalDied(d)
           \/ \E r \in scheduled : RecoverHal(r)
           \/ RecoverProceeds
           \/ \E r \in Slots : RecoverSlot(r)
  <2>1. SlotsRest
    BY <1>8, CallbackDelivers, DeliveriesRest, RecoveryCalls, ClientsRest, OwnThreads DEF ServiceInv
  <2>2. job' = job
    BY <1>8, Zenon
       DEF Accept, ExecuteEvent, OnHalDied, RecoverHal, RecoverProceeds, RecoverSlot, lifecycle
  <2> QED
    BY <1>4, <2>1, <2>2 DEF SlotsRest
<1> QED
  BY <1>3, <1>4, <1>5, <1>6, <1>7, <1>8 DEF Service

-----------------------------------------------------------------------------
(***************************************************************************)
(* The service's invariant.                                                *)
(***************************************************************************)

LEMMA ServiceState ==
    ASSUME RelayInv, ServiceInv, Service
    PROVE  ServiceTypes' /\ Registry'
<1>1. ServiceTypes /\ Registry /\ Tasks /\ RelayTypeOK /\ calls \subseteq Calls
  BY DEF ServiceInv, RelayInv, ConnectionInv, RelayTypeOK
<1>2. ServiceTypes'
  BY <1>1, AppTypes, CallbackTypes, EventTypes, DeathTypes, RecoveryTypes, ExecutorTypes
     DEF Service
<1>3. Registry'
  BY <1>1, AppRegistry, CallbackRegistry, ExecutorRegistry DEF Service
<1> QED
  BY <1>2, <1>3

\* Only the HAL's callbacks add and remove what has an event number.
LEMMA CallsStay ==
    ASSUME RelayInv, ServiceInv, Service,
           \A k \in calls : ~Accept(k), \A a \in accepted : ~ExecuteEvent(a)
    PROVE  calls' = calls /\ accepted' = accepted
<1>1. ASSUME NEW c \in Cameras, App(c)
      PROVE  calls' = calls /\ accepted' = accepted
  <2>1. calls' = calls
    BY <1>1, AppCalls DEF relayGlobals
  <2>2. accepted' = accepted
    BY <1>1
       DEF App, RegisterCamera, Reserve, RefuseRegistration, ExecuteRegister, OwnerRemoves,
           ExecuteRemove,
           SetProducerReady, ReadyReturned, lifecycle, queued
  <2> QED
    BY <2>1, <2>2
<1>2. ASSUME NEW s \in Slots, Executor(s)
      PROVE  calls' = calls /\ accepted' = accepted
  <2>1. calls' = calls
    BY <1>2, ExecutorCalls DEF relayGlobals
  <2>2. accepted' = accepted
    BY <1>2, Zenon
       DEF Executor, StartRegister, RegisterReturned, RegisterFailed, StartRecover, StartHalDied,
           CallReturned, StartRemove, RemoveReturned, FinishRemove, StartConfigured, SurfaceCreated,
           StartClosed, Take, Skip, queued
  <2> QED
    BY <2>1, <2>2
<1>3. CASE \/ \E d \in deaths : OnHalDied(d)
           \/ \E r \in scheduled : RecoverHal(r)
           \/ RecoverProceeds
           \/ \E s \in Slots : RecoverSlot(s)
  BY <1>3, Zenon
     DEF OnHalDied, RecoverHal, RecoverProceeds, RecoverSlot, lifecycle, queued, relayGlobals,
         relayVars
<1> QED
  BY <1>1, <1>2, <1>3 DEF Service

LEMMA ServiceAccepting ==
    ASSUME RelayInv, ServiceInv, Service
    PROVE  Accepting'
<1>1. /\ ServiceTypes /\ Registry /\ Accepting /\ Announced /\ calls \subseteq Calls /\ Onward
      /\ accepted \subseteq [call : Calls, event : Nat]
  BY ServiceOnward, Zenon DEF ServiceInv, RelayInv, ConnectionInv, RelayTypeOK, ServiceTypes
<1>2. ASSUME NEW a \in accepted, a.call \in calls'
      PROVE  a.call.at = "accepted" /\ assigned'[a.call.registration] = a.call.slot
  <2>1. a.call \in Calls /\ a.call.at = "accepted" /\ assigned[a.call.registration] = a.call.slot
    BY <1>1 DEF Accepting
  <2>2. a.call.registration \in Cameras /\ a.call.slot \in Slots
    BY <2>1 DEF Calls
  <2> QED
    BY <1>1, <2>1, <2>2, Bounds, Zenon DEF Onward
<1>3. ASSUME NEW k \in calls, Accept(k)
      PROVE  Accepting'
  <2>1. \A a \in accepted : a.call # k
    BY <1>1, <1>3 DEF Accepting, Accept
  <2>2. Accepted(k) \/ Dropped(k)
    BY <1>3 DEF Accept
  <2>3. \A a \in accepted : a.call \in calls'
    BY <1>1, <2>1, <2>2 DEF Accepting, Accepted, Dropped
  <2>4. CASE accepted' = accepted
    BY <1>1, <1>2, <2>3, <2>4 DEF Accepting
  <2>5. CASE accepted' # accepted
    <3> DEFINE m == [k EXCEPT !.at = "accepted"]
               new == [call |-> m, event |-> mSlots[k.slot].event + 1]
    <3>1. /\ Accepted(k) /\ accepted' = accepted \cup {new}
          /\ Owns(k.slot, k.registration) /\ assigned' = assigned
      BY <1>3, <2>5 DEF Accept, NewerEvent, registry
    <3>2. /\ k \in Calls /\ m.at = "accepted" /\ m.slot = k.slot
          /\ m.registration = k.registration /\ m.token = k.token /\ m.epoch = k.epoch
          /\ k.slot \in Slots /\ k.registration \in Cameras
      BY <1>1, MovedCall DEF Calls
    <3>3. assigned[k.registration] = k.slot
      BY <1>1, <3>1, <3>2, Bounds DEF Owns, Registry
    <3>4. m \in calls' /\ new.call = m
      BY <3>1 DEF Accepted
    <3> HIDE DEF m
    <3>5. \A a \in accepted : a.call # m
      BY <1>1, <2>1, <3>2 DEF Accepting, Announced
    <3> HIDE DEF new
    <3> QED
      BY <1>1, <1>2, <2>3, <3>1, <3>2, <3>3, <3>4, <3>5 DEF Accepting
  <2> QED
    BY <2>4, <2>5
<1>4. ASSUME NEW a \in accepted, ExecuteEvent(a)
      PROVE  Accepting'
  <2>1. accepted' = accepted \ {a} /\ calls' = calls \ {a.call}
    BY <1>4 DEF ExecuteEvent, Dropped
  <2>2. \A b \in accepted' : b.call \in calls'
    BY <1>1, <2>1 DEF Accepting
  <2> QED
    BY <1>1, <1>2, <2>1, <2>2 DEF Accepting
<1>5. CASE calls' = calls /\ accepted' = accepted
  BY <1>1, <1>2, <1>5 DEF Accepting
<1> QED
  BY <1>3, <1>4, <1>5, CallsStay

-----------------------------------------------------------------------------
(***************************************************************************)
(* The slots' numbers, and what the producer is told.                      *)
(***************************************************************************)

\* Slot s has a new event number, or the numbers it had.
Overtaken(s) == mSlots'[s].event = mSlots[s].event + 1
Still(s) == /\ mSlots'[s].event = mSlots[s].event
            /\ mSlots'[s].connection = mSlots[s].connection
            /\ mSlots'[s].configuration = mSlots[s].configuration

LEMMA BeginRemoveNumbers ==
    ASSUME ServiceTypes, Registry, NEW c, NEW behalf, BeginRemove(c, behalf), NEW s \in Slots
    PROVE  /\ Overtaken(s) \/ Still(s)
           /\ mSlots'[s].connection = mSlots[s].connection
           /\ mSlots'[s].configuration = mSlots[s].configuration
<1>1. PICK r \in Slots : r = mSlotByCameraId[c]
  BY ToRemove DEF BeginRemove, ServiceTypes
<1>2. BeginClose(r)
  BY <1>1 DEF BeginRemove
<1> QED
  BY <1>2, SlotClosing, Zenon DEF ServiceTypes, Overtaken, Still

LEMMA SlotNumbers ==
    ASSUME RelayInv, ServiceInv, Service, NEW s \in Slots
    PROVE  /\ Overtaken(s) \/ Still(s)
           /\ \/ /\ mSlots'[s].connection = mSlots[s].connection
                 /\ mSlots'[s].configuration = mSlots[s].configuration
              \/ /\ \E k \in calls : Accept(k) /\ k.slot = s /\ mSlots'[s].connection = k.epoch
                 /\ Overtaken(s)
<1>1. ServiceTypes /\ Registry /\ Tasks
  BY DEF ServiceInv
<1>2. CASE mSlots' = mSlots
  BY <1>2 DEF Still
<1>3. ASSUME NEW c \in Cameras, App(c), mSlots' # mSlots
      PROVE  /\ Overtaken(s) \/ Still(s)
             /\ mSlots'[s].connection = mSlots[s].connection
             /\ mSlots'[s].configuration = mSlots[s].configuration
  <2>1. CASE OwnerRemoves(c)
    BY <1>1, <1>3, <2>1, BeginRemoveNumbers DEF OwnerRemoves
  <2>2. CASE Reserve(c)
    <3>1. PICK r \in Slots : mSlots' = [mSlots EXCEPT ![r].owner = c]
      BY <1>3, <2>2 DEF Reserve, FreeSlots
    <3> QED
      BY <1>1, <3>1 DEF ServiceTypes, SlotType, Still
  <2> QED
    BY <1>3, <2>1, <2>2
       DEF App, RegisterCamera, RefuseRegistration, ExecuteRegister, ExecuteRemove,
           SetProducerReady, ReadyReturned
<1>4. ASSUME NEW r \in Slots, Executor(r), mSlots' # mSlots
      PROVE  /\ Overtaken(s) \/ Still(s)
             /\ mSlots'[s].connection = mSlots[s].connection
             /\ mSlots'[s].configuration = mSlots[s].configuration
  <2>1. CASE RegisterFailed(r)
    BY <1>1, <1>4, <2>1, BeginRemoveNumbers DEF RegisterFailed
  <2>2. CASE FinishRemove(r)
    <3>1. mSlots' = [mSlots EXCEPT ![r] = [@ EXCEPT !.owner = None, !.closing = FALSE]]
      BY <1>4, <2>2 DEF FinishRemove
    <3>2. /\ mSlots'[r] = [mSlots[r] EXCEPT !.owner = None, !.closing = FALSE]
          /\ \A q \in Slots \ {r} : mSlots'[q] = mSlots[q]
      BY <1>1, <3>1 DEF ServiceTypes
    <3>3. mSlots[r] \in SlotType
      BY <1>1 DEF ServiceTypes
    <3> QED
      BY <3>2, <3>3, Zenon DEF SlotType, Still
  <2> QED
    BY <1>4, <2>1, <2>2
       DEF Executor, StartRegister, RegisterReturned, StartRecover, StartHalDied,
           CallReturned, StartRemove, RemoveReturned, StartConfigured, SurfaceCreated, StartClosed
<1>5. ASSUME NEW k \in calls, Accept(k), mSlots' # mSlots
      PROVE  \/ Still(s)
             \/ Overtaken(s) /\ k.slot = s /\ mSlots'[s].connection = k.epoch
  <2>1. k \in Calls
    BY DEF RelayInv, ConnectionInv, RelayTypeOK
  <2>2. /\ \A r \in Slots \ {k.slot} : mSlots'[r] = mSlots[r]
        /\ mSlots'[k.slot].event = mSlots[k.slot].event + 1
        /\ mSlots'[k.slot].connection = k.epoch
    BY <1>1, <1>5, <2>1, SlotAccepting, Zenon DEF Accept, ServiceTypes
  <2> QED
    BY <2>2 DEF Overtaken, Still
<1>6. CASE \/ \E a \in accepted : ExecuteEvent(a)
           \/ \E d \in deaths : OnHalDied(d)
           \/ \E r \in scheduled : RecoverHal(r)
           \/ RecoverProceeds
           \/ \E r \in Slots : RecoverSlot(r)
  BY <1>2, <1>6, Zenon DEF ExecuteEvent, OnHalDied, RecoverHal, RecoverProceeds, RecoverSlot
<1> QED
  BY <1>2, <1>3, <1>4, <1>5, <1>6 DEF Service, Still

\* Only a surface that has been made for the newest event moves a producer on.
Told(c) == producer'[c].connection # producer[c].connection \/ producer'[c].token # producer[c].token

TellsNewest(s, c) ==
    LET task == job[s].task
    IN /\ SurfaceCreated(s) /\ job[s].at = "create" /\ job'[s].at = "idle"
       /\ task.kind = "configured" /\ task.camera = c
       /\ IsCurrentEvent(s, c, task.event)
       /\ producer'[c] = [connection |-> task.connection, token |-> task.token, open |-> TRUE]

LEMMA ProducerTold ==
    ASSUME RelayInv, ServiceInv, Service, NEW c \in Cameras, Told(c)
    PROVE  \E s \in Slots : TellsNewest(s, c)
<1>1. ServiceTypes /\ Tasks
  BY DEF ServiceInv
<1>2. producer' # producer
  BY DEF Told
<1>3. PICK s \in Slots : Executor(s)
  BY <1>2, Zenon
     DEF Service, App, RegisterCamera, Reserve, RefuseRegistration, ExecuteRegister, OwnerRemoves,
         ExecuteRemove,
         SetProducerReady, ReadyReturned, Accept, ExecuteEvent, OnHalDied, RecoverHal,
         RecoverProceeds, RecoverSlot
<1>4. ASSUME NEW d, producer' = [producer EXCEPT ![d].open = FALSE]
      PROVE  FALSE
  BY <1>1, <1>4 DEF Told, ServiceTypes
<1>5. SurfaceCreated(s)
  BY <1>2, <1>3, <1>4
     DEF Executor, StartRegister, RegisterReturned, RegisterFailed, StartRecover, StartHalDied,
         CallReturned, StartRemove, RemoveReturned, FinishRemove, StartConfigured, StartClosed
<1>6. /\ job[s].at = "create" /\ job[s].task.kind = "configured"
      /\ job[s].task.camera \in Cameras
  BY <1>1, <1>5 DEF SurfaceCreated, Back, Tasks, KindsAt, TaskOK
<1>7. job'[s].at = "idle"
  BY <1>1, <1>5, IdleType DEF SurfaceCreated, Done, ServiceTypes
<1>8. /\ IsCurrentEvent(s, job[s].task.camera, job[s].task.event)
      /\ producer' = [producer EXCEPT ![job[s].task.camera] =
                         [connection |-> job[s].task.connection, token |-> job[s].task.token,
                          open |-> TRUE]]
  BY <1>2, <1>5 DEF SurfaceCreated
<1>9. /\ c = job[s].task.camera
      /\ producer'[c] = [connection |-> job[s].task.connection, token |-> job[s].task.token,
                         open |-> TRUE]
  BY <1>1, <1>6, <1>8 DEF Told, ServiceTypes
<1> QED
  BY <1>5, <1>6, <1>7, <1>8, <1>9, Zenon DEF TellsNewest

LEMMA ServiceHeard ==
    ASSUME RelayInv, ServiceInv, Service
    PROVE  Heard'
<1>1. /\ Heard /\ Tasks /\ Onward
      /\ \A k \in calls : k.epoch <= gNextConnectionEpoch
  BY ServiceOnward DEF ServiceInv, RelayInv, QueueInv, CallsOfConnections
<1>2. \A s \in Slots : mSlots'[s].connection <= gNextConnectionEpoch
  BY <1>1, SlotNumbers DEF Heard
<1>3. \A c \in Cameras : producer'[c].connection <= gNextConnectionEpoch
  <2>1. SUFFICES ASSUME NEW c \in Cameras PROVE producer'[c].connection <= gNextConnectionEpoch
    OBVIOUS
  <2>2. CASE Told(c)
    <3>1. PICK s \in Slots : TellsNewest(s, c)
      BY <2>2, ProducerTold
    <3>2. job[s].task.connection <= gNextConnectionEpoch
      BY <1>1, <3>1 DEF TellsNewest, Tasks, TaskOK
    <3> QED
      BY <3>1, <3>2 DEF TellsNewest
  <2> QED
    BY <1>1, <2>2 DEF Told, Heard
<1> QED
  BY <1>1, <1>2, <1>3 DEF Heard, Onward

LEMMA ServiceKept == RelayInv /\ ServiceInv /\ [ServiceNext]_vars => ServiceInv'
<1> SUFFICES ASSUME RelayInv, ServiceInv, [ServiceNext]_vars PROVE ServiceInv'
  OBVIOUS
<1>1. CASE Service
  <2>1. Announced'
    BY <1>1, ServiceCalls, AnnouncedNext DEF ServiceInv
  <2> QED
    BY <1>1, <2>1, ServiceState, ServiceTasks, ServiceJobs, ServiceOwners, ServiceRemoval,
       ServiceAccepting, ServiceHeard DEF ServiceInv
<1>2. CASE UNCHANGED vars
  <2>1. /\ UNCHANGED <<app, removing, mCameras, mSlotByCameraId, assigned, mSlots, accepted,
                       mLifecycle, job, mRecoveryRound, scheduled, recovery, producer>>
        /\ UNCHANGED <<life, lives, halCallback, halProducer, halToken, halNextToken, calls, native,
                       gNextConnectionEpoch>>
    BY <1>2, UnchangedService DEF vars, relayVars, hal, connection
  <2>2. ServiceTypes' /\ Registry' /\ HalProducerIsOwner' /\ Removal' /\ Announced' /\ Accepting'
        /\ Heard'
    BY <2>1
       DEF ServiceInv, ServiceTypes, Registry, HalProducerIsOwner, Removal, Announced, Accepting,
           Heard
  <2>3. Tasks'
    BY <2>1 DEF ServiceInv, Tasks, TaskOK
  <2>4. Jobs'
    BY <2>1 DEF ServiceInv, Jobs, AtRegister
  <2> QED
    BY <2>2, <2>3, <2>4 DEF ServiceInv
<1> QED
  BY <1>1, <1>2, RelayService DEF ServiceNext

LEMMA InitService == Init => ServiceInv
<1> SUFFICES ASSUME Init PROVE ServiceInv
  OBVIOUS
<1>1. /\ 0 \in 0 .. MaxLives /\ 0 \in 0 .. MaxTokens
      /\ None \in Registration /\ None \notin Slots
  <2>1. 0 \in 0 .. MaxLives /\ 0 \in 0 .. MaxTokens
    BY Bounds
  <2> QED
    BY <2>1, Bounds, Zenon DEF Registration
<1>2. ServiceTypes
  <2>1. NewSlot \in SlotType
    BY <1>1 DEF NewSlot, SlotType
  <2>2. NoAttempt \in [round : Nat, attempt : 0 .. MaxAttempts - 1,
                       at : {"idle", "isHalUp", "slots"}, slots : SUBSET Slots]
    BY ServiceAssumption DEF NoAttempt
  <2>3. <<>> \in Seq(TaskType)
    OBVIOUS
  <2> QED
    BY <1>1, <2>1, <2>2, <2>3, IdleType DEF Init, ServiceTypes
<1>3. Registry
  BY DEF Init, Registry, NewSlot
<1>4. Tasks
  BY IdleType DEF Init, Tasks, KindsAt
<1>5. Jobs
  <2>1. \A t \in Threads : native[t].method = "none" /\ native[t].at = "java"
    BY DEF Init, RelayInit, Returned
  <2> QED
    BY <2>1, OwnThreads, IdleType DEF Init, Jobs, AtRegister
<1>6. HalProducerIsOwner /\ Removal
  BY DEF Init, RelayInit, HalProducerIsOwner, Removal
<1>7. Announced
  BY DEF Init, RelayInit, Announced
<1>8. Accepting /\ Heard
  BY DEF Init, RelayInit, Accepting, Heard, NewSlot
<1> QED
  BY <1>2, <1>3, <1>4, <1>5, <1>6, <1>7, <1>8 DEF ServiceInv

-----------------------------------------------------------------------------
(***************************************************************************)
(* Theorems.                                                               *)
(***************************************************************************)

THEOREM ServiceCorrect == ServiceSpec => [](RelayInv /\ ServiceInv)
<1>1. Init => RelayInv /\ ServiceInv
  BY InitService, InitConnection, InitQueue, InitRegistration DEF Init, RelayInv
<1>2. RelayInv /\ ServiceInv /\ [ServiceNext]_vars => (RelayInv /\ ServiceInv)'
  BY ServiceCalls, RelayKept, ServiceKept
<1> QED
  BY <1>1, <1>2, PTL DEF ServiceSpec

\* The service calls the relay as RelayJni.tla says its callers do: what concerns
\* a slot reaches it from that slot's executor, one call after the other
\* (VirtualCameraService.java:53 and 68-69), with the connections and tokens the
\* relay has given out, and every callback and death is disposed of once.  The
\* service is an implementation of the relay with its open caller.
THEOREM ServiceImplementsRelay == ServiceSpec => CallsRelayInTurn
<1>1. Init => RelayInit
  BY DEF Init
<1> QED
  BY <1>1, ServiceCalls, ServiceCorrect, PTL DEF ServiceSpec, CallsRelayInTurn, Spec

\* What the relay guarantees to any caller it guarantees to the service: with
\* VirtualCameraService.java on top of VirtualCameraRelayJni.cpp a connection is
\* completed or undone by a thread that is there, no queue outlives its
\* connection, and the relay admits the callbacks of the HAL's producers.
THEOREM RelayUnderService ==
    ServiceSpec => [](RelayTypeOK /\ ConnectionOwned /\ QueueOfConnection /\ RegistrationAgrees)
  BY ServiceImplementsRelay, RelayTypeCorrect, ConnectionOwnedCorrect, QueueCorrect,
     RegistrationCorrect, PTL DEF CallsRelayInTurn

\* The fields of VirtualCameraService.java:44-62 and LifecycleSlot.java:5-9 keep
\* their ranges, a camera whose slot is its own is in the registry, and one in the
\* registry without a slot is on its way out of registerCamera.
THEOREM ServiceTypeCorrect == ServiceSpec => []ServiceTypeOK
<1>1. RelayInv /\ ServiceInv => ServiceTypeOK
  <2> SUFFICES ASSUME RelayInv, ServiceInv PROVE ServiceTypeOK
    OBVIOUS
  <2>1. /\ RelayTypeOK /\ ServiceTypes /\ Registry /\ Accepting
    BY DEF RelayInv, ServiceInv, ConnectionInv
  <2>2. accepted \subseteq [call : calls, event : Nat]
    <3>1. SUFFICES ASSUME NEW a \in accepted PROVE a \in [call : calls, event : Nat]
      OBVIOUS
    <3>2. a \in [call : Calls, event : Nat] /\ a.call \in calls
      BY <2>1 DEF ServiceTypes, Accepting
    <3> QED
      BY <3>2
  <2>3. ASSUME NEW c \in Cameras
        PROVE  /\ (\E s \in Slots : Owns(s, c)) => c \in mCameras
               /\ c \in mCameras => app[c] = "noSlot" \/ \E s \in Slots : Owns(s, c)
    <3>1. ASSUME c \in mCameras, app[c] # "noSlot"
          PROVE  assigned[c] \in Slots /\ Owns(assigned[c], c)
      BY <2>1, <3>1 DEF Registry, Owns, ServiceTypes, SlotType
    <3>2. ASSUME NEW s \in Slots, Owns(s, c)
          PROVE  c \in mCameras
      BY <2>1, <3>2, Bounds DEF Registry, Owns
    <3> QED
      BY <3>1, <3>2
  <2> QED
    BY <2>1, <2>2, <2>3 DEF ServiceTypeOK, ServiceTypes, Places
<1> QED
  BY <1>1, ServiceCorrect, PTL

\* LifecycleSlot.java:3, "A slot remains reserved until its owner's external
\* teardown completes": however registrations, rejections, removals, deaths of
\* the HAL and recovery interleave, the HAL never has a producer at a slot that
\* is not the slot's owner.
THEOREM SlotReservedUntilGone == ServiceSpec => []HalProducerIsOwner
<1>1. ServiceInv => HalProducerIsOwner
  BY DEF ServiceInv
<1> QED
  BY <1>1, ServiceCorrect, PTL

-----------------------------------------------------------------------------
(***************************************************************************)
(* The order of events.                                                    *)
(***************************************************************************)

\* An event stays in order when the slot's number goes on, or when the slot's
\* configuration stays and the producer hears of nothing meanwhile.
LEMMA EventStays ==
    ASSUME NEW s \in Slots, NEW event, NEW camera, NEW conn, NEW token, NEW closed \in BOOLEAN,
           mSlots[s].event \in Nat, event \in Nat,
           EventOK(s, event, camera, conn, token, closed),
           Overtaken(s) \/ Still(s),
           closed \/ event # mSlots[s].event \/ ~Told(camera)
    PROVE  /\ EventOK(s, event, camera, conn, token, closed)'
           /\ event = mSlots'[s].event => event = mSlots[s].event /\ Still(s)
<1>1. CASE Overtaken(s)
  BY <1>1 DEF EventOK, Overtaken
<1>2. CASE Still(s)
  BY <1>2 DEF EventOK, Still, Told, Last, Newer
<1> QED
  BY <1>1, <1>2

\* What is queued and accepted for a camera is at its slot.
LEMMA EventPlaces ==
    ASSUME ServiceInv, NEW s \in Slots
    PROVE  /\ mSlots[s].event \in Nat
           /\ \A a \in accepted : /\ a.event \in Nat /\ a.call.slot \in Slots
                                   /\ a.call.closed \in BOOLEAN /\ a.call.registration \in Cameras
                                   /\ assigned[a.call.registration] = a.call.slot
           /\ \A i \in DOMAIN mLifecycle[s] :
                 /\ mLifecycle[s][i].event \in Nat
                 /\ mLifecycle[s][i].kind \in {"configured", "closed"}
                      => /\ mLifecycle[s][i].camera \in Cameras
                         /\ assigned[mLifecycle[s][i].camera] = s
           /\ job[s].task.event \in Nat
           /\ job[s].at = "create" => /\ job[s].task.kind = "configured"
                                      /\ job[s].task.camera \in Cameras
                                      /\ assigned[job[s].task.camera] = s
<1>1. ServiceTypes /\ Tasks /\ Accepting
  BY DEF ServiceInv
<1>2. mSlots[s].event \in Nat
  BY <1>1 DEF ServiceTypes, SlotType
<1>3. \A a \in accepted : /\ a.event \in Nat /\ a.call.slot \in Slots
                           /\ a.call.closed \in BOOLEAN /\ a.call.registration \in Cameras
                           /\ assigned[a.call.registration] = a.call.slot
  BY <1>1 DEF ServiceTypes, Calls, Accepting
<1>4. \A i \in DOMAIN mLifecycle[s] :
          /\ mLifecycle[s][i].event \in Nat
          /\ mLifecycle[s][i].kind \in {"configured", "closed"}
               => mLifecycle[s][i].camera \in Cameras /\ assigned[mLifecycle[s][i].camera] = s
  <2>1. SUFFICES ASSUME NEW i \in DOMAIN mLifecycle[s]
                 PROVE  /\ mLifecycle[s][i].event \in Nat
                        /\ mLifecycle[s][i].kind \in {"configured", "closed"}
                             => /\ mLifecycle[s][i].camera \in Cameras
                                /\ assigned[mLifecycle[s][i].camera] = s
    OBVIOUS
  <2>2. mLifecycle[s][i] \in TaskType
    BY <1>1 DEF ServiceTypes
  <2>3. TaskOK(s, mLifecycle[s][i])
    BY <1>1 DEF Tasks
  <2> QED
    BY <2>2, <2>3 DEF TaskType, TaskOK
<1>5. /\ job[s].task.event \in Nat
      /\ job[s].at = "create" => /\ job[s].task.kind = "configured"
                                 /\ job[s].task.camera \in Cameras
                                 /\ assigned[job[s].task.camera] = s
  <2>1. job[s].task \in TaskType /\ job[s].at \in Places
    BY <1>1 DEF ServiceTypes
  <2>2. job[s].at = "create" => job[s].task.kind = "configured" /\ TaskOK(s, job[s].task)
    BY <1>1 DEF Tasks, KindsAt
  <2> QED
    BY <2>1, <2>2 DEF TaskType, TaskOK
<1> QED
  BY <1>2, <1>3, <1>4, <1>5

\* When a producer hears of the newest configuration, nothing else carries it.
LEMMA ToldOnce ==
    ASSUME RelayInv, ServiceInv, EventInv, Service, NEW s \in Slots, NEW c \in Cameras, Told(c),
           assigned[c] = s
    PROVE  /\ TellsNewest(s, c) /\ job'[s].at = "idle"
           /\ \A a \in accepted : ~NewestCall(s, a)
           /\ \A i \in DOMAIN mLifecycle[s] : ~Newest(s, mLifecycle[s][i])
<1>1. PICK r \in Slots : TellsNewest(r, c)
  BY ProducerTold
<1>2. r = s
  BY <1>1, EventPlaces DEF TellsNewest
<1> QED
  BY <1>1, <1>2 DEF TellsNewest, IsCurrentEvent, EventInv, DeliveredOnce, Newest

\* What was in order before a step of the service is so afterwards.
LEMMA AcceptedStays ==
    ASSUME RelayInv, ServiceInv, EventInv, Service, NEW a \in accepted
    PROVE  /\ EventOK(a.call.slot, a.event, a.call.registration, a.call.epoch, a.call.token,
                      a.call.closed)'
           /\ \A s \in Slots : NewestCall(s, a)' => NewestCall(s, a) /\ Still(s)
<1>1. /\ a.call.slot \in Slots /\ a.event \in Nat /\ a.call.registration \in Cameras
      /\ a.call.closed \in BOOLEAN /\ mSlots[a.call.slot].event \in Nat
  <2>1. 0 \in Slots
    BY Bounds
  <2>2. /\ a.call.slot \in Slots /\ a.event \in Nat /\ a.call.registration \in Cameras
        /\ a.call.closed \in BOOLEAN
    BY <2>1, EventPlaces
  <2> QED
    BY <2>2, EventPlaces
<1>2. /\ EventOK(a.call.slot, a.event, a.call.registration, a.call.epoch, a.call.token,
                 a.call.closed)
      /\ assigned[a.call.registration] = a.call.slot
  BY DEF EventInv, Events
<1>3. a.call.closed \/ a.event # mSlots[a.call.slot].event \/ ~Told(a.call.registration)
  BY <1>1, <1>2, ToldOnce DEF NewestCall
<1>4. Overtaken(a.call.slot) \/ Still(a.call.slot)
  BY <1>1, SlotNumbers
<1>5. /\ EventOK(a.call.slot, a.event, a.call.registration, a.call.epoch, a.call.token,
                 a.call.closed)'
      /\ a.event = mSlots'[a.call.slot].event
           => a.event = mSlots[a.call.slot].event /\ Still(a.call.slot)
  BY <1>1, <1>2, <1>3, <1>4, EventStays
<1> QED
  BY <1>5 DEF NewestCall

LEMMA QueuedStays ==
    ASSUME RelayInv, ServiceInv, EventInv, Service, NEW s \in Slots, NEW i \in DOMAIN mLifecycle[s],
           NEW task, task = mLifecycle[s][i]
    PROVE  /\ task.kind \in {"configured", "closed"}
                => EventOK(s, task.event, task.camera, task.connection, task.token,
                           task.kind = "closed")'
           /\ Newest(s, task)' => Newest(s, task) /\ Still(s)
<1>1. CASE task.kind \in {"configured", "closed"}
  <2>1. task.event \in Nat /\ task.camera \in Cameras /\ assigned[task.camera] = s
    BY <1>1, EventPlaces
  <2>2. EventOK(s, task.event, task.camera, task.connection, task.token, task.kind = "closed")
    BY <1>1, Zenon DEF EventInv, Events
  <2>3. task.kind = "closed" \/ task.event # mSlots[s].event \/ ~Told(task.camera)
    BY <1>1, <2>1, ToldOnce DEF Newest
  <2>4. mSlots[s].event \in Nat /\ (task.kind = "closed") \in BOOLEAN
    BY EventPlaces
  <2>5. Overtaken(s) \/ Still(s)
    BY SlotNumbers
  <2>6. /\ EventOK(s, task.event, task.camera, task.connection, task.token, task.kind = "closed")'
        /\ task.event = mSlots'[s].event => task.event = mSlots[s].event /\ Still(s)
    BY <2>1, <2>2, <2>3, <2>4, <2>5, EventStays, Zenon
  <2> QED
    BY <2>6 DEF Newest
<1>2. CASE task.kind \notin {"configured", "closed"}
  BY <1>2 DEF Newest
<1> QED
  BY <1>1, <1>2

LEMMA CreatingStays ==
    ASSUME RelayInv, ServiceInv, EventInv, Service, NEW s \in Slots, job[s].at = "create",
           job'[s].at # "idle", NEW task, task = job[s].task
    PROVE  /\ EventOK(s, task.event, task.camera, task.connection, task.token, FALSE)'
           /\ Newest(s, task)' => Newest(s, task) /\ Still(s)
<1>1. task.event \in Nat /\ task.camera \in Cameras /\ assigned[task.camera] = s
  BY EventPlaces
<1>2. EventOK(s, task.event, task.camera, task.connection, task.token, FALSE)
  BY Zenon DEF EventInv, Events
<1>3. ~Told(task.camera)
  BY <1>1, ToldOnce
<1>4. mSlots[s].event \in Nat /\ FALSE \in BOOLEAN
  BY EventPlaces
<1>5. Overtaken(s) \/ Still(s)
  BY SlotNumbers
<1>6. /\ EventOK(s, task.event, task.camera, task.connection, task.token, FALSE)'
      /\ task.event = mSlots'[s].event => task.event = mSlots[s].event /\ Still(s)
  BY <1>1, <1>2, <1>3, <1>4, <1>5, EventStays, Zenon
<1> QED
  BY <1>6, Zenon DEF Newest

\* What is new among the accepted callbacks, in a queue, and at work.
AcceptedAs(k, a) ==
    /\ Accept(k) /\ accepted' = accepted \cup {a}
    /\ a.call.slot = k.slot /\ a.call.registration = k.registration /\ a.call.epoch = k.epoch
    /\ a.call.token = k.token /\ a.call.closed = k.closed
    /\ Overtaken(k.slot) /\ a.event = mSlots'[k.slot].event
    /\ mSlots'[k.slot].connection = k.epoch /\ mSlots'[k.slot].configuration = k.token
    /\ NewerEvent(k.slot, k.registration, k.epoch, k.token, k.closed)

QueuedAs(s, a, task) ==
    /\ ExecuteEvent(a) /\ a.call.slot = s
    /\ task.event = a.event /\ task.camera = a.call.registration
    /\ task.connection = a.call.epoch /\ task.token = a.call.token
    /\ task.kind = IF a.call.closed THEN "closed" ELSE "configured"

Shorter(s) ==
    \A i \in DOMAIN mLifecycle'[s] :
        i \in Nat /\ i + 1 \in DOMAIN mLifecycle[s] /\ mLifecycle'[s][i] = mLifecycle[s][i + 1]

Longer(s) ==
    \A i \in DOMAIN mLifecycle'[s] :
        \/ i \in DOMAIN mLifecycle[s] /\ mLifecycle'[s][i] = mLifecycle[s][i]
        \/ /\ i = Len(mLifecycle[s]) + 1
           /\ \/ mLifecycle'[s][i].kind \notin {"configured", "closed"}
              \/ \E a \in accepted : QueuedAs(s, a, mLifecycle'[s][i])

LEMMA AcceptedMoves ==
    ASSUME RelayInv, ServiceInv, Service, NEW a \in accepted'
    PROVE  a \in accepted \/ \E k \in calls : AcceptedAs(k, a)
<1>1. CASE accepted' \subseteq accepted
  BY <1>1
<1>2. CASE ~(accepted' \subseteq accepted)
  <2>1. PICK k \in calls : Accept(k)
    BY <1>2, CallsStay, Zenon DEF ExecuteEvent
  <2> DEFINE m == [k EXCEPT !.at = "accepted"]
             new == [call |-> m, event |-> mSlots[k.slot].event + 1]
  <2>2. /\ accepted' = accepted \cup {new}
        /\ NewerEvent(k.slot, k.registration, k.epoch, k.token, k.closed)
        /\ mSlots' = [mSlots EXCEPT ![k.slot] =
                      [@ EXCEPT !.connection = k.epoch, !.configuration = k.token,
                                !.configurationClosed = k.closed,
                                !.event = mSlots[k.slot].event + 1]]
    BY <1>2, <2>1 DEF Accept
  <2>3. k \in Calls /\ mSlots \in [Slots -> SlotType]
    BY DEF RelayInv, ConnectionInv, RelayTypeOK, ServiceInv, ServiceTypes
  <2>4. /\ mSlots'[k.slot].event = mSlots[k.slot].event + 1
        /\ mSlots'[k.slot].connection = k.epoch /\ mSlots'[k.slot].configuration = k.token
    BY <2>2, <2>3, SlotAccepting, Zenon
  <2>5. /\ m.slot = k.slot /\ m.registration = k.registration /\ m.token = k.token
        /\ m.closed = k.closed /\ m.epoch = k.epoch
    BY <2>3, MovedCall
  <2>6. new.call = m /\ new.event = mSlots[k.slot].event + 1
    OBVIOUS
  <2> HIDE DEF m, new
  <2>7. CASE a = new
    BY <2>1, <2>2, <2>4, <2>5, <2>6, <2>7 DEF AcceptedAs, Overtaken
  <2> QED
    BY <2>2, <2>7
<1> QED
  BY <1>1, <1>2

LEMMA PlainAdded ==
    ASSUME ServiceTypes, NEW s \in Slots, NEW task \in TaskType,
           task.kind \notin {"configured", "closed"}, Execute(s, task), NEW r \in Slots
    PROVE  Longer(r)
<1>1. /\ \A q \in Slots \ {s} : mLifecycle'[q] = mLifecycle[q]
      /\ DOMAIN mLifecycle'[s] = DOMAIN mLifecycle[s] \cup {Len(mLifecycle[s]) + 1}
      /\ \A i \in DOMAIN mLifecycle[s] : mLifecycle'[s][i] = mLifecycle[s][i]
      /\ mLifecycle'[s][Len(mLifecycle[s]) + 1] = task
  BY Executed DEF ServiceTypes
<1> QED
  BY <1>1 DEF Longer

LEMMA HeadTaken ==
    ASSUME ServiceTypes, NEW s \in Slots, mLifecycle[s] # <<>>,
           mLifecycle' = [mLifecycle EXCEPT ![s] = Tail(@)], NEW r \in Slots
    PROVE  IF r = s THEN Shorter(r) ELSE Longer(r)
<1>1. /\ \A q \in Slots \ {s} : mLifecycle'[q] = mLifecycle[q]
      /\ \A i \in DOMAIN mLifecycle'[s] :
             /\ i \in Nat /\ i + 1 # 1 /\ i + 1 \in DOMAIN mLifecycle[s]
             /\ mLifecycle'[s][i] = mLifecycle[s][i + 1]
  BY HeadGone DEF ServiceTypes
<1>2. Shorter(s)
  BY <1>1 DEF Shorter
<1>3. ASSUME r # s
      PROVE  Longer(r)
  BY <1>1, <1>3 DEF Longer
<1> QED
  BY <1>2, <1>3

LEMMA QueueMoves ==
    ASSUME RelayInv, ServiceInv, Service, NEW s \in Slots
    PROVE  Shorter(s) \/ Longer(s)
<1>1. ServiceTypes /\ Registry /\ RelayTypeOK /\ Tasks
  BY DEF ServiceInv, RelayInv, ConnectionInv
<1>2. CASE mLifecycle'[s] = mLifecycle[s]
  BY <1>2 DEF Longer
<1>3. ASSUME NEW c \in Cameras, App(c), mLifecycle' # mLifecycle
      PROVE  Longer(s)
  <2>1. PICK kind \in {"register", "remove"} : Execute(assigned[c], Task(kind, c))
    BY <1>3
       DEF App, RegisterCamera, Reserve, RefuseRegistration, ExecuteRegister, OwnerRemoves,
           ExecuteRemove,
           SetProducerReady, ReadyReturned, lifecycle, queued
  <2>2. PICK task \in TaskType : task = Task(kind, c) /\ task.kind = kind
    BY CameraTask DEF Kinds, Registration
  <2>3. assigned[c] \in Slots
    <3>1. app[c] = "execute" \/ removing[c] # "no"
      BY <1>3
         DEF App, RegisterCamera, Reserve, RefuseRegistration, ExecuteRegister, OwnerRemoves,
             ExecuteRemove,
             SetProducerReady, ReadyReturned, lifecycle, queued
    <3>2. /\ app[c] \in {"new", "max", "noSlot", "refused"} <=> assigned[c] = None
          /\ removing[c] # "no" => assigned[c] # None
      BY <1>1 DEF Registry
    <3> QED
      BY <1>1, <3>1, <3>2 DEF ServiceTypes
  <2>4. PICK r \in Slots : r = assigned[c]
    BY <2>3
  <2> QED
    BY <1>1, <2>1, <2>2, <2>4, PlainAdded
<1>4. ASSUME NEW a \in accepted, ExecuteEvent(a)
      PROVE  Longer(s)
  <2> DEFINE kind == IF a.call.closed THEN "closed" ELSE "configured"
             task == [Task(kind, a.call.registration) EXCEPT
                          !.event = a.event, !.connection = a.call.epoch, !.token = a.call.token]
  <2>1. Execute(a.call.slot, task)
    BY <1>4 DEF ExecuteEvent
  <2>2. a \in [call : Calls, event : Nat]
    BY <1>1 DEF ServiceTypes
  <2>3. /\ task \in TaskType /\ task.kind = kind /\ task.camera = a.call.registration
        /\ task.event = a.event /\ task.connection = a.call.epoch /\ task.token = a.call.token
        /\ a.call.slot \in Slots
    BY <2>2, EventTask, Zenon
  <2> HIDE DEF task
  <2>4. /\ \A q \in Slots \ {a.call.slot} : mLifecycle'[q] = mLifecycle[q]
        /\ DOMAIN mLifecycle'[a.call.slot]
              = DOMAIN mLifecycle[a.call.slot] \cup {Len(mLifecycle[a.call.slot]) + 1}
        /\ \A i \in DOMAIN mLifecycle[a.call.slot] :
               mLifecycle'[a.call.slot][i] = mLifecycle[a.call.slot][i]
        /\ mLifecycle'[a.call.slot][Len(mLifecycle[a.call.slot]) + 1] = task
    BY <1>1, <2>1, <2>3, Executed DEF ServiceTypes
  <2>5. QueuedAs(a.call.slot, a, task)
    BY <1>4, <2>3 DEF QueuedAs
  <2> QED
    BY <2>4, <2>5 DEF Longer
<1>5. ASSUME NEW d \in deaths, OnHalDied(d)
      PROVE  Longer(s)
  <2> DEFINE task == [Task("halDied", None) EXCEPT !.connection = d.epoch]
  <2>1. task \in TaskType /\ task.kind = "halDied"
    <3>1. d.epoch \in 0 .. MaxLives
      BY <1>1, Bounds DEF RelayTypeOK
    <3> QED
      BY <3>1, DiedTask
  <2>2. mLifecycle' = [r \in Slots |-> Append(mLifecycle[r], task)]
    BY <1>5 DEF OnHalDied
  <2> HIDE DEF task
  <2>3. mLifecycle[s] \in Seq(TaskType) /\ mLifecycle'[s] = Append(mLifecycle[s], task)
    BY <1>1, <2>2 DEF ServiceTypes
  <2>4. \A i \in DOMAIN mLifecycle'[s] :
            \/ i \in DOMAIN mLifecycle[s] /\ mLifecycle'[s][i] = mLifecycle[s][i]
            \/ i = Len(mLifecycle[s]) + 1 /\ mLifecycle'[s][i] = task
    BY <2>3
  <2> QED
    BY <2>1, <2>4 DEF Longer
<1>6. ASSUME NEW r \in Slots, RecoverSlot(r), mLifecycle' # mLifecycle
      PROVE  Longer(s)
  <2> DEFINE c == mSlots[r].owner
             task == [Task("recover", c) EXCEPT !.round = recovery.round]
  <2>1. /\ Current(r) = c /\ c \in Cameras /\ recovery.round \in Nat
    BY <1>1, <1>6 DEF RecoverSlot, Current, ServiceTypes, SlotType, Registration
  <2>2. Execute(r, task)
    BY <1>6, <2>1 DEF RecoverSlot
  <2>3. task \in TaskType /\ task.kind = "recover"
    BY <2>1, RecoverTask
  <2> HIDE DEF task
  <2>4. PICK t \in TaskType : t = task
    BY <2>3
  <2> QED
    BY <1>1, <2>2, <2>3, <2>4, PlainAdded
<1>7. ASSUME NEW r \in Slots, Executor(r), mLifecycle' # mLifecycle
      PROVE  Shorter(s) \/ Longer(s)
  <2>1. mLifecycle[r] # <<>> /\ mLifecycle' = [mLifecycle EXCEPT ![r] = Tail(@)]
    BY <1>7, Zenon
       DEF Executor, StartRegister, RegisterReturned, RegisterFailed, StartRecover, StartHalDied,
           CallReturned, StartRemove, RemoveReturned, FinishRemove, StartConfigured, SurfaceCreated,
           StartClosed, Take, Skip, NextTask, queued
  <2> QED
    BY <1>1, <2>1, HeadTaken, Zenon
<1>8. CASE \/ \E k \in calls : Accept(k)
           \/ \E r \in scheduled : RecoverHal(r)
           \/ RecoverProceeds
  BY <1>2, <1>8, Zenon DEF Accept, RecoverHal, RecoverProceeds, lifecycle, queued
<1> QED
  BY <1>2, <1>3, <1>4, <1>5, <1>6, <1>7, <1>8 DEF Service

\* A surface is made by the task that was at the head of the queue.
LEMMA CreatingMoves ==
    ASSUME RelayInv, ServiceInv, Service, NEW s \in Slots, job'[s].at = "create"
    PROVE  \/ job[s].at = "create" /\ job'[s].task = job[s].task
           \/ /\ 1 \in DOMAIN mLifecycle[s] /\ job'[s].task = mLifecycle[s][1]
              /\ Shorter(s) /\ accepted' = accepted
              /\ job'[s].task.kind = "configured"
<1>1. ServiceTypes /\ Tasks
  BY DEF ServiceInv
<1>2. CASE job'[s] = job[s]
  BY <1>2
<1>3. CASE StartConfigured(s) /\ job'[s] # job[s]
  <2>1. /\ mLifecycle[s] # <<>> /\ Take(s, "create") /\ Head(mLifecycle[s]).kind = "configured"
    BY <1>3 DEF StartConfigured, NextTask, Skip
  <2>2. Head(mLifecycle[s]) = mLifecycle[s][1] /\ 1 \in DOMAIN mLifecycle[s]
    BY <1>1, <2>1, HeadTask
  <2>3. accepted' = accepted /\ job'[s].task = Head(mLifecycle[s])
    BY <1>1, <2>1 DEF Take, ServiceTypes
  <2>4. Shorter(s)
    BY <1>1, <2>1, HeadTaken, Zenon DEF Take
  <2> QED
    BY <2>1, <2>2, <2>3, <2>4
<1>4. ASSUME NEW r \in Slots, Executor(r), ~StartConfigured(r), job' # job
      PROVE  job'[s] = job[s] \/ job'[s].at # "create"
  <2>1. \/ \E at \in Places \ {"create"} : Take(r, at) \/ Waits(r, at)
        \/ Done(r)
    BY <1>4
       DEF Executor, StartRegister, RegisterReturned, RegisterFailed, StartRecover, StartHalDied,
           CallReturned, StartRemove, RemoveReturned, FinishRemove, SurfaceCreated, StartClosed, Skip,
           Places
  <2> QED
    BY <1>1, <2>1, IdleType DEF Take, Waits, Done, ServiceTypes
<1>5. ASSUME NEW r \in Slots \ {s}, StartConfigured(r)
      PROVE  job'[s] = job[s]
  BY <1>1, <1>5 DEF StartConfigured, Take, Skip, ServiceTypes
<1>6. ASSUME NEW c \in Cameras, App(c)
      PROVE  job'[s] = job[s] \/ job'[s].at # "create"
  <2>1. job' = job \/ job' = [job EXCEPT ![assigned[c]] = Idle]
    BY <1>6
       DEF App, RegisterCamera, Reserve, RefuseRegistration, ExecuteRegister, OwnerRemoves,
           ExecuteRemove,
           SetProducerReady, ReadyReturned, lifecycle
  <2> QED
    BY <1>1, <2>1, IdleType DEF ServiceTypes
<1>7. CASE \/ \E k \in calls : Accept(k)
           \/ \E a \in accepted : ExecuteEvent(a)
           \/ \E d \in deaths : OnHalDied(d)
           \/ \E r \in scheduled : RecoverHal(r)
           \/ RecoverProceeds
           \/ \E r \in Slots : RecoverSlot(r)
  BY <1>2, <1>7, Zenon
     DEF Accept, ExecuteEvent, OnHalDied, RecoverHal, RecoverProceeds, RecoverSlot, lifecycle
<1> QED
  BY <1>2, <1>3, <1>4, <1>5, <1>6, <1>7 DEF Service

LEMMA ServiceEvents ==
    ASSUME RelayInv, ServiceInv, EventInv, Service
    PROVE  Events'
<1>1. /\ Onward /\ Registry /\ ServiceTypes /\ calls \subseteq Calls
      /\ NoneAhead /\ Accepting'
  BY ServiceOnward, ServiceAccepting
     DEF ServiceInv, RelayInv, ConnectionInv, RelayTypeOK, EventInv
<1>2. ASSUME NEW a \in accepted'
      PROVE  /\ a.call.registration \in Cameras /\ assigned'[a.call.registration] = a.call.slot
             /\ EventOK(a.call.slot, a.event, a.call.registration, a.call.epoch, a.call.token,
                        a.call.closed)'
  <2>1. assigned'[a.call.registration] = a.call.slot
    BY <1>1 DEF Accepting
  <2>2. a.call.registration \in Cameras
    BY ServiceState DEF ServiceTypes, Calls
  <2>3. CASE a \in accepted
    BY <2>1, <2>2, <2>3, AcceptedStays
  <2>4. ASSUME NEW k \in calls, AcceptedAs(k, a)
        PROVE  EventOK(a.call.slot, a.event, a.call.registration, a.call.epoch, a.call.token,
                       a.call.closed)'
    <3> DEFINE s == a.call.slot
               c == a.call.registration
    <3>1. /\ s \in Slots /\ mSlots[s].event \in Nat /\ mSlots[s].connection \in Nat
          /\ mSlots[s].configuration \in Nat /\ a.call.epoch \in Nat /\ a.call.token \in Nat
          /\ producer[c].connection \in Nat /\ producer[c].token \in Nat
      <4>1. s \in Slots /\ a.call.epoch \in Nat /\ a.call.token \in Nat
        BY <1>1, <2>4, Bounds DEF AcceptedAs, Calls
      <4>2. mSlots[s] \in SlotType
        BY <1>1, <4>1 DEF ServiceTypes
      <4>3. producer[c] \in [connection : 0 .. MaxLives, token : 0 .. MaxTokens, open : BOOLEAN]
        BY <1>1, <2>2 DEF ServiceTypes
      <4> QED
        BY <4>1, <4>2, <4>3, Bounds DEF SlotType
    <3>2. /\ Owns(s, c) /\ NewerEvent(s, c, a.call.epoch, a.call.token, a.call.closed)
          /\ a.event = mSlots'[s].event /\ mSlots'[s].event = mSlots[s].event + 1
          /\ mSlots'[s].connection = a.call.epoch /\ mSlots'[s].configuration = a.call.token
          /\ producer' = producer
      BY <2>4 DEF AcceptedAs, NewerEvent, Overtaken, Accept
    <3>3. ~Newer(producer[c], Last(s))
      BY <1>1, <2>2, <3>1, <3>2, Bounds, Zenon DEF NoneAhead, Owns
    <3>4. ~a.call.closed => Newer([connection |-> a.call.epoch, token |-> a.call.token], producer[c])
      BY <3>1, <3>2, <3>3 DEF NewerEvent, Newer, Last
    <3> QED
      BY <3>1, <3>2, <3>4 DEF EventOK, Last
  <2> QED
    BY <2>1, <2>2, <2>3, <2>4, AcceptedMoves
<1>3. ASSUME NEW s \in Slots, NEW i \in DOMAIN mLifecycle'[s], NEW task, task = mLifecycle'[s][i],
             task.kind \in {"configured", "closed"}
      PROVE  EventOK(s, task.event, task.camera, task.connection, task.token,
                     task.kind = "closed")'
  <2>1. ASSUME NEW j \in DOMAIN mLifecycle[s], task = mLifecycle[s][j]
        PROVE  EventOK(s, task.event, task.camera, task.connection, task.token,
                       task.kind = "closed")'
    BY <1>3, <2>1, QueuedStays
  <2>2. ASSUME NEW a \in accepted, QueuedAs(s, a, task)
        PROVE  EventOK(s, task.event, task.camera, task.connection, task.token,
                       task.kind = "closed")'
    <3>1. EventOK(a.call.slot, a.event, a.call.registration, a.call.epoch, a.call.token,
                  a.call.closed)'
      BY AcceptedStays
    <3>2. /\ a.call.slot = s /\ task.event = a.event /\ task.camera = a.call.registration
          /\ task.connection = a.call.epoch /\ task.token = a.call.token
          /\ (task.kind = "closed") <=> a.call.closed
      BY <2>2 DEF QueuedAs
    <3> QED
      BY <3>1, <3>2 DEF EventOK
  <2> QED
    BY <1>3, <2>1, <2>2, QueueMoves DEF Shorter, Longer
<1>4. ASSUME NEW s \in Slots, job'[s].at = "create", NEW task, task = job'[s].task
      PROVE  EventOK(s, task.event, task.camera, task.connection, task.token, FALSE)'
  <2>1. CASE job[s].at = "create" /\ task = job[s].task
    BY <1>4, <2>1, CreatingStays, Zenon
  <2>2. CASE 1 \in DOMAIN mLifecycle[s] /\ task = mLifecycle[s][1] /\ task.kind = "configured"
    <3>1. EventOK(s, task.event, task.camera, task.connection, task.token, task.kind = "closed")'
      BY <2>2, QueuedStays
    <3> QED
      BY <2>2, <3>1 DEF EventOK
  <2> QED
    BY <1>4, <2>1, <2>2, CreatingMoves, Zenon
<1>5. ASSUME NEW s \in Slots, NEW i \in DOMAIN mLifecycle'[s]
      PROVE  mLifecycle'[s][i].kind \in {"configured", "closed"}
                => EventOK(s, mLifecycle[s][i].event, mLifecycle[s][i].camera,
                           mLifecycle[s][i].connection, mLifecycle[s][i].token,
                           mLifecycle[s][i].kind = "closed")'
  <2>1. PICK task : task = mLifecycle'[s][i]
    OBVIOUS
  <2> QED
    BY <1>3, <2>1 DEF EventOK
<1>6. ASSUME NEW s \in Slots, job'[s].at = "create"
      PROVE  EventOK(s, job[s].task.event, job[s].task.camera, job[s].task.connection,
                     job[s].task.token, FALSE)'
  <2>1. PICK task : task = job'[s].task
    OBVIOUS
  <2> QED
    BY <1>4, <1>6, <2>1 DEF EventOK
<1> QED
  BY <1>2, <1>5, <1>6, Zenon DEF Events

LEMMA ServiceDelivers ==
    ASSUME RelayInv, ServiceInv, EventInv, Service
    PROVE  DeliveredOnce'
<1> SUFFICES ASSUME NEW s \in Slots
             PROVE  /\ \A a, b \in accepted' : NewestCall(s, a)' /\ NewestCall(s, b)' => a = b
                    /\ \A i, j \in DOMAIN mLifecycle'[s] :
                          Newest(s, mLifecycle[s][i])' /\ Newest(s, mLifecycle[s][j])' => i = j
                    /\ \A a \in accepted', i \in DOMAIN mLifecycle'[s] :
                          ~(NewestCall(s, a)' /\ Newest(s, mLifecycle[s][i])')
                    /\ job'[s].at = "create" /\ Newest(s, job[s].task)'
                          => /\ \A a \in accepted' : ~NewestCall(s, a)'
                             /\ \A i \in DOMAIN mLifecycle'[s] : ~Newest(s, mLifecycle[s][i])'
  BY DEF DeliveredOnce
<1>1. /\ \A a, b \in accepted : NewestCall(s, a) /\ NewestCall(s, b) => a = b
      /\ \A i, j \in DOMAIN mLifecycle[s] :
            Newest(s, mLifecycle[s][i]) /\ Newest(s, mLifecycle[s][j]) => i = j
      /\ \A a \in accepted, i \in DOMAIN mLifecycle[s] :
            ~(NewestCall(s, a) /\ Newest(s, mLifecycle[s][i]))
      /\ job[s].at = "create" /\ Newest(s, job[s].task)
            => /\ \A a \in accepted : ~NewestCall(s, a)
               /\ \A i \in DOMAIN mLifecycle[s] : ~Newest(s, mLifecycle[s][i])
  BY DEF EventInv, DeliveredOnce
<1>2. /\ mLifecycle[s] \in Seq(TaskType) /\ mSlots[s].event \in Nat
  BY EventPlaces DEF ServiceInv, ServiceTypes
\* What is the newest afterwards was so before, unless it has just been accepted.
<1>3. ASSUME NEW a \in accepted, NewestCall(s, a)'
      PROVE  NewestCall(s, a) /\ Still(s)
  BY <1>3, AcceptedStays
<1>4. ASSUME NEW i \in DOMAIN mLifecycle[s], NEW task, task = mLifecycle[s][i], Newest(s, task)'
      PROVE  Newest(s, task) /\ Still(s)
  BY <1>4, QueuedStays
<1>5. ASSUME NEW a \in accepted', a \notin accepted, NewestCall(s, a)'
      PROVE  \E k \in calls : AcceptedAs(k, a) /\ k.slot = s
  BY <1>5, AcceptedMoves DEF AcceptedAs, NewestCall
<1>6. ASSUME NEW k \in calls, Accept(k)
      PROVE  mLifecycle' = mLifecycle /\ job' = job
  BY <1>6 DEF Accept
<1>7. Overtaken(s) => ~Still(s)
  BY <1>2 DEF Overtaken, Still
\* Where a task of the queue that is the newest comes from.
<1>8. ASSUME NEW i \in DOMAIN mLifecycle'[s], Newest(s, mLifecycle[s][i])'
      PROVE  /\ Still(s)
             /\ Shorter(s) => /\ i \in Nat /\ i + 1 \in DOMAIN mLifecycle[s]
                              /\ Newest(s, mLifecycle[s][i + 1])
             /\ Longer(s) => \/ i \in DOMAIN mLifecycle[s] /\ Newest(s, mLifecycle[s][i])
                             \/ /\ i = Len(mLifecycle[s]) + 1
                                /\ \E a \in accepted : NewestCall(s, a) /\ ExecuteEvent(a)
  <2>1. PICK task : task = mLifecycle'[s][i]
    OBVIOUS
  <2>2. Newest(s, task)' /\ task.kind = "configured"
    BY <1>8, <2>1 DEF Newest
  <2>3. ASSUME Shorter(s)
        PROVE  /\ Still(s) /\ i \in Nat /\ i + 1 \in DOMAIN mLifecycle[s]
               /\ Newest(s, mLifecycle[s][i + 1])
    <3>1. i \in Nat /\ i + 1 \in DOMAIN mLifecycle[s] /\ task = mLifecycle[s][i + 1]
      BY <2>1, <2>3 DEF Shorter
    <3> QED
      BY <1>4, <2>2, <3>1
  <2>4. ASSUME i \in DOMAIN mLifecycle[s], task = mLifecycle[s][i]
        PROVE  Still(s) /\ Newest(s, mLifecycle[s][i])
    BY <1>4, <2>2, <2>4
  <2>5. ASSUME NEW a \in accepted, QueuedAs(s, a, task)
        PROVE  Still(s) /\ NewestCall(s, a) /\ ExecuteEvent(a)
    <3>1. NewestCall(s, a)'
      BY <2>2, <2>5 DEF QueuedAs, Newest, NewestCall
    <3> QED
      BY <1>3, <2>5, <3>1 DEF QueuedAs
  <2>6. ASSUME Longer(s)
        PROVE  /\ Still(s)
               /\ \/ i \in DOMAIN mLifecycle[s] /\ Newest(s, mLifecycle[s][i])
                  \/ /\ i = Len(mLifecycle[s]) + 1
                     /\ \E a \in accepted : NewestCall(s, a) /\ ExecuteEvent(a)
    BY <2>1, <2>2, <2>4, <2>5, <2>6 DEF Longer
  <2> QED
    BY <2>3, <2>6, QueueMoves
<1>9. \A a, b \in accepted' : NewestCall(s, a)' /\ NewestCall(s, b)' => a = b
  <2>1. ASSUME NEW a \in accepted', NEW b \in accepted', NewestCall(s, a)', NewestCall(s, b)',
               a \notin accepted
        PROVE  a = b
    <3>1. PICK k \in calls : AcceptedAs(k, a) /\ k.slot = s
      BY <1>5, <2>1
    <3>2. accepted' = accepted \cup {a} /\ Overtaken(s)
      BY <3>1 DEF AcceptedAs
    <3> QED
      BY <1>3, <1>7, <2>1, <3>2
  <2>2. ASSUME NEW a \in accepted', NEW b \in accepted', NewestCall(s, a)', NewestCall(s, b)',
               a \in accepted, b \in accepted
        PROVE  a = b
    BY <1>1, <1>3, <2>2
  <2> QED
    BY <2>1, <2>2
<1>10. \A i, j \in DOMAIN mLifecycle'[s] :
           Newest(s, mLifecycle[s][i])' /\ Newest(s, mLifecycle[s][j])' => i = j
  <2>1. ASSUME NEW i \in DOMAIN mLifecycle'[s], NEW j \in DOMAIN mLifecycle'[s],
               Newest(s, mLifecycle[s][i])', Newest(s, mLifecycle[s][j])'
        PROVE  i = j
    <3>1. CASE Shorter(s)
      <4>1. /\ i + 1 \in DOMAIN mLifecycle[s] /\ Newest(s, mLifecycle[s][i + 1])
            /\ j + 1 \in DOMAIN mLifecycle[s] /\ Newest(s, mLifecycle[s][j + 1])
            /\ i \in Nat /\ j \in Nat
        BY <1>8, <2>1, <3>1
      <4>2. i + 1 = j + 1
        BY <1>1, <4>1
      <4> QED
        BY <4>1, <4>2
    <3>2. CASE Longer(s)
      <4>1. \A n \in {i, j} :
                \/ n \in DOMAIN mLifecycle[s] /\ Newest(s, mLifecycle[s][n])
                \/ /\ n = Len(mLifecycle[s]) + 1
                   /\ \E a \in accepted : NewestCall(s, a)
        BY <1>8, <2>1, <3>2
      <4> QED
        BY <1>1, <4>1
    <3> QED
      BY <3>1, <3>2, QueueMoves
  <2> QED
    BY <2>1
<1>11. ASSUME NEW a \in accepted', NEW i \in DOMAIN mLifecycle'[s],
              NewestCall(s, a)', Newest(s, mLifecycle[s][i])'
       PROVE  FALSE
  <2>1. a \in accepted
    <3>1. Still(s)
      BY <1>8, <1>11
    <3> QED
      BY <1>5, <1>7, <1>11, <3>1 DEF AcceptedAs
  <2>2. NewestCall(s, a)
    BY <1>3, <1>11, <2>1
  <2>3. \A b \in accepted : ExecuteEvent(b) => a # b
    BY <1>11 DEF ExecuteEvent
  <2> QED
    BY <1>1, <1>8, <1>11, <2>1, <2>2, <2>3, QueueMoves
<1>12. ASSUME job'[s].at = "create", Newest(s, job[s].task)'
       PROVE  /\ \A a \in accepted' : ~NewestCall(s, a)'
              /\ \A i \in DOMAIN mLifecycle'[s] : ~Newest(s, mLifecycle[s][i])'
  <2>1. PICK task : task = job'[s].task
    OBVIOUS
  <2>2. Newest(s, task)'
    BY <1>12, <2>1 DEF Newest
  <2>3. CASE job[s].at = "create" /\ task = job[s].task
    <3>1. Newest(s, job[s].task) /\ Still(s)
      BY <1>12, <2>2, <2>3, CreatingStays, Zenon
    <3>2. \A a \in accepted' : ~NewestCall(s, a)'
      BY <1>1, <1>3, <1>5, <1>7, <2>3, <3>1 DEF AcceptedAs
    <3>3. ASSUME NEW i \in DOMAIN mLifecycle'[s], Newest(s, mLifecycle[s][i])'
          PROVE  FALSE
      BY <1>1, <1>8, <2>3, <3>1, <3>3, QueueMoves
    <3> QED
      BY <3>2, <3>3
  <2>4. CASE 1 \in DOMAIN mLifecycle[s] /\ task = mLifecycle[s][1] /\ Shorter(s)
             /\ accepted' = accepted
    <3>1. Newest(s, mLifecycle[s][1])
      BY <1>4, <2>2, <2>4
    <3>2. \A a \in accepted' : ~NewestCall(s, a)'
      BY <1>1, <1>3, <2>4, <3>1
    <3>3. ASSUME NEW i \in DOMAIN mLifecycle'[s], Newest(s, mLifecycle[s][i])'
          PROVE  FALSE
      <4>1. i + 1 \in DOMAIN mLifecycle[s] /\ Newest(s, mLifecycle[s][i + 1])
        BY <1>8, <2>4, <3>3
      <4>2. i \in DOMAIN mLifecycle'[s] /\ mLifecycle'[s] \in Seq(TaskType)
        BY ServiceState DEF ServiceTypes
      <4>3. i \in Nat /\ i > 0
        BY <4>2
      <4> QED
        BY <1>1, <2>4, <3>1, <4>1, <4>3
    <3> QED
      BY <3>2, <3>3
  <2> QED
    BY <1>12, <2>1, <2>3, <2>4, CreatingMoves
<1> QED
  BY <1>9, <1>10, <1>11, <1>12

\* A slot's configuration never gives way to an older one.
LEMMA LastGrows ==
    ASSUME RelayInv, ServiceInv, Service, NEW s \in Slots
    PROVE  /\ mSlots[s].connection \in Nat /\ mSlots[s].configuration \in Nat
           /\ mSlots'[s].connection \in Nat /\ mSlots'[s].configuration \in Nat
           /\ ~Newer(Last(s), Last(s)')
<1>1. ServiceTypes /\ ServiceTypes' /\ calls \subseteq Calls
  BY ServiceState DEF ServiceInv, RelayInv, ConnectionInv, RelayTypeOK
<1>2. /\ mSlots[s].connection \in Nat /\ mSlots[s].configuration \in Nat
      /\ mSlots'[s].connection \in Nat /\ mSlots'[s].configuration \in Nat
  <2>1. mSlots[s] \in SlotType /\ mSlots'[s] \in SlotType
    BY <1>1 DEF ServiceTypes, SlotType
  <2> QED
    BY <2>1, Bounds DEF SlotType
<1>3. CASE mSlots'[s].connection = mSlots[s].connection
             /\ mSlots'[s].configuration = mSlots[s].configuration
  BY <1>2, <1>3 DEF Newer, Last
<1>4. ASSUME NEW k \in calls, Accept(k), k.slot = s, Overtaken(s)
      PROVE  ~Newer(Last(s), Last(s)')
  <2>1. mSlots' # mSlots
    BY <1>4, EventPlaces DEF Overtaken, ServiceInv
  <2>2. /\ NewerEvent(s, k.registration, k.epoch, k.token, k.closed)
        /\ mSlots' = [mSlots EXCEPT ![k.slot] =
                      [@ EXCEPT !.connection = k.epoch, !.configuration = k.token,
                                !.configurationClosed = k.closed,
                                !.event = mSlots[k.slot].event + 1]]
    BY <1>4, <2>1 DEF Accept
  <2>3. k \in Calls /\ k.epoch \in Nat /\ k.token \in Nat
    BY <1>1, Bounds DEF Calls
  <2>4. mSlots'[s].connection = k.epoch /\ mSlots'[s].configuration = k.token
    BY <1>1, <1>4, <2>2, <2>3, SlotAccepting, Zenon DEF ServiceTypes
  <2> QED
    BY <1>2, <2>2, <2>3, <2>4 DEF NewerEvent, Newer, Last
<1> QED
  BY <1>2, <1>3, <1>4, SlotNumbers

\* When a producer hears of a configuration, it is its slot's.
LEMMA ToldLast ==
    ASSUME RelayInv, ServiceInv, EventInv, NEW s \in Slots, NEW c \in Cameras, TellsNewest(s, c)
    PROVE  /\ [connection |-> producer'[c].connection, token |-> producer'[c].token] = Last(s)
           /\ Newer(Last(s), producer[c]) /\ mSlots' = mSlots /\ assigned[c] = s
<1>1. EventOK(s, job[s].task.event, c, job[s].task.connection, job[s].task.token, FALSE)
  BY Zenon DEF EventInv, Events, TellsNewest
<1>2. job[s].task.event = mSlots[s].event /\ Owns(s, c)
  BY DEF TellsNewest, IsCurrentEvent
<1>3. assigned[c] = s
  BY EventPlaces DEF TellsNewest
<1> QED
  BY <1>1, <1>2, <1>3 DEF EventOK, TellsNewest, SurfaceCreated, Last

LEMMA ServiceNoneAhead ==
    ASSUME RelayInv, ServiceInv, EventInv, Service
    PROVE  NoneAhead'
<1> SUFFICES ASSUME NEW s \in Slots, NEW c, c = mSlots'[s].owner, c # None
             PROVE  ~Newer(producer'[c], Last(s)')
  BY DEF NoneAhead
<1>1. /\ ServiceTypes /\ ServiceTypes' /\ Registry /\ Registry' /\ NoneAhead
  BY ServiceState DEF ServiceInv, EventInv
<1>2. c \in Cameras /\ assigned'[c] = s
  BY <1>1, Zenon DEF ServiceTypes, SlotType, Registration, Registry
<1>3. /\ producer[c].connection \in Nat /\ producer[c].token \in Nat
      /\ producer'[c].connection \in Nat /\ producer'[c].token \in Nat
  <2>1. /\ producer[c] \in [connection : 0 .. MaxLives, token : 0 .. MaxTokens, open : BOOLEAN]
        /\ producer'[c] \in [connection : 0 .. MaxLives, token : 0 .. MaxTokens, open : BOOLEAN]
    BY <1>1, <1>2 DEF ServiceTypes
  <2> QED
    BY <2>1, Bounds
<1>4. CASE Told(c)
  <2>1. PICK r \in Slots : TellsNewest(r, c)
    BY <1>2, <1>4, ProducerTold
  <2>2. /\ [connection |-> producer'[c].connection, token |-> producer'[c].token] = Last(r)
        /\ mSlots' = mSlots /\ assigned[c] = r
    BY <1>2, <2>1, ToldLast
  <2>3. r = s
    BY <1>1, <2>2 DEF Registry
  <2> QED
    BY <1>3, <2>2, <2>3 DEF Newer, Last
<1>5. CASE ~Told(c) /\ mSlots[s].owner = c
  <2>1. ~Newer(producer[c], Last(s))
    BY <1>1, <1>5 DEF NoneAhead
  <2> QED
    BY <1>3, <1>5, <2>1, LastGrows DEF Newer, Last, Told
<1>6. CASE ~Told(c) /\ mSlots[s].owner # c
  <2>1. producer[c].connection = 0 /\ producer[c].token = 0
    BY <1>1, <1>6, OwnersKept DEF Registry
  <2> QED
    BY <1>3, <1>6, <2>1, LastGrows DEF Newer, Last, Told
<1> QED
  BY <1>4, <1>5, <1>6

LEMMA EventsKept == RelayInv /\ ServiceInv /\ EventInv /\ [ServiceNext]_vars => EventInv'
<1> SUFFICES ASSUME RelayInv, ServiceInv, EventInv, [ServiceNext]_vars PROVE EventInv'
  OBVIOUS
<1>1. CASE Service
  BY <1>1, ServiceEvents, ServiceDelivers, ServiceNoneAhead DEF EventInv
<1>2. CASE UNCHANGED serviceVars
  <2>1. UNCHANGED <<app, removing, mCameras, mSlotByCameraId, assigned, mSlots, accepted,
                    mLifecycle, job, mRecoveryRound, scheduled, recovery, producer>>
    BY <1>2, UnchangedService
  <2>2. Events'
    BY <2>1 DEF EventInv, Events, EventOK, Last
  <2>3. DeliveredOnce'
    BY <2>1 DEF EventInv, DeliveredOnce, NewestCall, Newest
  <2>4. NoneAhead'
    BY <2>1 DEF EventInv, NoneAhead, Last
  <2> QED
    BY <2>2, <2>3, <2>4 DEF EventInv
<1> QED
  BY <1>1, <1>2 DEF ServiceNext, vars

LEMMA InitEvents == Init => EventInv
<1> SUFFICES ASSUME Init PROVE EventInv
  OBVIOUS
<1>1. Events
  <2>1. /\ accepted = {} /\ \A s \in Slots : DOMAIN mLifecycle[s] = {} /\ job[s].at # "create"
    BY IdleType DEF Init
  <2> QED
    BY <2>1, Zenon DEF Events
<1>2. DeliveredOnce
  BY IdleType DEF Init, DeliveredOnce
<1>3. NoneAhead
  BY DEF Init, NoneAhead, NewSlot
<1> QED
  BY <1>1, <1>2, <1>3 DEF EventInv

\* What DeliveriesAdvance says of one step.
Advances ==
    \A s \in Slots, c \in Cameras :
        producer'[c] # producer[c] /\ Owns(s, c)
            => IF producer'[c].open THEN Newer(producer'[c], producer[c])
               ELSE job'[s].task.kind = "closed" /\ ~Newer(producer[c], job'[s].task)

\* Only an executor tells a producer anything.
LEMMA ExecutorTells ==
    ASSUME Service, producer' # producer
    PROVE  \E s \in Slots : Executor(s)
<1>1. CASE \E c \in Cameras : App(c)
  BY <1>1
     DEF App, RegisterCamera, Reserve, RefuseRegistration, ExecuteRegister, OwnerRemoves,
         ExecuteRemove,
         SetProducerReady, ReadyReturned
<1>2. CASE \/ \E k \in calls : Accept(k)
           \/ \E a \in accepted : ExecuteEvent(a)
           \/ \E d \in deaths : OnHalDied(d)
  BY <1>2, Zenon DEF Accept, ExecuteEvent, OnHalDied
<1>3. CASE \/ \E r \in scheduled : RecoverHal(r)
           \/ RecoverProceeds
           \/ \E s \in Slots : RecoverSlot(s)
  BY <1>3, Zenon DEF RecoverHal, RecoverProceeds, RecoverSlot
<1> QED
  BY <1>1, <1>2, <1>3 DEF Service

LEMMA ServiceAdvances == RelayInv /\ ServiceInv /\ EventInv /\ [ServiceNext]_vars => Advances
<1> SUFFICES ASSUME RelayInv, ServiceInv, EventInv, [ServiceNext]_vars,
                    NEW s \in Slots, NEW c \in Cameras, producer'[c] # producer[c], Owns(s, c)
             PROVE  IF producer'[c].open THEN Newer(producer'[c], producer[c])
                    ELSE job'[s].task.kind = "closed" /\ ~Newer(producer[c], job'[s].task)
  BY DEF Advances
<1>1. ServiceTypes /\ Registry /\ Tasks
  BY DEF ServiceInv
<1>2. Service
  BY UnchangedService DEF ServiceNext, vars
<1>3. PICK r \in Slots : Executor(r)
  BY <1>2, ExecutorTells
<1>4. assigned[c] = s /\ c \in mCameras
  BY <1>1, Bounds DEF Owns, Registry
<1>5. CASE SurfaceCreated(r)
  <2>1. /\ job[r].at = "create" /\ job[r].task.kind = "configured"
        /\ IsCurrentEvent(r, job[r].task.camera, job[r].task.event)
        /\ producer' = [producer EXCEPT ![job[r].task.camera] =
                           [connection |-> job[r].task.connection, token |-> job[r].task.token,
                            open |-> TRUE]]
    BY <1>5, EventPlaces DEF SurfaceCreated, Back
  <2>2. job[r].task.camera = c /\ r = s
    BY <1>1, <1>4, <2>1, EventPlaces DEF ServiceTypes
  <2>3. job'[r].at = "idle"
    BY <1>1, <1>5, IdleType DEF SurfaceCreated, Done, ServiceTypes
  <2>4. producer'[c] = [connection |-> job[s].task.connection, token |-> job[s].task.token,
                        open |-> TRUE]
    BY <1>1, <2>1, <2>2 DEF ServiceTypes
  <2>5. TellsNewest(s, c)
    BY <1>5, <2>1, <2>2, <2>3, <2>4 DEF TellsNewest
  <2>6. Newer(Last(s), producer[c])
    BY <2>5, ToldLast
  <2>7. [connection |-> producer'[c].connection, token |-> producer'[c].token] = Last(s)
    BY <2>5, ToldLast
  <2>8. producer'[c].connection = Last(s).connection /\ producer'[c].token = Last(s).token
    BY <2>7 DEF Last
  <2> QED
    BY <2>4, <2>6, <2>8 DEF Newer
<1>6. CASE StartClosed(r)
  <2> DEFINE task == Head(mLifecycle[r])
  <2>1. /\ mLifecycle[r] # <<>> /\ task.kind = "closed"
        /\ IsCurrentEvent(r, task.camera, task.event) /\ Take(r, "call")
        /\ producer' = [producer EXCEPT ![task.camera].open = FALSE]
    BY <1>6 DEF StartClosed, NextTask
  <2>2. task = mLifecycle[r][1] /\ 1 \in DOMAIN mLifecycle[r] /\ TaskOK(r, task)
    BY <1>1, <2>1, HeadTask
  <2>3. task.camera = c /\ r = s
    BY <1>1, <1>4, <2>1, <2>2 DEF ServiceTypes, TaskOK
  <2>4. job'[s].task = task /\ ~producer'[c].open
    BY <1>1, <2>1, <2>3 DEF Take, ServiceTypes
  <2>5. EventOK(s, task.event, c, task.connection, task.token, TRUE)
    BY <2>1, <2>2, <2>3, Zenon DEF EventInv, Events
  <2>6. task.connection = Last(s).connection /\ task.token = Last(s).token
    BY <2>1, <2>3, <2>5 DEF IsCurrentEvent, EventOK, Last
  <2>7. ~Newer(producer[c], Last(s))
    BY Bounds DEF EventInv, NoneAhead, Owns
  <2> HIDE DEF task
  <2> QED
    BY <2>1, <2>4, <2>6, <2>7 DEF Newer
<1>7. CASE FinishRemove(r)
  <2>1. /\ job[r].at = "release" /\ producer' = [producer EXCEPT ![job[r].task.camera].open = FALSE]
    BY <1>7 DEF FinishRemove, Back
  <2>2. job[r].task.kind = "remove" /\ TaskOK(r, job[r].task)
    BY <1>1, <2>1 DEF Tasks, KindsAt
  <2>3. job[r].task.camera \notin mCameras
    BY <2>2 DEF TaskOK
  <2> QED
    BY <1>1, <1>4, <2>1, <2>3 DEF ServiceTypes
<1> QED
  BY <1>3, <1>5, <1>6, <1>7
     DEF Executor, StartRegister, RegisterReturned, RegisterFailed, StartRecover, StartHalDied,
         CallReturned, StartRemove, RemoveReturned, StartConfigured

\* VirtualCameraService.java:93, 99 and 132: callbacks overtake each other on
\* their way through the relay and are executed by tasks that run later, yet a
\* producer is told of ever newer configurations, of none twice, and of the end
\* of a configuration only while it has no newer one.
THEOREM ProducersMoveForward == ServiceSpec => DeliveriesAdvance
<1>1. Init => RelayInv /\ ServiceInv /\ EventInv
  BY InitService, InitConnection, InitQueue, InitRegistration, InitEvents DEF Init, RelayInv
<1>2. RelayInv /\ ServiceInv /\ EventInv /\ [ServiceNext]_vars
        => (RelayInv /\ ServiceInv /\ EventInv)'
  BY ServiceCalls, RelayKept, ServiceKept, EventsKept
<1>3. RelayInv /\ ServiceInv /\ EventInv /\ [ServiceNext]_vars => [Advances]_vars
  BY ServiceAdvances
<1>4. ServiceSpec => [][Advances]_vars
  BY <1>1, <1>2, <1>3, PTL DEF ServiceSpec
<1> QED
  BY <1>4 DEF DeliveriesAdvance, Advances

-----------------------------------------------------------------------------
(***************************************************************************)
(* What a producer is left with when nothing is under way.                 *)
(***************************************************************************)

\* The relay is connected to the process that runs.
Live == gHal # 0 /\ gHal = life

\* The registration whose callbacks slot s admits, or would admit again if the
\* one under way were refused.
Prior(s) == IF Registering(s) /\ native[s].h = gHal THEN native[s].previous ELSE gRegistrations[s]

\* Where the removal of a slot's owner has got: it is in one place at a time, and
\* in the end nothing more is admitted for the slot.
Closes(s, c) == mSlots[s].owner = c /\ mSlots[s].closing
Leaving(s) == job[s].at \in {"remove", "release"}
Departed(s) == job[s].at = "release" \/ (job[s].at = "remove" /\ native[s].at \in {"rpc", "java"})

Leavers ==
    /\ \A c \in Cameras : removing[c] \in {"owner", "rejected"}
          => /\ Closes(assigned[c], c) /\ ~Leaving(assigned[c])
             /\ \A i \in DOMAIN mLifecycle[assigned[c]] : mLifecycle[assigned[c]][i].kind # "remove"
    /\ \A s \in Slots :
          /\ \A i \in DOMAIN mLifecycle[s] : mLifecycle[s][i].kind = "remove"
                => Closes(s, mLifecycle[s][i].camera) /\ ~Leaving(s)
          /\ \A i, j \in DOMAIN mLifecycle[s] :
                mLifecycle[s][i].kind = "remove" /\ mLifecycle[s][j].kind = "remove" => i = j
          /\ Leaving(s) => Closes(s, job[s].task.camera)

\* The native methods an executor calls from each place of its task.
MethodsAt ==
    [idle |-> {"none"}, register |-> {"none", "registerProducer"}, isHalUp |-> {"none", "isHalUp"},
     reject |-> {"none"}, call |-> {"none", "registerProducer", "releaseSurface"},
     remove |-> {"none", "removeProducer"}, release |-> {"none", "releaseSurface"},
     create |-> {"none", "createSurface"}]

CreatesSurface(n) == n.method = "createSurface"
ReleasesSurface(n) == n.method = "releaseSurface"

\* A slot's surfaces are made and released by the slot's own thread, for its task.
Surfaces ==
    /\ \A t \in Threads :
          /\ native[t].at \in {"check", "abandon", "install"} <=> CreatesSurface(native[t])
          /\ native[t].at = "release" <=> ReleasesSurface(native[t])
          /\ CreatesSurface(native[t]) \/ ReleasesSurface(native[t]) => native[t].slot = t
    /\ \A s \in Slots :
          /\ native[s].method \in MethodsAt[job[s].at]
          /\ CreatesSurface(native[s]) => /\ native[s].connection = job[s].task.connection
                                          /\ native[s].token = job[s].task.token

\* A registration that can still reach the HAL belongs to the current connection,
\* which is the newest.
Reach ==
    /\ gHal # 0 => gConnectionEpoch = gNextConnectionEpoch
    /\ \A s \in Slots : Registering(s) /\ native[s].h = life
          => gHal = life /\ gConnectionEpoch = native[s].epoch

\* What is heard of a camera is heard at its slot, after it has been given one.
Callers ==
    /\ \A k \in calls : assigned[k.registration] = k.slot
    /\ \A c \in Cameras : assigned[c] = None => ~producer[c].open

\* The relay admits, at most, the slot's owner; what the HAL has sent is from the
\* registration that was there before the one under way; and a slot whose owner
\* has departed admits nobody.
Registrants == Live => \A s \in Slots : {gRegistrations[s], Prior(s)} \subseteq {None, mSlots[s].owner}

Origin ==
    Live => \A k \in calls :
        k.epoch = gConnectionEpoch /\ mSlots[k.slot].owner = k.registration /\ ~Departed(k.slot)
            => Prior(k.slot) = k.registration

Stale(s) == native[s].method = "removeProducer" /\ native[s].at = "lock" /\ native[s].h # gHal

Gone == Live => \A s \in Slots : Departed(s) \/ Stale(s) => gRegistrations[s] = None

\* A slot without a registration has no configuration in force, and if it had one
\* in this connection the one that owns it now has not heard of any.
Unheard(s, c) ==
    /\ ~producer[c].open
    /\ \A k \in calls : k.registration # c
    /\ \A i \in DOMAIN mLifecycle[s] : mLifecycle[s][i].kind \in {"configured", "closed"}
           => mLifecycle[s][i].camera # c
    /\ job[s].at = "create" => job[s].task.camera # c

Lapsed ==
    Live => \A s \in Slots : Prior(s) = None /\ gConfigurations[s].token # 0
        => /\ gConfigurations[s].closed
           /\ mSlots[s].owner # None /\ ~Departed(s) => Unheard(s, mSlots[s].owner)

\* The service is behind the relay, never ahead of it: what the slot has accepted,
\* and what is on its way there, the relay has admitted.
Numbers ==
    \A s \in Slots :
        /\ mSlots[s].connection # 0 => mSlots[s].configuration > 0
        /\ Live /\ mSlots[s].connection = gConnectionEpoch
              => /\ mSlots[s].configuration <= gConfigurations[s].token
                 /\ mSlots[s].configuration = gConfigurations[s].token
                       /\ mSlots[s].configurationClosed /\ ~mSlots[s].closing
                       => gConfigurations[s].closed

Behind ==
    Live => \A k \in calls : k.at = "admitted" /\ k.epoch = gConnectionEpoch
        => /\ k.token <= gConfigurations[k.slot].token
           /\ k.token = gConfigurations[k.slot].token /\ k.closed => gConfigurations[k.slot].closed
           /\ Owns(k.slot, k.registration) /\ mSlots[k.slot].connection = k.epoch
                 /\ mSlots[k.slot].configuration = k.token
                 => k.closed /\ ~mSlots[k.slot].configurationClosed

\* The newest event is the end of a configuration exactly if the slot says so.
EventKinds ==
    /\ \A a \in accepted : a.event = mSlots[a.call.slot].event
          => (a.call.closed <=> mSlots[a.call.slot].configurationClosed)
    /\ \A s \in Slots :
          /\ \A i \in DOMAIN mLifecycle[s] :
                mLifecycle[s][i].kind \in {"configured", "closed"}
                /\ mLifecycle[s][i].event = mSlots[s].event
                => (mLifecycle[s][i].kind = "closed" <=> mSlots[s].configurationClosed)
          /\ job[s].at = "create" /\ job[s].task.event = mSlots[s].event
                => ~mSlots[s].configurationClosed

\* A death that is still talked about is not that of the current connection.
Dead ==
    /\ \A s \in Slots : \A i \in DOMAIN mLifecycle[s] :
          mLifecycle[s][i].kind = "halDied" => mLifecycle[s][i].connection # 0
    /\ gHal # 0 =>
          /\ \A d \in deaths : d.epoch # gConnectionEpoch
          /\ \A s \in Slots : \A i \in DOMAIN mLifecycle[s] :
                mLifecycle[s][i].kind = "halDied"
                    => mLifecycle[s][i].connection # gConnectionEpoch

\* While its owner stays, a slot's queue is released for a configuration that is
\* over.
Over(s, conn, token) ==
    conn = gConnectionEpoch =>
        /\ token # 0
        /\ \/ token < gConfigurations[s].token
           \/ token = gConfigurations[s].token /\ gConfigurations[s].closed

Releases ==
    \A s \in Slots : ReleasesSurface(native[s]) /\ ~Leaving(s)
        => /\ native[s].connection # 0
           /\ Live => Over(s, native[s].connection, native[s].token)

\* The configuration in force is on its way from the relay to the service, or
\* from there to the producer; or it is over and the producer does not draw; or
\* its surface is being made; or the producer has it.
InForceAt(s) == [connection |-> gConnectionEpoch, token |-> gConfigurations[s].token]

Offers(s, k) ==
    /\ k.slot = s /\ k.registration = mSlots[s].owner /\ k.at = "admitted"
    /\ k.epoch = gConnectionEpoch /\ k.token = gConfigurations[s].token
    /\ k.closed = gConfigurations[s].closed

Offered(s) == \E k \in calls : Offers(s, k)

Matches(s) ==
    /\ mSlots[s].connection = gConnectionEpoch
    /\ mSlots[s].configuration = gConfigurations[s].token
    /\ mSlots[s].configurationClosed = gConfigurations[s].closed

Carries(s, task) ==
    /\ task.kind \in {"configured", "closed"}
    /\ task.event = mSlots[s].event /\ task.camera = mSlots[s].owner

Arrived(s) ==
    /\ Matches(s)
    /\ \/ \E a \in accepted : /\ a.call.slot = s /\ a.event = mSlots[s].event
                              /\ a.call.registration = mSlots[s].owner
       \/ \E i \in DOMAIN mLifecycle[s] : Carries(s, mLifecycle[s][i])

InTheMaking(s) ==
    /\ Matches(s) /\ job[s].at = "create" /\ Carries(s, job[s].task)
    /\ native[s].at = "java" => native[s].ok /\ gSlots[s] = InForceAt(s)

Has(s, c) ==
    /\ Matches(s) /\ job[s].at # "create" /\ gSlots[s] = InForceAt(s)
    /\ producer[c].open /\ producer[c].connection = gConnectionEpoch
    /\ producer[c].token = gConfigurations[s].token

Made(s) == job[s].at = "create" /\ native[s].at = "java" /\ native[s].ok

Served(s, c) ==
    \/ Offered(s) \/ Arrived(s)
    \/ gConfigurations[s].closed /\ ~producer[c].open /\ ~Made(s)
    \/ ~gConfigurations[s].closed /\ (InTheMaking(s) \/ Has(s, c))

Follows ==
    Live => \A s \in Slots, c \in Cameras :
        Owns(s, c) /\ Prior(s) = c /\ gConfigurations[s].token # 0 => Served(s, c)

FollowInv ==
    /\ Leavers /\ Surfaces /\ Reach /\ Callers /\ Registrants /\ Origin /\ Gone /\ Lapsed
    /\ Numbers /\ Behind /\ EventKinds /\ Dead /\ Releases /\ Follows

\* What the names of the library's predicates expand to is what the lemmas below
\* need of the invariants they start from.
LEMMA RelayFacts ==
    ASSUME RelayInv
    PROVE  /\ ConnectionInv /\ RegistrationInv /\ QueueInv /\ OwnThread
           /\ RelayTypeOK /\ GlobalType /\ native \in [Threads -> NativeType]
           /\ calls \subseteq Calls /\ Slots \subseteq Threads /\ None \notin Cameras
  BY TypeSplit, Bounds DEF RelayInv, ConnectionInv, RegistrationInv, GlobalType

-----------------------------------------------------------------------------
(***************************************************************************)
(* The relay's steps, as the producer's slot sees them.                    *)
(***************************************************************************)

\* The steps that are about a slot's surface.
SurfaceStep(t) == SurfaceCheck(t) \/ SurfaceAbandon(t) \/ SurfaceInstall(t) \/ ReleaseSurface(t)

\* The HAL announces a configuration of its producer, or the end of one.
Announces(k) ==
    /\ k \in Calls /\ k.at = "sent" /\ k.registration = halProducer[k.slot]
    /\ halProducer[k.slot] # None /\ k.epoch = halCallback
    /\ calls' = calls \cup {k}

\* A thread goes on in its method: it has the same arguments.
GoesOn(t) ==
    /\ native'[t].method = native[t].method /\ native'[t].slot = native[t].slot
    /\ native'[t].camera = native[t].camera /\ native'[t].connection = native[t].connection
    /\ native'[t].token = native[t].token /\ native'[t].at # "java" /\ native[t].at # "java"

\* The connection is the same, or another one has been made.
LEMMA Reconnected ==
    ASSUME ConnectionInv, RelayNext, Live', \A t \in Threads : ~Connect(t)
    PROVE  Live /\ UNCHANGED <<life, gHal, gConnectionEpoch>>
<1>1. GlobalType
  BY TypeSplit DEF ConnectionInv
<1>2. CASE Hal
  <2>1. ~HalStart
    BY <1>1, Bounds DEF HalStart, connection, GlobalType, Live
  <2>2. ~HalCrash
    BY DEF HalCrash, connection, Live
  <2> QED
    BY <1>2, <2>1, <2>2, Zenon DEF Hal, HalConfigure, HalClose, connection, Live
<1>3. CASE RelayAlone
  BY <1>3, Zenon DEF RelayAlone, Admit, HalDied, DeathReleases, FrameFails, hal, connection, Live
<1>4. ASSUME NEW t \in Threads, HalStep(t)
      PROVE  Live /\ UNCHANGED <<life, gHal, gConnectionEpoch>>
  BY <1>4
     DEF HalStep, HalCached, HalAbsent, Link, SetCallback, ConnectionReady, ConnectFails, hal,
         connection, Live
<1>5. ASSUME NEW t \in Threads, MethodStep(t)
      PROVE  Live /\ UNCHANGED <<life, gHal, gConnectionEpoch>>
  BY <1>5, Zenon
     DEF MethodStep, MaxCameras, RegisterLock, RegisterRpc, RegisterRestore, RemoveLock, RemoveRpc,
         ReadyLock, ReadyRpc, SurfaceCheck, SurfaceAbandon, SurfaceInstall, ReleaseSurface, hal,
         connection, Live
<1> QED
  BY <1>2, <1>3, <1>4, <1>5, RelayCases

\* A thread in hal() keeps its method's arguments, and leaves it with the
\* connection of the HAL that runs, if it is that HAL.
LEMMA HalStepGoesOn ==
    ASSUME ConnectionInv, NEW t \in Threads, HalStep(t)
    PROVE  /\ \A u \in Threads \ {t} : native'[u] = native[u]
           /\ \/ native'[t].method = "none" /\ native'[t].at = "java"
              \/ /\ GoesOn(t) /\ native'[t].at \in {"link", "setCallback", "ready", "lock"}
           /\ native[t].at \in {"hal", "link", "setCallback", "ready"}
<1>1. native \in [Threads -> NativeType] /\ native[t] \in NativeType
  BY TypeSplit DEF ConnectionInv
<1>2. ASSUME NEW h, AfterHal(t, h), native[t].at # "java"
      PROVE  \/ native'[t].method = "none" /\ native'[t].at = "java"
             \/ GoesOn(t) /\ native'[t].at = "lock"
  <2> DEFINE n == [native[t] EXCEPT !.at = "lock", !.h = h]
  <2>1. /\ n.at = "lock" /\ n.method = native[t].method /\ n.slot = native[t].slot
        /\ n.camera = native[t].camera /\ n.connection = native[t].connection
        /\ n.token = native[t].token
    BY <1>1 DEF NativeType
  <2>2. native'[t] \in {Returned(FALSE), Returned(TRUE), n}
    BY <1>1, <1>2 DEF AfterHal
  <2> HIDE DEF n
  <2> QED
    BY <1>2, <2>1, <2>2 DEF Returned, GoesOn
<1>3. native[t].at \in {"hal", "link", "setCallback", "ready"}
      /\ \A u \in Threads \ {t} : native'[u] = native[u]
  BY HalStepMove
<1>4. CASE HalCached(t) \/ HalAbsent(t) \/ ConnectionReady(t)
  BY <1>2, <1>3, <1>4 DEF HalCached, HalAbsent, ConnectionReady
<1>5. CASE (Link(t) \/ SetCallback(t)) /\ life # native[t].h
  BY <1>2, <1>3, <1>5 DEF Link, SetCallback, ConnectFails
<1>6. CASE (Link(t) \/ SetCallback(t)) /\ life = native[t].h
  BY <1>1, <1>3, <1>6 DEF Link, SetCallback, NativeType, GoesOn
<1>7. CASE Connect(t)
  <2> DEFINE n == [native[t] EXCEPT !.at = "link", !.h = life, !.epoch = gNextConnectionEpoch + 1]
  <2>1. /\ n.at = "link" /\ n.method = native[t].method /\ n.slot = native[t].slot
        /\ n.camera = native[t].camera /\ n.connection = native[t].connection
        /\ n.token = native[t].token
    BY <1>1 DEF NativeType
  <2>2. native'[t] = n
    BY <1>1, <1>7 DEF Connect
  <2> HIDE DEF n
  <2> QED
    BY <1>3, <2>1, <2>2 DEF GoesOn
<1> QED
  BY <1>3, <1>4, <1>5, <1>6, <1>7 DEF HalStep

LEMMA MethodStepGoesOn ==
    ASSUME ConnectionInv, NEW t \in Threads, MethodStep(t)
    PROVE  /\ \A u \in Threads \ {t} : native'[u] = native[u]
           /\ native[t].at # "java"
           /\ \/ native'[t].method = "none" /\ native'[t].at = "java"
              \/ GoesOn(t)
<1>1. native \in [Threads -> NativeType] /\ native[t] \in NativeType
  BY TypeSplit DEF ConnectionInv
<1>2. /\ \A u \in Threads \ {t} : native'[u] = native[u]
      /\ \/ native'[t].method = "none" /\ native'[t].at = "java"
         \/ /\ native'[t].method = native[t].method /\ native'[t].slot = native[t].slot
            /\ native'[t].camera = native[t].camera /\ native'[t].at # "java"
  BY MethodStepMove
<1>3. native[t].at # "java"
  BY Zenon DEF MethodStep, MaxCameras, RegisterLock, RegisterRpc, RegisterRestore, RemoveLock, RemoveRpc,
         ReadyLock, ReadyRpc, SurfaceCheck, SurfaceAbandon, SurfaceInstall, ReleaseSurface
<1>4. \A ok : Returned(ok).method = "none" /\ Returned(ok).at = "java"
  BY DEF Returned
<1>5. CASE MaxCameras(t) \/ RemoveRpc(t) \/ RegisterRestore(t) \/ ReadyRpc(t) \/ ReleaseSurface(t)
  <2>1. \E ok : native'[t] = Returned(ok)
    <3>1. CASE MaxCameras(t) \/ ReleaseSurface(t)
      BY <1>1, <3>1, Zenon DEF MaxCameras, ReleaseSurface
    <3>2. CASE RemoveRpc(t) \/ RegisterRestore(t) \/ ReadyRpc(t)
      BY <1>1, <3>2, Zenon DEF RemoveRpc, RegisterRestore, ReadyRpc
    <3> QED
      BY <1>5, <3>1, <3>2
  <2> QED
    BY <1>2, <1>3, <1>4, <2>1
<1>6. CASE RegisterLock(t) \/ RemoveLock(t)
  <2>1. \/ native'[t] = Returned(FALSE)
        \/ native'[t].connection = native[t].connection /\ native'[t].token = native[t].token
    <3>1. CASE RegisterLock(t)
      BY <1>1, <3>1, Zenon DEF RegisterLock, NativeType
    <3>2. CASE RemoveLock(t)
      BY <1>1, <3>2, Zenon DEF RemoveLock, NativeType
    <3> QED
      BY <1>6, <3>1, <3>2, Zenon
  <2> QED
    BY <1>2, <1>3, <1>4, <2>1, Zenon DEF GoesOn
<1>7. ASSUME NEW at, native' = [native EXCEPT ![t].at = at]
      PROVE  GoesOn(t) \/ native'[t].at = "java"
  BY <1>1, <1>2, <1>3, <1>7 DEF NativeType, GoesOn
<1>8. ASSUME NEW ok, native' = [native EXCEPT ![t] = Returned(ok)]
      PROVE  native'[t].method = "none" /\ native'[t].at = "java"
  BY <1>1, <1>4, <1>8
<1>9. CASE RegisterRpc(t) \/ ReadyLock(t) \/ SurfaceCheck(t) \/ SurfaceAbandon(t) \/ SurfaceInstall(t)
  <2>1. \/ \E ok : native' = [native EXCEPT ![t] = Returned(ok)]
        \/ \E at : native' = [native EXCEPT ![t].at = at]
    BY <1>9, Zenon DEF RegisterRpc, ReadyLock, SurfaceCheck, SurfaceAbandon, SurfaceInstall
  <2> QED
    BY <1>2, <1>3, <1>7, <1>8, <2>1
<1> QED
  BY <1>5, <1>6, <1>9 DEF MethodStep

\* Where a thread may be that is making or releasing a surface.
LEMMA SurfaceMoves ==
    ASSUME ConnectionInv, NEW t \in Threads, MethodStep(t), ~SurfaceStep(t)
    PROVE  /\ native[t].at \in {"lock", "rpc", "restore"}
           /\ native'[t].at \in {"java", "rpc", "restore"}
<1>1. native \in [Threads -> NativeType] /\ native[t] \in NativeType
  BY TypeSplit DEF ConnectionInv
<1>2. \A ok : Returned(ok).at = "java"
  BY DEF Returned
<1>3. CASE MaxCameras(t) \/ RemoveRpc(t) \/ RegisterRestore(t) \/ ReadyRpc(t)
  <2>1. \E ok : native'[t] = Returned(ok)
    BY <1>1, <1>3, Zenon DEF MaxCameras, RemoveRpc, RegisterRestore, ReadyRpc
  <2>2. native[t].at \in {"lock", "rpc", "restore"}
    BY <1>3, Zenon DEF MaxCameras, RemoveRpc, RegisterRestore, ReadyRpc
  <2> QED
    BY <1>2, <2>1, <2>2
<1>4. CASE RegisterLock(t) \/ RemoveLock(t)
  <2>1. native[t].at = "lock" /\ (native'[t] = Returned(FALSE) \/ native'[t].at = "rpc")
    <3>1. CASE RegisterLock(t)
      BY <1>1, <3>1, Zenon DEF RegisterLock, NativeType
    <3>2. CASE RemoveLock(t)
      BY <1>1, <3>2, Zenon DEF RemoveLock, NativeType
    <3> QED
      BY <1>4, <3>1, <3>2, Zenon
  <2> QED
    BY <1>2, <2>1, Zenon
<1>5. CASE RegisterRpc(t) \/ ReadyLock(t)
  <2>1. /\ native[t].at \in {"lock", "rpc"}
        /\ \/ \E ok : native' = [native EXCEPT ![t] = Returned(ok)]
           \/ \E at \in {"rpc", "restore"} : native' = [native EXCEPT ![t].at = at]
    BY <1>5, Zenon DEF RegisterRpc, ReadyLock
  <2> QED
    BY <1>1, <1>2, <2>1 DEF NativeType
<1> QED
  BY <1>3, <1>4, <1>5 DEF MethodStep, SurfaceStep

LEMMA SurfaceStepMoves ==
    ASSUME ConnectionInv, NEW t \in Threads, SurfaceStep(t)
    PROVE  \/ native'[t].method = "none" /\ native'[t].at = "java"
           \/ GoesOn(t) /\ native'[t].at \in {"abandon", "install"}
                        /\ native[t].at \in {"check", "abandon"}
<1>1. native \in [Threads -> NativeType] /\ native[t] \in NativeType
  BY TypeSplit DEF ConnectionInv
<1>2. \A ok : Returned(ok).at = "java" /\ Returned(ok).method = "none"
  BY DEF Returned
<1>3. \/ \E ok : native' = [native EXCEPT ![t] = Returned(ok)]
      \/ /\ \E at \in {"abandon", "install"} : native' = [native EXCEPT ![t].at = at]
         /\ native[t].at \in {"check", "abandon"}
  BY Zenon DEF SurfaceStep, SurfaceCheck, SurfaceAbandon, SurfaceInstall, ReleaseSurface
<1> QED
  BY <1>1, <1>2, <1>3, MethodStepGoesOn DEF NativeType, SurfaceStep, MethodStep

\* What Surfaces says of one thread.
SurfaceThread(t, n) ==
    /\ n.at \in {"check", "abandon", "install"} <=> CreatesSurface(n)
    /\ n.at = "release" <=> ReleasesSurface(n)
    /\ CreatesSurface(n) \/ ReleasesSurface(n) => n.slot = t

\* How a step of the relay moves a thread.
LEMMA ThreadMoves ==
    ASSUME ConnectionInv, Surfaces, RelayNext, NEW t \in Threads
    PROVE  /\ \/ native'[t] = native[t]
              \/ native'[t].method = "none" /\ native'[t].at = "java"
              \/ GoesOn(t)
           /\ SurfaceThread(t, native'[t])
<1>1. SurfaceThread(t, native[t])
  BY DEF Surfaces, SurfaceThread
<1>2. CASE native'[t] = native[t]
  BY <1>1, <1>2
<1>3. CASE native'[t].method = "none" /\ native'[t].at = "java"
  BY <1>3 DEF SurfaceThread, CreatesSurface, ReleasesSurface
<1>4. CASE HalStep(t)
  BY <1>1, <1>2, <1>3, <1>4, HalStepGoesOn DEF SurfaceThread, CreatesSurface, ReleasesSurface, GoesOn
<1>5. CASE MethodStep(t)
  <2>1. CASE SurfaceStep(t)
    BY <1>1, <1>3, <2>1, SurfaceStepMoves
       DEF SurfaceThread, CreatesSurface, ReleasesSurface, GoesOn
  <2>2. CASE ~SurfaceStep(t)
    BY <1>1, <1>3, <1>5, <2>2, SurfaceMoves, MethodStepGoesOn
       DEF SurfaceThread, CreatesSurface, ReleasesSurface, GoesOn
  <2> QED
    BY <2>1, <2>2
<1>6. ASSUME NEW u \in Threads, u # t, HalStep(u) \/ MethodStep(u)
      PROVE  native'[t] = native[t]
  BY <1>6, HalStepGoesOn, MethodStepGoesOn
<1>7. CASE Hal \/ RelayAlone
  <2>1. native' = native
    BY <1>7, Zenon
       DEF Hal, HalStart, HalCrash, HalConfigure, HalClose, RelayAlone, Admit, HalDied,
           DeathReleases, FrameFails
  <2> QED
    BY <1>2, <2>1
<1> QED
  BY <1>2, <1>4, <1>5, <1>6, <1>7, RelayCases

LEMMA RelaySurfaces ==
    ASSUME RelayInv, ServiceInv, Surfaces, RelayNext, UNCHANGED serviceVars
    PROVE  Surfaces'
<1>1. job' = job /\ job \in [Slots -> [task : TaskType, at : Places]]
  BY UnchangedService DEF ServiceInv, ServiceTypes
<1>2. \A t \in Threads : SurfaceThread(t, native'[t])
  BY ThreadMoves DEF RelayInv
<1>3. ASSUME NEW s \in Slots
      PROVE  /\ native'[s].method \in MethodsAt[job[s].at]
             /\ CreatesSurface(native'[s]) => /\ native'[s].connection = job[s].task.connection
                                              /\ native'[s].token = job[s].task.token
  <2>1. \/ native'[s] = native[s]
        \/ native'[s].method = "none" /\ native'[s].at = "java"
        \/ GoesOn(s)
    BY ThreadMoves, RelayFacts
  <2>2. job[s].at \in Places
    BY <1>1
  <2>3. "none" \in MethodsAt[job[s].at]
    BY <2>2 DEF MethodsAt, Places
  <2> QED
    BY <2>1, <2>3 DEF Surfaces, CreatesSurface, GoesOn
<1> QED
  BY <1>1, <1>2, <1>3 DEF Surfaces, SurfaceThread

\* While a connection that is current runs, nothing takes it back.
LEMMA CurrentStays ==
    ASSUME ConnectionInv, RelayNext, gHal # 0, gHal = life, life' = life
    PROVE  UNCHANGED <<gHal, gConnectionEpoch, gNextConnectionEpoch>>
<1>1. GlobalType
  BY TypeSplit DEF ConnectionInv
<1>2. CASE Hal
  BY <1>2, Zenon DEF Hal, HalStart, HalCrash, HalConfigure, HalClose, connection
<1>3. CASE RelayAlone
  <2>1. ASSUME NEW k \in links, HalDied(k)
        PROVE  UNCHANGED <<gHal, gConnectionEpoch, gNextConnectionEpoch>>
    BY <2>1 DEF HalDied, ConnectionInv, LinkOfHal
  <2> QED
    BY <1>3, <2>1, Zenon DEF RelayAlone, Admit, DeathReleases, FrameFails, connection
<1>4. ASSUME NEW t \in Threads, HalStep(t)
      PROVE  UNCHANGED <<gHal, gConnectionEpoch, gNextConnectionEpoch>>
  <2>1. ~Connect(t)
    BY ConnectFresh
  <2>2. CASE Link(t) \/ SetCallback(t)
    <3>1. Connector(t)
      BY <2>2 DEF Link, SetCallback, ConnectionInv, Connectors, Connecting
    <3> QED
      BY <2>2, <3>1 DEF Link, SetCallback, ConnectFails, Connector, connection
  <2> QED
    BY <1>4, <2>1, <2>2 DEF HalStep, HalCached, HalAbsent, ConnectionReady, connection
<1>5. ASSUME NEW t \in Threads, MethodStep(t)
      PROVE  UNCHANGED <<gHal, gConnectionEpoch, gNextConnectionEpoch>>
  BY <1>5, Zenon
     DEF MethodStep, MaxCameras, RegisterLock, RegisterRpc, RegisterRestore, RemoveLock, RemoveRpc,
         ReadyLock, ReadyRpc, SurfaceCheck, SurfaceAbandon, SurfaceInstall, ReleaseSurface, connection
<1> QED
  BY <1>2, <1>3, <1>4, <1>5, RelayCases

\* What a step about a registration does to its slot.
Leaves(t) == native'[t].method = "none" /\ native'[t].at = "java"

Registers(t) ==
    /\ native[t].method = "registerProducer" /\ native[t].at = "lock" /\ gHal = native[t].h
    /\ Registering(t)' /\ native'[t].h = native[t].h /\ native'[t].epoch = gConnectionEpoch
    /\ native'[t].previous = gRegistrations[t]
    /\ gRegistrations'[t] = native[t].camera /\ gConfigurations' = gConfigurations

Refuses(t) ==
    /\ Registering(t) /\ Registering(t)' /\ native'[t].h = native[t].h
    /\ native'[t].epoch = native[t].epoch /\ native'[t].previous = native[t].previous
    /\ UNCHANGED <<gRegistrations, gConfigurations>>

IsRegistered(t) ==
    /\ Registering(t) /\ Leaves(t) /\ life = native[t].h
    /\ UNCHANGED <<gRegistrations, gConfigurations>>

Restores(t) ==
    /\ Registering(t) /\ Leaves(t) /\ gConfigurations' = gConfigurations
    /\ gRegistrations'[t] = IF gHal = native[t].h /\ gRegistrations[t] = native[t].camera
                            THEN native[t].previous ELSE gRegistrations[t]

Removes(t) ==
    /\ native[t].method = "removeProducer" /\ native[t].at = "lock" /\ gHal = native[t].h
    /\ gRegistrations'[t] = None
    /\ gConfigurations'[t].token = gConfigurations[t].token /\ gConfigurations'[t].closed
    /\ native'[t].method = "removeProducer" /\ native'[t].at = "rpc"

RemovesNothing(t) ==
    /\ native[t].method = "removeProducer" /\ native[t].at = "lock" /\ Leaves(t)
    /\ gHal # native[t].h \/ gRegistrations[t] # native[t].camera
    /\ UNCHANGED <<gRegistrations, gConfigurations>>

IsRemoved(t) == Removing(t) /\ Leaves(t) /\ UNCHANGED <<gRegistrations, gConfigurations>>

RegistersNothing(t) ==
    /\ native[t].method = "registerProducer" /\ native[t].at = "lock" /\ Leaves(t)
    /\ UNCHANGED <<gRegistrations, gConfigurations>>

LEMMA RegistrationMoves ==
    ASSUME ConnectionInv, OwnThread, NEW t \in Threads, RegistrationStep(t)
    PROVE  /\ t \in Slots /\ \A u \in Threads \ {t} : native'[u] = native[u]
           /\ UNCHANGED <<life, gHal, gConnectionEpoch, calls, gSlots>>
           /\ \A r \in Slots \ {t} : /\ gRegistrations'[r] = gRegistrations[r]
                                     /\ gConfigurations'[r] = gConfigurations[r]
           /\ \/ Registers(t) \/ Refuses(t) \/ IsRegistered(t) \/ Restores(t) \/ RegistersNothing(t)
              \/ Removes(t) \/ RemovesNothing(t) \/ IsRemoved(t)
<1>1. /\ native \in [Threads -> NativeType] /\ native[t] \in NativeType
      /\ gRegistrations \in [Slots -> Registration]
      /\ gConfigurations \in [Slots -> [token : 0 .. MaxTokens, closed : BOOLEAN]]
  BY TypeSplit DEF ConnectionInv, GlobalType
<1>2. /\ t \in Slots /\ native[t].slot = t /\ \A u \in Threads \ {t} : native'[u] = native[u]
      /\ UNCHANGED <<life, gHal, gConnectionEpoch>>
  BY RegistrationStepSlot
<1>3. UNCHANGED <<calls, gSlots>>
  BY Zenon DEF RegistrationStep, RegisterLock, RegisterRpc, RegisterRestore, RemoveLock, RemoveRpc, queues
<1>4. \A ok : Returned(ok).at = "java" /\ Returned(ok).method = "none"
  BY DEF Returned
<1>5. ASSUME NEW ok, native' = [native EXCEPT ![t] = Returned(ok)]
      PROVE  Leaves(t)
  BY <1>1, <1>4, <1>5 DEF Leaves
<1>6. CASE RegisterLock(t)
  <2>1. CASE gHal = native[t].h
    <3> DEFINE n == [native[t] EXCEPT !.at = "rpc", !.epoch = gConnectionEpoch,
                                      !.previous = gRegistrations[t]]
    <3>1. /\ n.at = "rpc" /\ n.method = "registerProducer" /\ n.h = native[t].h
          /\ n.epoch = gConnectionEpoch /\ n.previous = gRegistrations[t]
      BY <1>1, <1>6 DEF RegisterLock, NativeType
    <3>2. native'[t] = n
      BY <1>1, <1>2, <1>6, <2>1 DEF RegisterLock
    <3>3. gRegistrations' = [gRegistrations EXCEPT ![t] = native[t].camera]
      BY <1>2, <1>6, <2>1 DEF RegisterLock
    <3> HIDE DEF n
    <3>4. Registers(t)
      BY <1>1, <1>2, <1>6, <2>1, <3>1, <3>2, <3>3 DEF RegisterLock, Registers, Registering
    <3> QED
      BY <1>1, <1>2, <1>3, <1>6, <3>3, <3>4 DEF RegisterLock
  <2>2. CASE gHal # native[t].h
    <3>1. /\ native' = [native EXCEPT ![t] = Returned(FALSE)]
          /\ UNCHANGED <<gRegistrations, gConfigurations>>
          /\ native[t].method = "registerProducer" /\ native[t].at = "lock"
      BY <1>6, <2>2, Zenon DEF RegisterLock
    <3>2. RegistersNothing(t)
      BY <1>5, <3>1, Zenon DEF RegistersNothing
    <3> QED
      BY <1>2, <1>3, <3>1, <3>2
  <2> QED
    BY <2>1, <2>2
<1>7. CASE RegisterRpc(t)
  <2>1. /\ Registering(t) /\ UNCHANGED <<gRegistrations, gConfigurations>>
    BY <1>7 DEF RegisterRpc, Registering, admission
  <2>2. CASE native' = [native EXCEPT ![t].at = "restore"]
    <3>1. Refuses(t)
      BY <1>1, <2>1, <2>2 DEF Refuses, Registering, NativeType
    <3> QED
      BY <1>2, <1>3, <2>1, <3>1
  <2>3. CASE native' # [native EXCEPT ![t].at = "restore"]
    <3>1. life = native[t].h /\ native' = [native EXCEPT ![t] = Returned(TRUE)]
      BY <1>7, <2>3, Zenon DEF RegisterRpc
    <3>2. IsRegistered(t)
      BY <1>5, <2>1, <3>1, Zenon DEF IsRegistered
    <3> QED
      BY <1>2, <1>3, <2>1, <3>2
  <2> QED
    BY <2>2, <2>3
<1>8. CASE RegisterRestore(t)
  <2>1. /\ Registering(t) /\ gConfigurations' = gConfigurations
        /\ native' = [native EXCEPT ![t] = Returned(FALSE)]
        /\ gRegistrations' = IF gHal = native[t].h /\ gRegistrations[t] = native[t].camera
                             THEN [gRegistrations EXCEPT ![t] = native[t].previous]
                             ELSE gRegistrations
    BY <1>2, <1>8 DEF RegisterRestore, Registering, OwnThread
  <2>2. Restores(t)
    BY <1>1, <1>2, <1>5, <2>1, Zenon DEF Restores
  <2> QED
    BY <1>1, <1>2, <1>3, <2>1, <2>2
<1>9. CASE RemoveLock(t)
  <2>1. CASE gHal = native[t].h /\ gRegistrations[t] = native[t].camera
    <3>1. /\ gRegistrations' = [gRegistrations EXCEPT ![t] = None]
          /\ gConfigurations' = [gConfigurations EXCEPT ![t].closed = TRUE]
          /\ native' = [native EXCEPT ![t] =
                            [@ EXCEPT !.at = "rpc", !.epoch = gConnectionEpoch]]
          /\ native[t].method = "removeProducer" /\ native[t].at = "lock"
      BY <1>2, <1>9, <2>1 DEF RemoveLock
    <3>2. native'[t].method = "removeProducer" /\ native'[t].at = "rpc"
      BY <1>1, <3>1 DEF NativeType
    <3>3. /\ gConfigurations'[t].token = gConfigurations[t].token /\ gConfigurations'[t].closed
          /\ \A r \in Slots \ {t} : /\ gRegistrations'[r] = gRegistrations[r]
                                    /\ gConfigurations'[r] = gConfigurations[r]
          /\ gRegistrations'[t] = None
      BY <1>1, <1>2, <3>1
    <3> QED
      BY <1>2, <1>3, <2>1, <3>1, <3>2, <3>3 DEF Removes
  <2>2. CASE ~(gHal = native[t].h /\ gRegistrations[t] = native[t].camera)
    <3>1. /\ native' = [native EXCEPT ![t] = Returned(FALSE)]
          /\ UNCHANGED <<gRegistrations, gConfigurations>>
          /\ native[t].method = "removeProducer" /\ native[t].at = "lock"
      BY <1>2, <1>9, <2>2, Zenon DEF RemoveLock, admission
    <3>2. RemovesNothing(t)
      BY <1>5, <2>2, <3>1, Zenon DEF RemovesNothing
    <3> QED
      BY <1>2, <1>3, <3>1, <3>2
  <2> QED
    BY <2>1, <2>2
<1>10. CASE RemoveRpc(t)
  <2>1. /\ Removing(t) /\ UNCHANGED <<gRegistrations, gConfigurations>>
        /\ native' = [native EXCEPT ![t] = Returned(TRUE)]
    BY <1>10 DEF RemoveRpc, Removing, admission
  <2>2. IsRemoved(t)
    BY <1>5, <2>1, Zenon DEF IsRemoved
  <2> QED
    BY <1>2, <1>3, <2>1, <2>2
<1> QED
  BY <1>6, <1>7, <1>8, <1>9, <1>10 DEF RegistrationStep

LEMMA RelayReach ==
    ASSUME RelayInv, Reach, RelayNext
    PROVE  Reach'
<1>1. /\ ConnectionInv /\ OwnThread /\ GlobalType /\ native \in [Threads -> NativeType]
      /\ Slots \subseteq Threads
  BY RelayFacts
<1>2. gHal' # 0 => gConnectionEpoch' = gNextConnectionEpoch'
  <2>1. CASE Hal \/ RelayAlone
    BY <2>1, Zenon
       DEF Hal, HalStart, HalCrash, HalConfigure, HalClose, RelayAlone, Admit, HalDied,
           DeathReleases, FrameFails, connection, Reach
  <2>2. ASSUME NEW t \in Threads, HalStep(t)
        PROVE  gHal' # 0 => gConnectionEpoch' = gNextConnectionEpoch'
    BY <2>2
       DEF HalStep, HalCached, HalAbsent, Connect, Link, SetCallback, ConnectionReady, ConnectFails,
           connection, Reach
  <2>3. ASSUME NEW t \in Threads, MethodStep(t)
        PROVE  gHal' # 0 => gConnectionEpoch' = gNextConnectionEpoch'
    BY <2>3, Zenon
       DEF MethodStep, MaxCameras, RegisterLock, RegisterRpc, RegisterRestore, RemoveLock, RemoveRpc,
           ReadyLock, ReadyRpc, SurfaceCheck, SurfaceAbandon, SurfaceInstall, ReleaseSurface,
           connection, Reach
  <2> QED
    BY <2>1, <2>2, <2>3, RelayCases
<1>3. ASSUME NEW s \in Slots, Registering(s)', native'[s].h = life'
      PROVE  gHal' = life' /\ gConnectionEpoch' = native'[s].epoch
  <2>1. ASSUME native'[s] = native[s]
        PROVE  gHal' = life' /\ gConnectionEpoch' = native'[s].epoch
    <3>1. Registering(s) /\ native[s].h # 0 /\ native[s].h \in 0 .. lives
      BY <1>1, <1>3, <2>1 DEF Registering, ConnectionInv, Calling, NativeType
    <3>2. life' = life
      <4>1. CASE Hal
        <5>1. ~HalStart
          BY <1>1, <1>3, <2>1, <3>1, Bounds DEF HalStart, GlobalType
        <5>2. ~HalCrash
          BY <1>3, <2>1, <3>1 DEF HalCrash
        <5> QED
          BY <4>1, <5>1, <5>2, Zenon DEF Hal, HalConfigure, HalClose
      <4>2. CASE RelayAlone
        BY <4>2, Zenon DEF RelayAlone, Admit, HalDied, DeathReleases, FrameFails, hal
      <4>3. ASSUME NEW t \in Threads, HalStep(t)
            PROVE  life' = life
        BY <4>3
           DEF HalStep, HalCached, HalAbsent, Connect, Link, SetCallback, ConnectionReady, hal
      <4>4. ASSUME NEW t \in Threads, MethodStep(t)
            PROVE  life' = life
        BY <4>4, Zenon
           DEF MethodStep, MaxCameras, RegisterLock, RegisterRpc, RegisterRestore, RemoveLock,
               RemoveRpc, ReadyLock, ReadyRpc, SurfaceCheck, SurfaceAbandon, SurfaceInstall,
               ReleaseSurface, hal
      <4> QED
        BY <4>1, <4>2, <4>3, <4>4, RelayCases
    <3> QED
      BY <1>1, <1>3, <2>1, <3>1, <3>2, CurrentStays DEF Reach
  <2>2. ASSUME NEW t \in Threads, RegistrationStep(t)
        PROVE  gHal' = life' /\ gConnectionEpoch' = native'[s].epoch
    <3>1. /\ \A u \in Threads \ {t} : native'[u] = native[u]
          /\ UNCHANGED <<life, gHal, gConnectionEpoch>>
          /\ \/ Registers(t) \/ Refuses(t) \/ Leaves(t)
             \/ native'[t].method = "removeProducer"
      BY <1>1, <2>2, RegistrationMoves
         DEF IsRegistered, Restores, RegistersNothing, Removes, RemovesNothing, IsRemoved
    <3>2. CASE s # t
      BY <1>1, <2>1, <3>1, <3>2
    <3>3. CASE s = t
      BY <1>3, <3>1, <3>3 DEF Registers, Refuses, Leaves, Registering, Reach
    <3> QED
      BY <3>2, <3>3
  <2>3. CASE \A t \in Threads : ~RegistrationStep(t)
    <3>1. Bystanders
      BY <1>1, <2>3, NextBystanders DEF Next
    <3> QED
      BY <1>3, <2>1, <3>1 DEF Bystanders
  <2> QED
    BY <2>2, <2>3
<1> QED
  BY <1>2, <1>3 DEF Reach

\* What the HAL announces.
LEMMA HalAnnounces ==
    ASSUME ConnectionInv, NEW s \in Slots, HalConfigure(s) \/ HalClose(s)
    PROVE  \E k : Announces(k)
<1>1. /\ GlobalType /\ ProducerConnected /\ MaxTokens \in Nat
      /\ TRUE \in BOOLEAN /\ FALSE \in BOOLEAN
  BY TypeSplit, Bounds DEF ConnectionInv
<1>2. CASE HalConfigure(s)
  <2> DEFINE k == Call(s, halNextToken + 1, FALSE)
  <2>1. halNextToken + 1 \in 1 .. MaxTokens /\ halProducer[s] # None
    BY <1>1, <1>2 DEF HalConfigure, GlobalType
  <2>2. k \in Calls
    BY <1>1, <2>1, CallType, Zenon
  <2>3. /\ k.at = "sent" /\ k.slot = s /\ k.registration = halProducer[s] /\ k.epoch = halCallback
        /\ calls' = calls \cup {k}
    BY <1>2 DEF HalConfigure, Call
  <2> HIDE DEF k
  <2> QED
    BY <2>1, <2>2, <2>3 DEF Announces
<1>3. CASE HalClose(s)
  <2> DEFINE k == Call(s, halToken[s], TRUE)
  <2>1. halToken[s] \in 1 .. MaxTokens /\ halProducer[s] # None
    BY <1>1, <1>3 DEF HalClose, GlobalType, ProducerConnected
  <2>2. k \in Calls
    BY <1>1, <2>1, CallType, Zenon
  <2>3. /\ k.at = "sent" /\ k.slot = s /\ k.registration = halProducer[s] /\ k.epoch = halCallback
        /\ calls' = calls \cup {k}
    BY <1>3 DEF HalClose, Call
  <2> HIDE DEF k
  <2> QED
    BY <2>1, <2>2, <2>3 DEF Announces
<1> QED
  BY <1>2, <1>3

\* What becomes of the callbacks when one is admitted, and when it is dropped.
AdmittedAs(k, m) ==
    /\ m.at = "admitted" /\ m.slot = k.slot /\ m.registration = k.registration
    /\ m.token = k.token /\ m.closed = k.closed /\ m.epoch = k.epoch

LEMMA AdmitMoves ==
    ASSUME ConnectionInv, NEW k \in calls, Admit(k)
    PROVE  /\ UNCHANGED <<life, gHal, gConnectionEpoch, native, gRegistrations, gSlots>>
           /\ k \in Calls /\ k.at = "sent"
           /\ \/ ~Admissible(k) /\ calls' = calls \ {k} /\ gConfigurations' = gConfigurations
              \/ /\ Admissible(k)
                 /\ \E m : AdmittedAs(k, m) /\ calls' = (calls \ {k}) \cup {m}
                 /\ \A s \in Slots : gConfigurations'[s] =
                        IF s = k.slot THEN [token |-> k.token, closed |-> k.closed]
                        ELSE gConfigurations[s]
<1>1. /\ k \in Calls /\ k.slot \in Slots
      /\ gConfigurations \in [Slots -> [token : 0 .. MaxTokens, closed : BOOLEAN]]
  BY TypeSplit DEF ConnectionInv, GlobalType, Calls
<1>2. /\ UNCHANGED <<life, gHal, gConnectionEpoch, native, gRegistrations, gSlots>>
      /\ k.at = "sent"
  BY DEF Admit, hal, connection, queues
<1>3. CASE Admissible(k)
  <2> DEFINE m == [k EXCEPT !.at = "admitted"]
  <2>1. AdmittedAs(k, m)
    BY <1>1 DEF AdmittedAs, Calls
  <2>2. calls' = (calls \ {k}) \cup {m}
    BY <1>3 DEF Admit
  <2> HIDE DEF m
  <2>3. gConfigurations' = [gConfigurations EXCEPT ![k.slot] = [token |-> k.token, closed |-> k.closed]]
    BY <1>3 DEF Admit
  <2> QED
    BY <1>1, <1>2, <1>3, <2>1, <2>2, <2>3
<1>4. CASE ~Admissible(k)
  BY <1>1, <1>2, <1>4 DEF Admit
<1> QED
  BY <1>3, <1>4

\* The callbacks under way: new ones are from the HAL's producer, and an admitted
\* one is one that was sent.
LEMMA RelayCalls ==
    ASSUME ConnectionInv, RelayNext, NEW k \in calls'
    PROVE  k \in calls \/ Announces(k) \/ \E m \in calls : AdmittedAs(m, k)
<1>1. CASE Hal
  <2>1. CASE HalStart \/ HalCrash
    BY <2>1 DEF HalStart, HalCrash
  <2>2. ASSUME NEW s \in Slots, HalConfigure(s) \/ HalClose(s)
        PROVE  k \in calls \/ Announces(k)
    <3>1. PICK m : Announces(m)
      BY <2>2, HalAnnounces
    <3> QED
      BY <3>1 DEF Announces
  <2> QED
    BY <1>1, <2>1, <2>2 DEF Hal
<1>2. CASE RelayAlone
  <2>1. ASSUME NEW m \in calls, Admit(m)
        PROVE  k \in calls \/ AdmittedAs(m, k)
    BY <2>1, AdmitMoves, Zenon
  <2>2. CASE ~\E m \in calls : Admit(m)
    BY <1>2, <2>2, Zenon DEF RelayAlone, HalDied, DeathReleases, FrameFails
  <2> QED
    BY <2>1, <2>2
<1>3. ASSUME NEW t \in Threads, HalStep(t) \/ MethodStep(t)
      PROVE  calls' = calls
  BY <1>3, Zenon
     DEF HalStep, HalCached, HalAbsent, Connect, Link, SetCallback, ConnectionReady, MethodStep,
         MaxCameras, RegisterLock, RegisterRpc, RegisterRestore, RemoveLock, RemoveRpc, ReadyLock,
         ReadyRpc, SurfaceCheck, SurfaceAbandon, SurfaceInstall, ReleaseSurface
<1> QED
  BY <1>1, <1>2, <1>3, RelayCases

LEMMA RelayCallers ==
    ASSUME RelayInv, ServiceInv, Callers, RelayNext, UNCHANGED serviceVars
    PROVE  Callers'
<1>1. /\ ConnectionInv /\ Registry /\ HalProducerIsOwner
      /\ assigned' = assigned /\ producer' = producer
  BY UnchangedService DEF RelayInv, ServiceInv
<1>2. ASSUME NEW k \in calls'
      PROVE  assigned[k.registration] = k.slot
  <2>1. CASE Announces(k)
    <3>1. k.slot \in Slots /\ mSlots[k.slot].owner = k.registration /\ k.registration # None
      BY <1>1, <2>1 DEF Announces, HalProducerIsOwner, Calls
    <3> QED
      BY <1>1, <3>1 DEF Registry
  <2> QED
    BY <1>1, <2>1, RelayCalls DEF Callers, AdmittedAs
<1> QED
  BY <1>1, <1>2 DEF Callers

\* Deaths are those of connections that are over.
LEMMA RelayDead ==
    ASSUME RelayInv, ServiceInv, Dead, RelayNext, UNCHANGED serviceVars
    PROVE  Dead'
<1>1. /\ ConnectionInv /\ GlobalType /\ Tasks /\ mLifecycle' = mLifecycle
      /\ gNextConnectionEpoch \in Nat
  BY RelayFacts, UnchangedService DEF ServiceInv, GlobalType
<1>2. CASE UNCHANGED <<gHal, gConnectionEpoch, deaths>> \/ (gHal' = 0 /\ deaths' = deaths)
  BY <1>1, <1>2 DEF Dead
<1>3. CASE Hal
  BY <1>2, <1>3, Zenon DEF Hal, HalStart, HalCrash, HalConfigure, HalClose, connection
<1>4. CASE RelayAlone
  <2>1. ASSUME NEW k \in links, HalDied(k)
        PROVE  Dead'
    BY <1>1, <1>2, <2>1 DEF HalDied, Dead
  <2>2. ASSUME NEW d \in deaths, NEW s \in Slots, DeathReleases(d, s)
        PROVE  Dead'
    <3> DEFINE e == [d EXCEPT !.slots = @ \ {s}]
    <3>1. deaths' = (deaths \ {d}) \cup {e} /\ UNCHANGED <<gHal, gConnectionEpoch>>
      BY <2>2 DEF DeathReleases, connection
    <3>2. d \in [epoch : 1 .. gNextConnectionEpoch, slots : SUBSET Slots]
      BY <1>1 DEF GlobalType
    <3>3. e.epoch = d.epoch
      BY <3>2
    <3> HIDE DEF e
    <3> QED
      BY <1>1, <3>1, <3>3 DEF Dead
  <2> QED
    BY <1>2, <1>4, <2>1, <2>2, Zenon DEF RelayAlone, Admit, FrameFails, connection
<1>5. ASSUME NEW t \in Threads, HalStep(t)
      PROVE  Dead'
  <2>1. CASE Connect(t)
    <3>1. gConnectionEpoch' = gNextConnectionEpoch + 1 /\ deaths' = deaths
      BY <2>1 DEF Connect
    <3>2. \A d \in deaths : d.epoch # gConnectionEpoch'
      BY <1>1, <3>1 DEF GlobalType
    <3>3. \A s \in Slots : \A i \in DOMAIN mLifecycle[s] :
              /\ mLifecycle[s][i].connection <= gNextConnectionEpoch
              /\ mLifecycle[s][i].connection \in Nat
      <4>1. SUFFICES ASSUME NEW s \in Slots, NEW i \in DOMAIN mLifecycle[s]
                     PROVE  /\ mLifecycle[s][i].connection <= gNextConnectionEpoch
                            /\ mLifecycle[s][i].connection \in Nat
        OBVIOUS
      <4>2. TaskOK(s, mLifecycle[s][i])
        BY <1>1 DEF Tasks
      <4>3. mLifecycle[s][i] \in TaskType
        BY DEF ServiceInv, ServiceTypes
      <4> QED
        BY <4>2, <4>3, Bounds DEF TaskOK, TaskType
    <3>4. \A s \in Slots : \A i \in DOMAIN mLifecycle[s] :
              mLifecycle[s][i].connection # gConnectionEpoch'
      BY <1>1, <3>1, <3>3
    <3> QED
      BY <1>1, <3>1, <3>2, <3>4 DEF Dead
  <2>2. CASE ~Connect(t)
    BY <1>2, <1>5, <2>2
       DEF HalStep, HalCached, HalAbsent, Link, SetCallback, ConnectionReady, ConnectFails,
           connection
  <2> QED
    BY <2>1, <2>2
<1>6. ASSUME NEW t \in Threads, MethodStep(t)
      PROVE  Dead'
  BY <1>2, <1>6, Zenon
     DEF MethodStep, MaxCameras, RegisterLock, RegisterRpc, RegisterRestore, RemoveLock, RemoveRpc,
         ReadyLock, ReadyRpc, SurfaceCheck, SurfaceAbandon, SurfaceInstall, ReleaseSurface, connection
<1> QED
  BY <1>3, <1>4, <1>5, <1>6, RelayCases

-----------------------------------------------------------------------------
\* What a step of the relay does to a slot that it is not about: its thread may
\* pass hal().
Passes(s) ==
    \/ native'[s] = native[s]
    \/ /\ native[s].at \in {"hal", "link", "setCallback", "ready"}
       /\ native[s].method \in {"isHalUp", "registerProducer", "removeProducer"}
       /\ native'[s].at = "lock" => native'[s].h = gHal
       /\ \/ GoesOn(s) /\ native'[s].at \in {"link", "setCallback", "ready", "lock"}
          \/ native[s].method = "isHalUp" /\ Leaves(s)

Elsewhere ==
    /\ UNCHANGED <<calls, gRegistrations, gConfigurations>>
    /\ \A s \in Slots : /\ Passes(s)
                        /\ gSlots[s].connection = gConnectionEpoch => gSlots'[s] = gSlots[s]

\* A thread in hal(), while the relay is connected.
LEMMA HalStepPasses ==
    ASSUME RelayInv, ServiceInv, Surfaces, Live, NEW t \in Threads, HalStep(t), ~Connect(t)
    PROVE  Elsewhere
<1>1. /\ ConnectionInv /\ GlobalType /\ native \in [Threads -> NativeType]
      /\ native[t] \in NativeType /\ Jobs /\ ServiceTypes /\ Slots \subseteq Threads
  BY RelayFacts DEF ServiceInv
<1>2. UNCHANGED <<calls, gRegistrations, gConfigurations, gSlots>>
  BY DEF HalStep, HalCached, HalAbsent, Link, SetCallback, ConnectionReady, admission, queues
<1>3. /\ \A u \in Threads \ {t} : native'[u] = native[u]
      /\ native[t].at \in {"hal", "link", "setCallback", "ready"}
  BY <1>1, HalStepGoesOn
<1>4. ASSUME t \in Slots
      PROVE  native[t].method \in {"isHalUp", "registerProducer", "removeProducer"}
  <2>1. native[t].method \in MethodsAt[job[t].at] /\ job[t].at \in Places
    BY <1>1, <1>4 DEF Surfaces, ServiceTypes
  <2>2. ~CreatesSurface(native[t]) /\ ~ReleasesSurface(native[t])
    BY <1>3 DEF Surfaces
  <2>3. native[t].method # "none"
    BY <1>1, <1>3 DEF Jobs
  <2> QED
    BY <2>1, <2>2, <2>3 DEF MethodsAt, Places, CreatesSurface, ReleasesSurface
<1>5. ASSUME AfterHal(t, gHal)
      PROVE  /\ native'[t].at = "lock" => native'[t].h = gHal
             /\ native'[t].at = "java" => native[t].method = "isHalUp"
  <2>1. CASE native[t].method = "isHalUp"
    <3>1. native'[t] = Returned(TRUE)
      BY <1>1, <1>5, <2>1 DEF AfterHal, Live
    <3> QED
      BY <2>1, <3>1 DEF Returned
  <2>2. CASE native[t].method # "isHalUp"
    <3>1. native'[t] = [native[t] EXCEPT !.at = "lock", !.h = gHal]
      BY <1>1, <1>5, <2>2 DEF AfterHal, Live
    <3> QED
      BY <1>1, <3>1 DEF NativeType
  <2> QED
    BY <2>1, <2>2
<1>6. /\ native'[t].at = "lock" => native'[t].h = gHal
      /\ native'[t].at = "java" => native[t].method = "isHalUp"
  <2>1. CASE HalCached(t)
    BY <1>5, <2>1 DEF HalCached
  <2>2. CASE HalAbsent(t)
    BY <2>2 DEF HalAbsent, Live
  <2>3. ASSUME native[t].at \in Connecting
        PROVE  gConnectionEpoch = native[t].epoch /\ gHal = native[t].h /\ gHal = life
    BY <1>1, <2>3, Zenon DEF ConnectionInv, Connectors, Connector, Live, EpochOfHal
  <2>4. CASE Link(t) \/ SetCallback(t)
    <3>1. \E at \in {"setCallback", "ready"} : native' = [native EXCEPT ![t].at = at]
      BY <2>3, <2>4 DEF Link, SetCallback, Connecting
    <3> QED
      BY <1>1, <3>1 DEF NativeType
  <2>5. CASE ConnectionReady(t)
    BY <1>5, <2>3, <2>5 DEF ConnectionReady, Connecting
  <2> QED
    BY <2>1, <2>2, <2>4, <2>5 DEF HalStep
<1>7. ASSUME NEW s \in Slots
      PROVE  Passes(s)
  <2>1. CASE s # t
    BY <1>1, <1>3, <2>1 DEF Passes
  <2>2. CASE s = t
    BY <1>1, <1>3, <1>4, <1>6, <2>2, HalStepGoesOn DEF Passes, Leaves
  <2> QED
    BY <2>1, <2>2
<1> QED
  BY <1>2, <1>7 DEF Elsewhere

\* The steps of the relay while it stays connected.
LEMMA RelaySorts ==
    ASSUME RelayInv, ServiceInv, Surfaces, Dead, RelayNext, Live', \A t \in Threads : ~Connect(t)
    PROVE  \/ /\ \E k : Announces(k)
              /\ UNCHANGED <<native, gRegistrations, gConfigurations, gSlots>>
           \/ \E k \in calls : Admit(k)
           \/ \E t \in Threads : RegistrationStep(t) \/ SurfaceStep(t)
           \/ Elsewhere
<1>1. /\ ConnectionInv /\ GlobalType /\ Slots \subseteq Threads
      /\ native \in [Threads -> NativeType] /\ ServiceTypes /\ Jobs
  BY RelayFacts DEF ServiceInv
<1>2. Live /\ UNCHANGED <<life, gHal, gConnectionEpoch>>
  BY <1>1, Reconnected
<1>3. ASSUME UNCHANGED <<calls, native, gRegistrations, gConfigurations>>,
             \A s \in Slots : gSlots[s].connection = gConnectionEpoch => gSlots'[s] = gSlots[s]
      PROVE  Elsewhere
  BY <1>3 DEF Elsewhere, Passes
<1>4. CASE Hal
  <2>1. ~HalStart /\ ~HalCrash
    BY <1>1, <1>2, Bounds DEF HalStart, HalCrash, GlobalType, Live
  <2>2. ASSUME NEW s \in Slots, HalConfigure(s) \/ HalClose(s)
        PROVE  /\ \E k : Announces(k)
               /\ UNCHANGED <<native, gRegistrations, gConfigurations, gSlots>>
    BY <1>1, <2>2, HalAnnounces, Zenon DEF HalConfigure, HalClose, admission, queues
  <2> QED
    BY <1>4, <2>1, <2>2 DEF Hal
<1>5. CASE RelayAlone
  <2>1. ASSUME NEW k \in links, HalDied(k)
        PROVE  Elsewhere
    BY <1>3, <2>1 DEF HalDied, admission, queues
  <2>2. ASSUME NEW d \in deaths, NEW s \in Slots, DeathReleases(d, s)
        PROVE  Elsewhere
    <3>1. d.epoch # 0 /\ d.epoch # gConnectionEpoch
      BY <1>1, <1>2 DEF GlobalType, Dead, Live
    <3>2. gSlots' = IF gSlots[s].connection # d.epoch THEN gSlots
                    ELSE [gSlots EXCEPT ![s] = NoQueue]
      BY <2>2, <3>1 DEF DeathReleases, QueueReleased
    <3>3. \A r \in Slots : gSlots[r].connection = gConnectionEpoch => gSlots'[r] = gSlots[r]
      BY <1>1, <3>1, <3>2 DEF GlobalType
    <3> QED
      BY <1>3, <2>2, <3>3 DEF DeathReleases, admission
  <2>3. ASSUME NEW s \in Slots, FrameFails(s)
        PROVE  FALSE
    BY <1>2, <2>3 DEF FrameFails, Live
  <2> QED
    BY <1>5, <2>1, <2>2, <2>3 DEF RelayAlone
<1>6. ASSUME NEW t \in Threads, HalStep(t)
      PROVE  Elsewhere
  BY <1>2, <1>6, HalStepPasses
<1>7. ASSUME NEW t \in Threads, MethodStep(t), ~RegistrationStep(t), ~SurfaceStep(t)
      PROVE  Elsewhere
  <2>1. MaxCameras(t) \/ ReadyLock(t) \/ ReadyRpc(t)
    BY <1>7 DEF MethodStep, RegistrationStep, SurfaceStep
  <2>2. t \notin Slots
    <3>1. native[t].method \in {"getMaxCameras", "setConfigurationReady"}
      BY <2>1, Zenon DEF MaxCameras, ReadyLock, ReadyRpc
    <3>2. ASSUME t \in Slots
          PROVE  native[t].method \in MethodsAt[job[t].at] /\ job[t].at \in Places
      BY <1>1, <3>2 DEF Surfaces, ServiceTypes
    <3> QED
      BY <3>1, <3>2 DEF MethodsAt, Places
  <2>3. /\ UNCHANGED <<calls, gRegistrations, gConfigurations, gSlots>>
    BY <2>1, Zenon DEF MaxCameras, ReadyLock, ReadyRpc, admission, queues
  <2>4. \A s \in Slots : native'[s] = native[s]
    BY <1>1, <1>7, <2>2, MethodStepGoesOn
  <2> QED
    BY <2>3, <2>4 DEF Elsewhere, Passes
<1> QED
  BY <1>4, <1>5, <1>6, <1>7, RelayCases

-----------------------------------------------------------------------------
\* The parts of FollowInv that are about the connection, or its HAL.
Following == Registrants /\ Origin /\ Gone /\ Lapsed /\ Numbers /\ Behind /\ Releases /\ Follows

\* Without a connection to the HAL that runs there is nothing to follow.
LEMMA LostFollows ==
    ASSUME RelayInv, Surfaces, Numbers, Releases, RelayNext, UNCHANGED serviceVars, ~Live'
    PROVE  Following'
<1>1. mSlots' = mSlots /\ job' = job
  BY UnchangedService
<1>2. Numbers'
  BY <1>1 DEF Numbers
<1>3. Releases'
  <2>1. SUFFICES ASSUME NEW s \in Slots, ReleasesSurface(native'[s]), ~Leaving(s)'
                 PROVE  native'[s].connection # 0
    BY DEF Releases
  <2>2. \/ native'[s] = native[s]
        \/ native'[s].method = "none" /\ native'[s].at = "java"
        \/ GoesOn(s)
    BY ThreadMoves, RelayFacts
  <2>3. ReleasesSurface(native[s]) /\ native'[s].connection = native[s].connection /\ ~Leaving(s)
    BY <1>1, <2>1, <2>2 DEF ReleasesSurface, GoesOn, Leaving
  <2> QED
    BY <2>3 DEF Releases
<1> QED
  BY <1>2, <1>3 DEF Following, Registrants, Origin, Gone, Lapsed, Behind, Follows

\* A new connection has no registrations, and nobody has heard of it.
LEMMA ConnectFollows ==
    ASSUME RelayInv, ServiceInv, Surfaces, Reach, Numbers, Releases, NEW t \in Threads, Connect(t),
           UNCHANGED serviceVars
    PROVE  Following'
<1>1. /\ ConnectionInv /\ QueueInv /\ GlobalType /\ native \in [Threads -> NativeType]
      /\ ServiceTypes /\ Heard /\ gNextConnectionEpoch \in Nat /\ Slots \subseteq Threads
      /\ mSlots' = mSlots /\ job' = job
  BY RelayFacts, UnchangedService DEF ServiceInv, GlobalType
<1>2. /\ gHal = 0 /\ gHal' = life /\ life' = life /\ life # 0 /\ calls' = calls
      /\ gConnectionEpoch' = gNextConnectionEpoch + 1
      /\ \A s \in Slots : gRegistrations'[s] = None /\ gConfigurations'[s].token = 0
      /\ \A u \in Threads \ {t} : native'[u] = native[u]
  <2>1. \A u \in Threads \ {t} : native'[u] = native[u]
    BY <1>1 DEF Connect
  <2> QED
    BY <1>1, <2>1, ConnectFresh, Zenon DEF Connect, hal, NoConfiguration
<1>3. native[t].at = "hal" /\ native'[t].at = "link"
  BY <1>1 DEF Connect, NativeType
<1>4. ASSUME NEW s \in Slots
      PROVE  Prior(s)' = None
  <2>1. CASE s = t
    BY <1>2, <1>3, <2>1 DEF Prior, Registering
  <2>2. CASE s # t /\ Registering(s) /\ native[s].h = life
    BY <1>2, <2>2 DEF Reach
  <2>3. CASE s # t /\ ~(Registering(s) /\ native[s].h = life)
    <3>1. native'[s] = native[s]
      BY <1>1, <1>2, <2>3
    <3> QED
      BY <1>2, <2>3, <3>1 DEF Prior, Registering
  <2> QED
    BY <2>1, <2>2, <2>3
<1>5. \A k \in calls' : k.epoch # gConnectionEpoch'
  BY <1>1, <1>2 DEF QueueInv, CallsOfConnections, GlobalType, Calls
<1>6. Numbers'
  <2>1. \A s \in Slots : mSlots[s].connection # gConnectionEpoch'
    BY <1>1, <1>2, Bounds DEF Heard, ServiceTypes, SlotType
  <2> QED
    BY <1>1, <2>1 DEF Numbers
<1>7. Releases'
  <2>1. SUFFICES ASSUME NEW s \in Slots, ReleasesSurface(native'[s]), ~Leaving(s)'
                 PROVE  /\ native'[s].connection # 0
                        /\ native'[s].connection # gConnectionEpoch'
    BY DEF Releases, Over
  <2>2. ~ReleasesSurface(native[t])
    BY <1>3 DEF Surfaces
  <2>3. native'[s] = native[s]
    <3>1. CASE s = t
      <4>1. native'[t].method = native[t].method
        BY <1>1, <1>3, HalStepGoesOn DEF HalStep, GoesOn
      <4> QED
        BY <2>1, <2>2, <3>1, <4>1 DEF ReleasesSurface
    <3> QED
      BY <1>1, <1>2, <3>1
  <2>4. native[s].connection \in 0 .. gNextConnectionEpoch
    BY <1>1 DEF NativeType
  <2> QED
    BY <1>1, <1>2, <2>1, <2>3, <2>4 DEF Releases, Leaving
<1>8. Registrants' /\ Origin' /\ Gone' /\ Lapsed' /\ Behind' /\ Follows'
  BY <1>2, <1>4, <1>5 DEF Registrants, Origin, Gone, Lapsed, Behind, Follows
<1> QED
  BY <1>6, <1>7, <1>8 DEF Following

\* The relay takes a step, and stays connected to the HAL that runs.
Steady ==
    /\ RelayInv /\ ServiceInv /\ EventInv /\ FollowInv
    /\ RelayNext /\ UNCHANGED serviceVars /\ Live' /\ \A t \in Threads : ~Connect(t)

LEMMA SteadyFacts ==
    ASSUME Steady
    PROVE  /\ Live /\ UNCHANGED <<life, gHal, gConnectionEpoch>>
           /\ UNCHANGED <<mSlots, accepted, mLifecycle, job, assigned, producer>>
           /\ ConnectionInv /\ RegistrationInv /\ OwnThread /\ GlobalType
           /\ native \in [Threads -> NativeType] /\ calls \subseteq Calls /\ Slots \subseteq Threads
           /\ ServiceTypes /\ Registry /\ Jobs
           /\ Leavers /\ Surfaces /\ Reach /\ Callers /\ Registrants /\ Origin /\ Gone /\ Lapsed
           /\ Numbers /\ Behind /\ Releases /\ Follows
<1>1. ConnectionInv
  BY DEF Steady, RelayInv
<1>2. Live /\ UNCHANGED <<life, gHal, gConnectionEpoch>>
  BY <1>1, Reconnected DEF Steady
<1> QED
  BY <1>1, <1>2, RelayFacts, UnchangedService DEF Steady, ServiceInv, FollowInv

LEMMA AnnounceFollows ==
    ASSUME Steady, NEW k, Announces(k), UNCHANGED <<native, gRegistrations, gConfigurations, gSlots>>
    PROVE  Following'
<1> DEFINE s == k.slot
<1>1. /\ calls' = calls \cup {k} /\ k.at = "sent" /\ s \in Slots
      /\ k.registration = halProducer[s] /\ halProducer[s] # None /\ k.epoch = halCallback
  BY DEF Announces, Calls
<1>2. /\ gHal' = gHal /\ life' = life /\ gConnectionEpoch' = gConnectionEpoch
      /\ mSlots' = mSlots /\ accepted' = accepted /\ mLifecycle' = mLifecycle /\ job' = job
      /\ assigned' = assigned /\ producer' = producer /\ Live
  BY SteadyFacts
<1>3. \A r \in Slots : /\ Prior(r)' = Prior(r) /\ Departed(r)' = Departed(r)
                       /\ Stale(r)' = Stale(r) /\ Leaving(r)' = Leaving(r)
  BY <1>2 DEF Prior, Registering, Departed, Stale, Leaving
<1>4. mSlots[s].owner = k.registration
  BY <1>1 DEF Steady, ServiceInv, HalProducerIsOwner
<1>5. ASSUME ~Departed(s)
      PROVE  Prior(s) = k.registration
  <2>1. /\ life # 0 /\ gHal = life /\ HalRegistration
    BY <1>1, SteadyFacts, ProducerOfConnection DEF RegistrationInv
  <2>2. ~Removing(s)
    BY <1>1, <1>5, SteadyFacts DEF Jobs, Removing, Departed
  <2> QED
    BY <1>1, <2>1, <2>2 DEF HalRegistration, Prior
<1>6. Callers'
  BY RelayCallers DEF Steady, FollowInv
<1>7. Registrants' /\ Gone'
  BY <1>2, <1>3, SteadyFacts DEF Registrants, Gone
<1>8. Origin'
  BY <1>1, <1>2, <1>3, <1>5, SteadyFacts DEF Origin, Calls
<1>9. Lapsed'
  <2>1. SUFFICES ASSUME NEW r \in Slots, Prior(r) = None, gConfigurations[r].token # 0
                 PROVE  /\ gConfigurations[r].closed
                        /\ mSlots[r].owner # None /\ ~Departed(r)
                             => Unheard(r, mSlots[r].owner)'
    BY <1>2, <1>3 DEF Lapsed
  <2>2. /\ gConfigurations[r].closed
        /\ mSlots[r].owner # None /\ ~Departed(r) => Unheard(r, mSlots[r].owner)
    BY <1>2, <2>1, SteadyFacts DEF Lapsed
  <2>3. ASSUME mSlots[r].owner # None, ~Departed(r)
        PROVE  k.registration # mSlots[r].owner
    <3>1. SUFFICES ASSUME k.registration = mSlots[r].owner
                   PROVE  FALSE
      OBVIOUS
    <3>2. s = r
      BY <1>1, <1>4, <2>3, <3>1, SteadyFacts DEF Registry
    <3> QED
      BY <1>1, <1>5, <2>1, <2>3, <3>2
  <2> QED
    BY <1>1, <1>2, <2>2, <2>3 DEF Unheard
<1>10. Numbers'
  BY <1>2, SteadyFacts DEF Numbers, Live
<1>11. Behind'
  BY <1>1, <1>2, SteadyFacts DEF Behind, Owns
<1>12. Releases'
  BY <1>2, <1>3, SteadyFacts DEF Releases, Over, Live
<1>13. Follows'
  <2>1. \A r \in Slots : Offered(r) => Offered(r)'
    BY <1>1, <1>2 DEF Offered, Offers
  <2> QED
    BY <1>2, <1>3, <2>1, SteadyFacts
       DEF Follows, Owns, Served, Arrived, Matches, Carries, Made, InTheMaking, Has, InForceAt
<1> QED
  BY <1>7, <1>8, <1>9, <1>10, <1>11, <1>12, <1>13 DEF Following

LEMMA AdmitFollows ==
    ASSUME Steady, NEW k \in calls, Admit(k)
    PROVE  Following'
<1>0. ConnectionInv
  BY SteadyFacts
<1> DEFINE s == k.slot
           conf == gConfigurations[s]
<1>1. /\ UNCHANGED <<native, gRegistrations, gSlots>>
      /\ k \in Calls /\ k.at = "sent" /\ s \in Slots /\ k.token \in Nat /\ conf.token \in Nat
  <2>1. UNCHANGED <<native, gRegistrations, gSlots>> /\ k \in Calls /\ k.at = "sent"
    BY <1>0, AdmitMoves, Zenon
  <2>2. k.slot \in Slots /\ k.token \in 1 .. MaxTokens
    BY <2>1 DEF Calls
  <2>3. gConfigurations \in [Slots -> [token : 0 .. MaxTokens, closed : BOOLEAN]]
    BY SteadyFacts DEF GlobalType
  <2>4. conf.token \in 0 .. MaxTokens
    BY <2>2, <2>3
  <2> QED
    BY <2>1, <2>2, <2>4, Bounds
<1>2. /\ gHal' = gHal /\ life' = life /\ gConnectionEpoch' = gConnectionEpoch
      /\ mSlots' = mSlots /\ accepted' = accepted /\ mLifecycle' = mLifecycle /\ job' = job
      /\ assigned' = assigned /\ producer' = producer /\ Live
  BY SteadyFacts
<1>3. \A r \in Slots : /\ Prior(r)' = Prior(r) /\ Departed(r)' = Departed(r)
                       /\ Stale(r)' = Stale(r) /\ Leaving(r)' = Leaving(r)
  BY <1>1, <1>2 DEF Prior, Registering, Departed, Stale, Leaving
<1>4. Registrants' /\ Gone'
  BY <1>1, <1>2, <1>3, SteadyFacts DEF Registrants, Gone
<1>5. CASE ~Admissible(k)
  <2>1. calls' = calls \ {k} /\ gConfigurations' = gConfigurations
    BY <1>0, <1>5, AdmitMoves, Zenon
  <2>2. Origin' /\ Behind'
    BY <1>2, <1>3, <2>1, SteadyFacts DEF Origin, Behind, Owns, Calls
  <2>3. Lapsed'
    BY <1>2, <1>3, <2>1, SteadyFacts DEF Lapsed, Unheard
  <2>4. Numbers' /\ Releases'
    BY <1>1, <1>2, <1>3, <2>1, SteadyFacts DEF Numbers, Releases, Over, Live
  <2>5. \A r \in Slots : Offered(r) => Offered(r)'
    BY <1>1, <1>2, <2>1 DEF Offered, Offers
  <2>6. Follows'
    BY <1>1, <1>2, <1>3, <2>1, <2>5, SteadyFacts
       DEF Follows, Owns, Served, Arrived, Matches, Carries, Made, InTheMaking, Has, InForceAt
  <2> QED
    BY <1>4, <2>2, <2>3, <2>4, <2>6 DEF Following
<1>6. CASE Admissible(k)
  <2>1. /\ gConnectionEpoch = k.epoch /\ gRegistrations[s] = k.registration
        /\ k.token > conf.token \/ (k.token = conf.token /\ k.closed /\ ~conf.closed)
        /\ k.registration # None /\ k.registration \in Cameras
    BY <1>1, <1>6, Bounds DEF Admissible, Calls
  <2>2. PICK m : AdmittedAs(k, m) /\ calls' = (calls \ {k}) \cup {m}
    BY <1>0, <1>6, AdmitMoves, Zenon
  <2>3. /\ gConfigurations'[s].token = k.token /\ gConfigurations'[s].closed = k.closed
        /\ \A r \in Slots \ {s} : gConfigurations'[r] = gConfigurations[r]
    <3>1. \A r \in Slots : gConfigurations'[r] =
              IF r = s THEN [token |-> k.token, closed |-> k.closed] ELSE gConfigurations[r]
      BY <1>0, <1>6, AdmitMoves
    <3> QED
      BY <1>1, <3>1
  <2>4. mSlots[s].owner = k.registration /\ ~Departed(s)
    BY <1>1, <1>2, <2>1, SteadyFacts DEF Registrants, Gone
  <2>5. Prior(s) = k.registration
    BY <2>1, <2>4, SteadyFacts DEF Origin
  <2>6. Origin'
    BY <1>2, <1>3, <2>2, <2>4, <2>5, SteadyFacts DEF Origin, Calls, AdmittedAs
  <2>7. Lapsed'
    <3>1. SUFFICES ASSUME NEW r \in Slots, Prior(r) = None, gConfigurations'[r].token # 0
                   PROVE  /\ gConfigurations'[r].closed
                          /\ mSlots[r].owner # None /\ ~Departed(r)
                               => Unheard(r, mSlots[r].owner)'
      BY <1>2, <1>3 DEF Lapsed
    <3>2. r # s
      BY <2>1, <2>5, <3>1
    <3>3. /\ gConfigurations[r].closed
          /\ mSlots[r].owner # None /\ ~Departed(r) => Unheard(r, mSlots[r].owner)
      BY <1>2, <2>3, <3>1, <3>2, SteadyFacts DEF Lapsed
    <3> QED
      BY <1>2, <2>2, <2>3, <3>2, <3>3 DEF Unheard, AdmittedAs
  <2>8. \A r \in Slots : mSlots[r].configuration \in Nat
    BY SteadyFacts, Bounds DEF ServiceTypes, SlotType
  <2>9. Numbers'
    <3>1. SUFFICES ASSUME NEW r \in Slots
                   PROVE  /\ mSlots[r].connection # 0 => mSlots[r].configuration > 0
                          /\ mSlots[r].connection = gConnectionEpoch
                              => /\ mSlots[r].configuration <= gConfigurations'[r].token
                                 /\ mSlots[r].configuration = gConfigurations'[r].token
                                       /\ mSlots[r].configurationClosed /\ ~mSlots[r].closing
                                       => gConfigurations'[r].closed
      BY <1>2 DEF Numbers
    <3>2. /\ mSlots[r].connection # 0 => mSlots[r].configuration > 0
          /\ mSlots[r].connection = gConnectionEpoch
                => /\ mSlots[r].configuration <= gConfigurations[r].token
                   /\ mSlots[r].configuration = gConfigurations[r].token
                         /\ mSlots[r].configurationClosed /\ ~mSlots[r].closing
                         => gConfigurations[r].closed
      BY <1>2, SteadyFacts DEF Numbers
    <3>3. CASE r # s
      BY <2>3, <3>2, <3>3
    <3>4. CASE r = s
      BY <1>1, <2>1, <2>3, <2>8, <3>2, <3>4
    <3> QED
      BY <3>3, <3>4
  <2>10. Behind'
    <3>1. SUFFICES ASSUME NEW c \in calls', c.at = "admitted", c.epoch = gConnectionEpoch
                   PROVE  /\ c.token <= gConfigurations'[c.slot].token
                          /\ c.token = gConfigurations'[c.slot].token /\ c.closed
                                => gConfigurations'[c.slot].closed
                          /\ Owns(c.slot, c.registration) /\ mSlots[c.slot].connection = c.epoch
                                /\ mSlots[c.slot].configuration = c.token
                                => c.closed /\ ~mSlots[c.slot].configurationClosed
      BY <1>2 DEF Behind, Owns
    <3>2. CASE c = m
      <4>1. c.slot = s /\ c.token = k.token /\ c.closed = k.closed
        BY <2>2, <3>2 DEF AdmittedAs
      <4>2. ASSUME Owns(s, c.registration), mSlots[s].connection = c.epoch,
                   mSlots[s].configuration = k.token
            PROVE  k.closed /\ ~mSlots[s].configurationClosed
        <5>1. /\ mSlots[s].configuration <= conf.token
              /\ mSlots[s].configuration = conf.token /\ mSlots[s].configurationClosed
                    => conf.closed
          BY <1>1, <1>2, <3>1, <4>2, SteadyFacts DEF Numbers, Owns
        <5> QED
          BY <1>1, <2>1, <4>2, <5>1
      <4> QED
        BY <1>1, <2>3, <4>1, <4>2
    <3>3. CASE c \in calls
      <4>1. /\ c.token <= gConfigurations[c.slot].token
            /\ c.token = gConfigurations[c.slot].token /\ c.closed
                  => gConfigurations[c.slot].closed
            /\ Owns(c.slot, c.registration) /\ mSlots[c.slot].connection = c.epoch
                  /\ mSlots[c.slot].configuration = c.token
                  => c.closed /\ ~mSlots[c.slot].configurationClosed
            /\ c.token \in Nat /\ c.slot \in Slots
        BY <1>2, <3>1, <3>3, SteadyFacts, Bounds DEF Behind, Calls
      <4>2. CASE c.slot = s
        BY <1>1, <2>1, <2>3, <4>1, <4>2
      <4>3. CASE c.slot # s
        BY <2>3, <4>1, <4>3
      <4> QED
        BY <4>2, <4>3
    <3> QED
      BY <2>2, <3>1, <3>2, <3>3
  <2>11. Releases'
    <3>1. SUFFICES ASSUME NEW r \in Slots, ReleasesSurface(native[r]), ~Leaving(r)
                   PROVE  /\ native[r].connection # 0
                          /\ Over(r, native[r].connection, native[r].token)'
      BY <1>1, <1>2, <1>3 DEF Releases
    <3>2. /\ native[r].connection # 0 /\ native[r].token \in Nat
          /\ Over(r, native[r].connection, native[r].token)
      BY <1>2, <3>1, SteadyFacts, Bounds DEF Releases, NativeType
    <3>3. CASE r # s
      BY <1>1, <1>2, <2>3, <3>2, <3>3 DEF Over
    <3>4. CASE r = s
      BY <1>1, <1>2, <2>1, <2>3, <3>2, <3>4 DEF Over
    <3> QED
      BY <3>3, <3>4
  <2>12. Follows'
    <3>1. Offered(s)'
      <4>1. Offers(s, m)'
        BY <1>2, <2>1, <2>2, <2>3, <2>4 DEF Offers, AdmittedAs
      <4> QED
        BY <2>2, <4>1 DEF Offered
    <3>2. \A r \in Slots \ {s} : Offered(r) => Offered(r)'
      BY <1>1, <1>2, <2>2, <2>3 DEF Offered, Offers
    <3>3. ASSUME NEW r \in Slots \ {s}, NEW c \in Cameras, Owns(r, c), Prior(r) = c,
                 gConfigurations[r].token # 0
          PROVE  Served(r, c)'
      <4>1. Served(r, c) /\ gConfigurations'[r] = gConfigurations[r]
        BY <1>2, <2>3, <3>3, SteadyFacts DEF Follows
      <4> QED
        BY <1>1, <1>2, <3>2, <4>1
           DEF Served, Arrived, Matches, Carries, Made, InTheMaking, Has, InForceAt
    <3> QED
      BY <1>2, <1>3, <2>3, <3>1, <3>3 DEF Follows, Owns, Served
  <2> QED
    BY <1>4, <2>6, <2>7, <2>9, <2>10, <2>11, <2>12 DEF Following
<1> QED
  BY <1>5, <1>6

\* What a step about a registration means for the slot: nothing; or the slot's
\* owner is registered where there was none before; or it is removed.
LEMMA RegistrationEffect ==
    ASSUME Steady, NEW t \in Threads, RegistrationStep(t)
    PROVE  /\ t \in Slots /\ job[t].at # "create" /\ ~ReleasesSurface(native'[t])
           /\ gRegistrations'[t] \in {None, mSlots[t].owner}
           /\ Departed(t) => Departed(t)'
           /\ Departed(t)' \/ Stale(t)' => gRegistrations'[t] = None
           /\ \/ Prior(t)' = Prior(t) /\ gConfigurations'[t] = gConfigurations[t]
              \/ /\ Prior(t) = None /\ Prior(t)' = mSlots[t].owner /\ ~Departed(t)
                 /\ gConfigurations'[t] = gConfigurations[t]
              \/ /\ Prior(t)' = None /\ Departed(t)' /\ gConfigurations'[t].closed
                 /\ gConfigurations'[t].token = gConfigurations[t].token
<1>1. /\ t \in Slots
      /\ \/ Registers(t) \/ Refuses(t) \/ IsRegistered(t) \/ Restores(t) \/ RegistersNothing(t)
         \/ Removes(t) \/ RemovesNothing(t) \/ IsRemoved(t)
  <2>1. ConnectionInv /\ OwnThread
    BY SteadyFacts
  <2> QED
    BY <2>1, RegistrationMoves
<1>2. /\ gHal' = gHal /\ life' = life /\ gConnectionEpoch' = gConnectionEpoch
      /\ mSlots' = mSlots /\ job' = job /\ Live
      /\ Jobs /\ Reach /\ Registrants /\ Gone /\ Leavers /\ Admitted
  BY SteadyFacts DEF RegistrationInv
<1>3. ASSUME native[t].method = "registerProducer"
      PROVE  /\ AtRegister(t) /\ job[t].at \in {"register", "call"}
             /\ native[t].camera = mSlots[t].owner /\ ~Departed(t) /\ ~Departed(t)'
  BY <1>1, <1>2, <1>3 DEF Jobs, AtRegister, Departed
<1>4. ASSUME native[t].method = "removeProducer"
      PROVE  job[t].at = "remove" /\ native[t].camera = mSlots[t].owner
  BY <1>1, <1>2, <1>4 DEF Jobs, Leavers, Leaving, Closes
<1>5. gRegistrations[t] \in {None, mSlots[t].owner} /\ Prior(t) \in {None, mSlots[t].owner}
  BY <1>1, <1>2 DEF Registrants
<1>6. ASSUME Registering(t), life = native[t].h
      PROVE  gRegistrations[t] = native[t].camera
  BY <1>1, <1>2, <1>6 DEF Reach, Admitted
<1>7. CASE Registers(t)
  <2>1. /\ Prior(t) = gRegistrations[t] /\ Prior(t)' = gRegistrations[t]
        /\ native[t].method = "registerProducer" /\ native'[t].method = "registerProducer"
    BY <1>2, <1>7 DEF Registers, Prior, Registering
  <2> QED
    BY <1>1, <1>3, <1>7, <2>1 DEF Registers, ReleasesSurface, Stale
<1>8. CASE Refuses(t)
  <2>1. /\ Prior(t)' = Prior(t)
        /\ native[t].method = "registerProducer" /\ native'[t].method = "registerProducer"
    BY <1>2, <1>8 DEF Refuses, Prior, Registering
  <2> QED
    BY <1>1, <1>3, <1>5, <1>8, <2>1 DEF Refuses, ReleasesSurface, Stale
<1>9. CASE IsRegistered(t)
  <2>1. /\ native[t].method = "registerProducer" /\ native'[t].method = "none"
        /\ gRegistrations'[t] = gRegistrations[t] /\ gConfigurations'[t] = gConfigurations[t]
    BY <1>9 DEF IsRegistered, Registering, Leaves
  <2>2. Prior(t)' = mSlots[t].owner
    BY <1>3, <1>6, <1>9, <2>1 DEF IsRegistered, Prior, Registering
  <2> QED
    BY <1>1, <1>3, <1>5, <2>1, <2>2 DEF ReleasesSurface, Stale
<1>10. CASE Restores(t)
  <2>1. /\ native[t].method = "registerProducer" /\ native'[t].method = "none"
        /\ Registering(t) /\ gConfigurations'[t] = gConfigurations[t]
        /\ gRegistrations'[t] = IF gHal = native[t].h /\ gRegistrations[t] = native[t].camera
                                THEN native[t].previous ELSE gRegistrations[t]
    BY <1>10 DEF Restores, Registering, Leaves
  <2>2. gRegistrations'[t] = Prior(t) /\ Prior(t)' = Prior(t)
    BY <1>2, <1>6, <2>1 DEF Prior, Registering, Live
  <2> QED
    BY <1>1, <1>3, <1>5, <2>1, <2>2 DEF ReleasesSurface, Stale
<1>11. CASE RegistersNothing(t)
  <2>1. /\ native[t].method = "registerProducer" /\ native'[t].method = "none"
        /\ Prior(t)' = Prior(t)
        /\ gRegistrations'[t] = gRegistrations[t] /\ gConfigurations'[t] = gConfigurations[t]
    BY <1>2, <1>11 DEF RegistersNothing, Leaves, Prior, Registering
  <2> QED
    BY <1>1, <1>3, <1>5, <2>1 DEF ReleasesSurface, Stale
<1>12. CASE Removes(t)
  <2>1. /\ Prior(t)' = None /\ native'[t].method = "removeProducer" /\ job[t].at = "remove"
        /\ native'[t].at = "rpc" /\ native[t].at = "lock"
    BY <1>4, <1>12 DEF Removes, Prior, Registering
  <2> QED
    BY <1>1, <1>2, <1>12, <2>1 DEF Removes, ReleasesSurface, Departed
<1>13. CASE RemovesNothing(t)
  <2>1. /\ Prior(t)' = Prior(t) /\ native'[t].method = "none" /\ job[t].at = "remove"
        /\ native[t].at = "lock" /\ native[t].method = "removeProducer"
        /\ gRegistrations'[t] = gRegistrations[t] /\ gConfigurations'[t] = gConfigurations[t]
    BY <1>2, <1>4, <1>13 DEF RemovesNothing, Leaves, Prior, Registering
  <2>2. gRegistrations[t] = None
    BY <1>1, <1>2, <1>4, <1>5, <1>13, <2>1 DEF RemovesNothing, Gone, Stale
  <2> QED
    BY <1>1, <2>1, <2>2 DEF ReleasesSurface, Departed
<1>14. CASE IsRemoved(t)
  <2>1. /\ Prior(t)' = Prior(t) /\ native'[t].method = "none" /\ job[t].at = "remove"
        /\ native[t].at = "rpc" /\ native'[t].at = "java"
        /\ gRegistrations'[t] = gRegistrations[t] /\ gConfigurations'[t] = gConfigurations[t]
    BY <1>2, <1>4, <1>14 DEF IsRemoved, Leaves, Removing, Prior, Registering
  <2>2. gRegistrations[t] = None /\ Departed(t) /\ Departed(t)'
    BY <1>1, <1>2, <2>1 DEF Gone, Departed
  <2> QED
    BY <1>1, <2>1, <2>2 DEF ReleasesSurface
<1> QED
  BY <1>1, <1>7, <1>8, <1>9, <1>10, <1>11, <1>12, <1>13, <1>14

LEMMA RegistrationFollows ==
    ASSUME Steady, NEW t \in Threads, RegistrationStep(t)
    PROVE  Following'
<1>1. /\ t \in Slots /\ \A u \in Threads \ {t} : native'[u] = native[u]
      /\ calls' = calls /\ gSlots' = gSlots
      /\ \A r \in Slots \ {t} : /\ gRegistrations'[r] = gRegistrations[r]
                                /\ gConfigurations'[r] = gConfigurations[r]
  <2>1. ConnectionInv /\ OwnThread
    BY SteadyFacts
  <2> QED
    BY <2>1, RegistrationMoves
<1>2. /\ gHal' = gHal /\ life' = life /\ gConnectionEpoch' = gConnectionEpoch
      /\ mSlots' = mSlots /\ accepted' = accepted /\ mLifecycle' = mLifecycle /\ job' = job
      /\ assigned' = assigned /\ producer' = producer /\ Live /\ Slots \subseteq Threads
  BY SteadyFacts
<1>3. \A r \in Slots \ {t} :
          /\ Prior(r)' = Prior(r) /\ Departed(r)' = Departed(r) /\ Stale(r)' = Stale(r)
          /\ native'[r] = native[r]
  BY <1>1, <1>2 DEF Prior, Registering, Departed, Stale
<1>4. /\ job[t].at # "create" /\ ~ReleasesSurface(native'[t])
      /\ gRegistrations'[t] \in {None, mSlots[t].owner}
      /\ Departed(t) => Departed(t)'
      /\ Departed(t)' \/ Stale(t)' => gRegistrations'[t] = None
      /\ \/ Prior(t)' = Prior(t) /\ gConfigurations'[t] = gConfigurations[t]
         \/ /\ Prior(t) = None /\ Prior(t)' = mSlots[t].owner /\ ~Departed(t)
            /\ gConfigurations'[t] = gConfigurations[t]
         \/ /\ Prior(t)' = None /\ Departed(t)' /\ gConfigurations'[t].closed
            /\ gConfigurations'[t].token = gConfigurations[t].token
  BY RegistrationEffect
<1>5. \A r \in Slots : /\ gConfigurations'[r].token = gConfigurations[r].token
                       /\ gConfigurations[r].closed => gConfigurations'[r].closed
  BY <1>1, <1>4
<1>6. Registrants'
  BY <1>1, <1>2, <1>3, <1>4, SteadyFacts DEF Registrants
<1>7. Origin'
  <2>1. SUFFICES ASSUME NEW k \in calls, k.epoch = gConnectionEpoch,
                        mSlots[k.slot].owner = k.registration, ~Departed(k.slot)'
                 PROVE  Prior(k.slot)' = k.registration
    BY <1>1, <1>2 DEF Origin
  <2>2. k.slot \in Slots
    BY SteadyFacts DEF Calls
  <2>3. ~Departed(k.slot)
    BY <1>3, <1>4, <2>1, <2>2
  <2>4. Prior(k.slot) = k.registration
    BY <1>2, <2>1, <2>3, SteadyFacts DEF Origin
  <2> QED
    BY <1>3, <1>4, <2>1, <2>2, <2>4
<1>8. Gone'
  BY <1>1, <1>2, <1>3, <1>4, SteadyFacts DEF Gone
<1>9. Lapsed'
  <2>1. SUFFICES ASSUME NEW r \in Slots, Prior(r)' = None, gConfigurations'[r].token # 0
                 PROVE  /\ gConfigurations'[r].closed
                        /\ mSlots[r].owner # None /\ ~Departed(r)'
                             => Unheard(r, mSlots[r].owner)'
    BY <1>2 DEF Lapsed
  <2>2. ASSUME Prior(r) = None, mSlots[r].owner # None, ~Departed(r)'
        PROVE  Unheard(r, mSlots[r].owner)'
    <3>1. ~Departed(r) /\ gConfigurations[r].token # 0
      BY <1>3, <1>4, <1>5, <2>1, <2>2
    <3>2. Unheard(r, mSlots[r].owner)
      BY <1>2, <2>2, <3>1, SteadyFacts DEF Lapsed
    <3> QED
      BY <1>1, <1>2, <3>2 DEF Unheard
  <2>3. Prior(r) = None => gConfigurations[r].closed
    BY <1>2, <1>5, <2>1, SteadyFacts DEF Lapsed
  <2> QED
    BY <1>3, <1>4, <1>5, <2>1, <2>2, <2>3
<1>10. Numbers'
  BY <1>2, <1>5, SteadyFacts DEF Numbers
<1>11. Behind'
  <2>1. \A k \in calls : k.slot \in Slots
    BY SteadyFacts DEF Calls
  <2> QED
    BY <1>1, <1>2, <1>5, <2>1, SteadyFacts DEF Behind, Owns
<1>12. Releases'
  BY <1>2, <1>3, <1>4, <1>5, SteadyFacts DEF Releases, Over, Leaving
<1>13. Follows'
  <2>1. SUFFICES ASSUME NEW r \in Slots, NEW c \in Cameras, Owns(r, c), Prior(r)' = c,
                        gConfigurations'[r].token # 0
                 PROVE  Served(r, c)'
    BY <1>2 DEF Follows, Owns
  <2>2. c # None
    BY Bounds
  <2>3. gConfigurations'[r] = gConfigurations[r]
    BY <1>1, <1>4, <2>1, <2>2
  <2>4. Made(r)' => Made(r)
    BY <1>2, <1>3, <1>4 DEF Made
  <2>5. CASE Prior(r) = c
    <3>1. Served(r, c)
      BY <1>2, <2>1, <2>3, <2>5, SteadyFacts DEF Follows
    <3>2. InTheMaking(r) => r # t
      BY <1>4 DEF InTheMaking
    <3> QED
      BY <1>1, <1>2, <1>3, <2>3, <2>4, <3>1, <3>2
         DEF Served, Offered, Offers, Arrived, Matches, Carries, InTheMaking, Has, InForceAt
  <2>6. CASE Prior(r) # c
    <3>1. r = t /\ Prior(t) = None /\ ~Departed(t) /\ mSlots[t].owner = c
      BY <1>3, <1>4, <2>1, <2>2, <2>6
    <3>2. gConfigurations[t].closed /\ ~producer[c].open
      BY <1>2, <2>1, <2>2, <2>3, <3>1, SteadyFacts DEF Lapsed, Unheard
    <3>3. ~Made(t)'
      BY <1>2, <1>4 DEF Made
    <3> QED
      BY <1>2, <2>3, <3>1, <3>2, <3>3 DEF Served
  <2> QED
    BY <2>5, <2>6
<1> QED
  BY <1>6, <1>7, <1>8, <1>9, <1>10, <1>11, <1>12, <1>13 DEF Following

\* Steps about a surface leave all but the slot's queue alone.
LEMMA SurfaceRest ==
    ASSUME Steady, NEW t \in Threads, SurfaceStep(t)
    PROVE  /\ t \in Slots /\ native[t].slot = t
           /\ \A u \in Threads \ {t} : native'[u] = native[u]
           /\ UNCHANGED <<calls, gRegistrations, gConfigurations>>
           /\ \A r \in Slots \ {t} : gSlots'[r] = gSlots[r]
           /\ ~Registering(t) /\ ~Registering(t)' /\ ~Stale(t)'
           /\ Departed(t)' = Departed(t) /\ ~ReleasesSurface(native'[t])
           /\ ReleasesSurface(native[t]) => job[t].at # "create"
<1>1. ConnectionInv /\ Surfaces /\ native \in [Threads -> NativeType] /\ job' = job /\ GlobalType
  BY SteadyFacts
<1>2. \/ native'[t].method = "none" /\ native'[t].at = "java"
      \/ GoesOn(t) /\ native'[t].at \in {"abandon", "install"}
                   /\ native[t].at \in {"check", "abandon"}
  BY <1>1, SurfaceStepMoves
<1>3. native[t].at \in {"check", "abandon", "install", "release"}
  BY Zenon DEF SurfaceStep, SurfaceCheck, SurfaceAbandon, SurfaceInstall, ReleaseSurface
<1>4. /\ CreatesSurface(native[t]) \/ ReleasesSurface(native[t])
      /\ native[t].slot = t /\ native[t].slot \in Slots
  BY <1>1, <1>3 DEF Surfaces, NativeType
<1>5. /\ \A u \in Threads \ {t} : native'[u] = native[u]
      /\ UNCHANGED <<calls, gRegistrations, gConfigurations>>
  <2>1. UNCHANGED <<calls, gRegistrations, gConfigurations>>
    BY Zenon DEF SurfaceStep, SurfaceCheck, SurfaceAbandon, SurfaceInstall, ReleaseSurface, admission
  <2> QED
    BY <1>1, <2>1, MethodStepGoesOn DEF SurfaceStep, MethodStep
<1>6. \A r \in Slots \ {t} : gSlots'[r] = gSlots[r]
  <2>1. \/ gSlots' = gSlots
        \/ \E q : gSlots' = [gSlots EXCEPT ![t] = q]
    BY <1>4, Zenon
       DEF SurfaceStep, SurfaceCheck, SurfaceAbandon, SurfaceInstall, ReleaseSurface, QueueReleased
  <2>2. gSlots \in [Slots -> [connection : 0 .. gNextConnectionEpoch, token : 0 .. MaxTokens]]
    BY <1>1 DEF GlobalType
  <2> QED
    BY <2>1, <2>2
<1>7. ~Registering(t) /\ ~Registering(t)' /\ ~Stale(t)'
  BY <1>2, <1>4 DEF Registering, Stale, CreatesSurface, ReleasesSurface, GoesOn
<1>8. job[t].at # "remove" /\ (ReleasesSurface(native[t]) => job[t].at # "create")
  <2>1. native[t].method \in MethodsAt[job[t].at]
    BY <1>1, <1>4 DEF Surfaces
  <2> QED
    BY <1>4, <2>1 DEF MethodsAt, CreatesSurface, ReleasesSurface
<1>9. Departed(t)' = Departed(t)
  BY <1>1, <1>8 DEF Departed
<1>10. ~ReleasesSurface(native'[t])
  BY <1>1, <1>2, <1>4 DEF Surfaces, CreatesSurface, ReleasesSurface, GoesOn
<1> QED
  BY <1>4, <1>5, <1>6, <1>7, <1>8, <1>9, <1>10

\* A surface is made for the configuration in force only, and if that is what is
\* asked for nothing keeps it from being made.
LEMMA SurfaceMade ==
    ASSUME Steady, NEW t \in Slots, SurfaceCheck(t) \/ SurfaceAbandon(t) \/ SurfaceInstall(t),
           native[t].slot = t
    PROVE  /\ native'[t].at = "java" /\ native'[t].ok => ~gConfigurations[t].closed
           /\ InForce(t, native[t].connection, native[t].token) /\ native'[t].at = "java"
                => /\ native'[t].ok
                   /\ gSlots'[t] = [connection |-> native[t].connection,
                                    token |-> native[t].token]
<1>1. /\ native \in [Threads -> NativeType] /\ t \in Threads
      /\ gSlots \in [Slots -> [connection : 0 .. gNextConnectionEpoch, token : 0 .. MaxTokens]]
  BY SteadyFacts DEF GlobalType
<1>2. \A ok : Returned(ok).at = "java" /\ Returned(ok).ok = ok
  BY DEF Returned
<1>3. ASSUME NEW at \in {"abandon", "install"}, native' = [native EXCEPT ![t].at = at]
      PROVE  native'[t].at # "java"
  BY <1>1, <1>3 DEF NativeType
<1>4. ASSUME NEW ok, native' = [native EXCEPT ![t] = Returned(ok)]
      PROVE  native'[t].ok = ok
  BY <1>1, <1>2, <1>4
<1>5. CASE InForce(t, native[t].connection, native[t].token)
  <2>1. ~gConfigurations[t].closed
    BY <1>5 DEF InForce
  <2>2. CASE SurfaceCheck(t)
    BY <1>3, <1>5, <2>1, <2>2 DEF SurfaceCheck
  <2>3. CASE SurfaceAbandon(t)
    BY <1>3, <1>5, <2>1, <2>3 DEF SurfaceAbandon, InForce
  <2>4. CASE SurfaceInstall(t)
    <3>1. /\ native' = [native EXCEPT ![t] = Returned(TRUE)]
          /\ gSlots' = [gSlots EXCEPT ![t] = [connection |-> native[t].connection,
                                              token |-> native[t].token]]
      BY <1>5, <2>4, Zenon DEF SurfaceInstall
    <3> QED
      BY <1>1, <1>4, <2>1, <3>1, Zenon
  <2> QED
    BY <2>2, <2>3, <2>4
<1>6. CASE ~InForce(t, native[t].connection, native[t].token)
  <2>1. \/ native' = [native EXCEPT ![t].at = "install"]
        \/ native' = [native EXCEPT ![t] = Returned(FALSE)]
    BY <1>6, Zenon DEF SurfaceCheck, SurfaceAbandon, SurfaceInstall
  <2> QED
    BY <1>3, <1>4, <1>6, <2>1, Zenon
<1> QED
  BY <1>5, <1>6

\* The surface that is being made for the newest configuration is that of the
\* configuration in force.
LEMMA MadeInForce ==
    ASSUME Steady, NEW s \in Slots, InTheMaking(s), ~gConfigurations[s].closed,
           gConfigurations[s].token # 0, CreatesSurface(native[s])
    PROVE  /\ InForce(s, native[s].connection, native[s].token)
           /\ InForceAt(s) = [connection |-> native[s].connection, token |-> native[s].token]
<1>1. /\ native[s].connection = job[s].task.connection /\ native[s].token = job[s].task.token
  BY SteadyFacts DEF Surfaces
<1>2. /\ job[s].task.connection = mSlots[s].connection
      /\ job[s].task.token = mSlots[s].configuration
  BY DEF Steady, EventInv, Events, EventOK, InTheMaking, Carries
<1>3. /\ mSlots[s].connection = gConnectionEpoch
      /\ mSlots[s].configuration = gConfigurations[s].token
  BY DEF InTheMaking, Matches
<1>4. gHal # 0 /\ gConnectionEpoch # 0
  BY SteadyFacts DEF Live, ConnectionInv, EpochOfHal
<1>5. /\ gConfigurations[s].token \in 0 .. MaxTokens
      /\ gConfigurations[s] = [token |-> gConfigurations[s].token, closed |-> FALSE]
  <2>1. gConfigurations[s] \in [token : 0 .. MaxTokens, closed : BOOLEAN]
    BY SteadyFacts DEF GlobalType
  <2> QED
    BY <2>1, Zenon
<1> QED
  BY <1>1, <1>2, <1>3, <1>4, <1>5, Bounds DEF InForce, InForceAt

LEMMA SurfaceFollows ==
    ASSUME Steady, NEW t \in Threads, SurfaceStep(t)
    PROVE  Following'
<1>1. /\ t \in Slots /\ native[t].slot = t
      /\ \A u \in Threads \ {t} : native'[u] = native[u]
      /\ UNCHANGED <<calls, gRegistrations, gConfigurations>>
      /\ \A r \in Slots \ {t} : gSlots'[r] = gSlots[r]
      /\ ~Registering(t) /\ ~Registering(t)' /\ ~Stale(t)'
      /\ Departed(t)' = Departed(t) /\ ~ReleasesSurface(native'[t])
      /\ ReleasesSurface(native[t]) => job[t].at # "create"
  BY SurfaceRest
<1>2. /\ gHal' = gHal /\ life' = life /\ gConnectionEpoch' = gConnectionEpoch
      /\ mSlots' = mSlots /\ accepted' = accepted /\ mLifecycle' = mLifecycle /\ job' = job
      /\ assigned' = assigned /\ producer' = producer /\ Live /\ Slots \subseteq Threads
  BY SteadyFacts
<1>3. \A r \in Slots : /\ Prior(r)' = Prior(r) /\ Departed(r)' = Departed(r)
                       /\ Stale(r)' => Stale(r)
  BY <1>1, <1>2 DEF Prior, Registering, Departed, Stale
<1>4. Registrants' /\ Origin' /\ Gone'
  BY <1>1, <1>2, <1>3, SteadyFacts DEF Registrants, Origin, Gone, Calls
<1>5. Lapsed' /\ Numbers'
  BY <1>1, <1>2, <1>3, SteadyFacts DEF Lapsed, Numbers, Unheard
<1>6. Behind' /\ Releases'
  BY <1>1, <1>2, SteadyFacts DEF Behind, Owns, Releases, Over, Leaving
<1>7. Follows'
  <2>1. SUFFICES ASSUME NEW r \in Slots, NEW c \in Cameras, Owns(r, c), Prior(r) = c,
                        gConfigurations[r].token # 0
                 PROVE  Served(r, c)'
    BY <1>1, <1>2, <1>3 DEF Follows, Owns
  <2>2. Served(r, c)
    BY <1>2, <2>1, SteadyFacts DEF Follows
  <2>3. (Offered(r) \/ Arrived(r)) => (Offered(r) \/ Arrived(r))'
    BY <1>1, <1>2 DEF Offered, Offers, Arrived, Matches, Carries
  <2>4. CASE r # t
    BY <1>1, <1>2, <2>2, <2>3, <2>4
       DEF Served, Made, InTheMaking, Matches, Carries, Has, InForceAt
  <2>5. CASE r = t /\ CreatesSurface(native[t])
    <3>1. SurfaceCheck(t) \/ SurfaceAbandon(t) \/ SurfaceInstall(t)
      <4>1. native[t].at # "release"
        BY <1>1, <2>5, SteadyFacts DEF Surfaces, CreatesSurface, ReleasesSurface
      <4> QED
        BY <4>1, Zenon DEF SurfaceStep, ReleaseSurface
    <3>2. job[t].at = "create"
      <4>1. native[t].method \in MethodsAt[job[t].at] /\ job[t].at \in Places
        BY <1>1, SteadyFacts DEF Surfaces, ServiceTypes
      <4> QED
        BY <2>5, <4>1 DEF MethodsAt, Places, CreatesSurface
    <3>3. gConfigurations[r].closed => ~Made(r)'
      BY <1>1, <1>2, <2>5, <3>1, SurfaceMade, Zenon DEF Made
    <3>4. ASSUME ~gConfigurations[r].closed, InTheMaking(r)
          PROVE  InTheMaking(r)'
      <4>1. /\ InForce(t, native[t].connection, native[t].token)
            /\ InForceAt(t) = [connection |-> native[t].connection, token |-> native[t].token]
        BY <1>1, <2>1, <2>5, <3>4, MadeInForce
      <4>2. native'[t].at = "java" => native'[t].ok /\ gSlots'[t] = InForceAt(t)
        BY <1>1, <3>1, <4>1, SurfaceMade
      <4> QED
        BY <1>1, <1>2, <2>5, <3>4, <4>2 DEF InTheMaking, Matches, Carries, InForceAt
    <3>5. ~Has(r, c)
      BY <2>5, <3>2 DEF Has
    <3> QED
      BY <1>1, <1>2, <2>2, <2>3, <3>3, <3>4, <3>5 DEF Served
  <2>6. CASE r = t /\ ~CreatesSurface(native[t])
    <3>1. ReleaseSurface(t) /\ ReleasesSurface(native[t]) /\ job[t].at # "create"
      <4>1. native[t].at \notin {"check", "abandon", "install"}
        BY <1>1, <2>6, SteadyFacts DEF Surfaces
      <4>2. ReleaseSurface(t) /\ native[t].at = "release"
        BY <4>1, Zenon DEF SurfaceStep, SurfaceCheck, SurfaceAbandon, SurfaceInstall, ReleaseSurface
      <4> QED
        BY <1>1, <4>2, SteadyFacts DEF Surfaces
    <3>2. ~Made(r)' /\ ~InTheMaking(r)
      BY <1>2, <2>6, <3>1 DEF Made, InTheMaking
    <3>3. ASSUME ~gConfigurations[r].closed, Has(r, c)
          PROVE  Has(r, c)'
      <4>1. ~Leaving(t)
        BY <1>1, <2>1, <2>6, SteadyFacts DEF Leavers, Closes, Owns
      <4>2. /\ native[t].connection # 0 /\ Over(t, native[t].connection, native[t].token)
        BY <1>1, <1>2, <3>1, <4>1, SteadyFacts DEF Releases
      <4>3. /\ gSlots[t].connection = gConnectionEpoch
            /\ gSlots[t].token = gConfigurations[t].token
        BY <2>6, <3>3 DEF Has, InForceAt
      <4>4. \/ gSlots[t].connection # native[t].connection
            \/ native[t].token # 0 /\ gSlots[t].token # native[t].token
        <5>1. gConfigurations[t].token \in Nat /\ native[t].token \in Nat
          <6>1. native[t].token \in 0 .. MaxTokens
            BY <1>1, SteadyFacts DEF NativeType
          <6>2. gConfigurations[t].token \in 0 .. MaxTokens
            BY <1>1, SteadyFacts DEF GlobalType
          <6> QED
            BY <6>1, <6>2, Bounds
        <5> QED
          BY <2>6, <3>3, <4>2, <4>3, <5>1 DEF Over
      <4>5. gSlots' = gSlots
        BY <1>1, <3>1, <4>2, <4>4 DEF ReleaseSurface, QueueReleased
      <4> QED
        BY <1>1, <1>2, <3>3, <4>5 DEF Has, Matches, InForceAt
    <3> QED
      BY <1>1, <1>2, <2>2, <2>3, <3>2, <3>3 DEF Served
  <2> QED
    BY <2>4, <2>5, <2>6
<1> QED
  BY <1>4, <1>5, <1>6, <1>7 DEF Following

LEMMA ElsewhereFollows ==
    ASSUME Steady, Elsewhere
    PROVE  Following'
<1>1. /\ UNCHANGED <<calls, gRegistrations, gConfigurations>>
      /\ \A s \in Slots : /\ Passes(s)
                          /\ gSlots[s].connection = gConnectionEpoch => gSlots'[s] = gSlots[s]
  BY DEF Elsewhere
<1>2. /\ gHal' = gHal /\ life' = life /\ gConnectionEpoch' = gConnectionEpoch
      /\ mSlots' = mSlots /\ accepted' = accepted /\ mLifecycle' = mLifecycle /\ job' = job
      /\ assigned' = assigned /\ producer' = producer /\ Live
  BY SteadyFacts
<1>3. ASSUME NEW s \in Slots
      PROVE  native[s].method \in MethodsAt[job[s].at] /\ job[s].at \in Places
  BY SteadyFacts DEF Surfaces, ServiceTypes
<1>4. ASSUME NEW s \in Slots
      PROVE  /\ Prior(s)' = Prior(s) /\ Departed(s)' = Departed(s)
             /\ Stale(s)' => Stale(s)
             /\ ReleasesSurface(native'[s]) => native'[s] = native[s]
             /\ job[s].at = "create" => native'[s] = native[s]
  <2>1. CASE native'[s] = native[s]
    BY <1>1, <1>2, <2>1 DEF Prior, Registering, Departed, Stale
  <2>2. CASE native'[s] # native[s]
    <3>1. /\ native[s].at \in {"hal", "link", "setCallback", "ready"}
          /\ native[s].method \in {"isHalUp", "registerProducer", "removeProducer"}
          /\ native'[s].at = "lock" => native'[s].h = gHal
          /\ \/ native'[s].method = native[s].method
                /\ native'[s].at \in {"link", "setCallback", "ready", "lock"}
             \/ native[s].method = "isHalUp" /\ native'[s].method = "none" /\ native'[s].at = "java"
      BY <1>1, <2>2 DEF Passes, GoesOn, Leaves
    <3>2. Prior(s)' = Prior(s)
      BY <1>1, <1>2, <3>1 DEF Prior, Registering
    <3>3. Departed(s)' = Departed(s)
      BY <1>2, <1>3, <3>1 DEF Departed, MethodsAt, Places
    <3>4. Stale(s)' => Stale(s)
      BY <1>2, <3>1 DEF Stale
    <3>5. job[s].at # "create"
      BY <1>3, <3>1 DEF MethodsAt, Places
    <3>6. ~ReleasesSurface(native'[s])
      BY <3>1 DEF ReleasesSurface
    <3> QED
      BY <3>2, <3>3, <3>4, <3>5, <3>6
  <2> QED
    BY <2>1, <2>2
<1>5. Registrants' /\ Origin' /\ Gone'
  <2>1. \A k \in calls : k.slot \in Slots
    BY SteadyFacts DEF Calls
  <2>2. Registrants'
    BY <1>1, <1>2, <1>4, SteadyFacts DEF Registrants
  <2>3. Origin'
    BY <1>1, <1>2, <1>4, <2>1, SteadyFacts DEF Origin
  <2>4. Gone'
    BY <1>1, <1>2, <1>4, SteadyFacts DEF Gone
  <2> QED
    BY <2>2, <2>3, <2>4
<1>6. Lapsed' /\ Numbers'
  <2>1. Lapsed'
    BY <1>1, <1>2, <1>4, SteadyFacts DEF Lapsed, Unheard
  <2>2. Numbers'
    BY <1>1, <1>2, SteadyFacts DEF Numbers
  <2> QED
    BY <2>1, <2>2
<1>7. Behind' /\ Releases'
  <2>1. Behind'
    BY <1>1, <1>2, SteadyFacts DEF Behind, Owns
  <2>2. Releases'
    BY <1>1, <1>2, <1>4, SteadyFacts DEF Releases, Over, Leaving
  <2> QED
    BY <2>1, <2>2
<1>8. Follows'
  <2>1. SUFFICES ASSUME NEW r \in Slots, NEW c \in Cameras, Owns(r, c), Prior(r) = c,
                        gConfigurations[r].token # 0
                 PROVE  Served(r, c)'
    BY <1>1, <1>2, <1>4 DEF Follows, Owns
  <2>2. Served(r, c)
    BY <1>2, <2>1, SteadyFacts DEF Follows
  <2>3. gSlots[r] = InForceAt(r) => gSlots'[r] = gSlots[r]
    BY <1>1 DEF InForceAt
  <2> QED
    BY <1>1, <1>2, <1>4, <2>2, <2>3
       DEF Served, Offered, Offers, Arrived, Made, InTheMaking, Matches, Carries, Has, InForceAt
<1> QED
  BY <1>5, <1>6, <1>7, <1>8 DEF Following

LEMMA RelayLeavers ==
    ASSUME Leavers, EventKinds, UNCHANGED serviceVars
    PROVE  Leavers' /\ EventKinds'
  BY UnchangedService DEF Leavers, EventKinds, Closes, Leaving

LEMMA RelayFollows ==
    ASSUME RelayInv, ServiceInv, EventInv, FollowInv, RelayNext, UNCHANGED serviceVars
    PROVE  FollowInv'
<1>1. Following'
  <2>1. CASE ~Live'
    BY <2>1, LostFollows DEF FollowInv
  <2>2. ASSUME NEW t \in Threads, Connect(t)
        PROVE  Following'
    BY <2>2, ConnectFollows DEF FollowInv
  <2>3. CASE Live' /\ \A t \in Threads : ~Connect(t)
    <3>1. Steady
      BY <2>3 DEF Steady
    <3> QED
      BY <2>3, <3>1, RelaySorts, AnnounceFollows, AdmitFollows, RegistrationFollows,
         SurfaceFollows, ElsewhereFollows
         DEF FollowInv
  <2> QED
    BY <2>1, <2>2, <2>3
<1>2. Leavers' /\ EventKinds'
  BY RelayLeavers DEF FollowInv
<1>3. Surfaces' /\ Reach' /\ Callers' /\ Dead'
  BY RelaySurfaces, RelayReach, RelayCallers, RelayDead DEF FollowInv
<1> QED
  BY <1>1, <1>2, <1>3 DEF FollowInv, Following

-----------------------------------------------------------------------------
(***************************************************************************)
(* The service's steps, as the producer's slot sees them.                  *)
(***************************************************************************)

\* The service takes a step.
Serving == RelayInv /\ ServiceInv /\ EventInv /\ FollowInv /\ Service

LEMMA ServingFacts ==
    ASSUME Serving
    PROVE  /\ RelayInv /\ ServiceInv /\ EventInv /\ Service
           /\ ConnectionInv /\ GlobalType /\ native \in [Threads -> NativeType]
           /\ calls \subseteq Calls /\ Slots \subseteq Threads /\ None \notin Cameras
           /\ None \notin Slots
           /\ ServiceTypes /\ Registry /\ Tasks /\ Jobs /\ Announced /\ Accepting /\ Heard
           /\ Events
           /\ Leavers /\ Surfaces /\ Reach /\ Callers /\ Registrants /\ Origin /\ Gone /\ Lapsed
           /\ Numbers /\ Behind /\ EventKinds /\ Dead /\ Releases /\ Follows
<1>1. None \notin Slots
  BY Bounds DEF Threads
<1> QED
  BY <1>1, RelayFacts DEF Serving, ServiceInv, EventInv, FollowInv

\* The service leaves the relay's globals alone.
LEMMA GlobalsRest ==
    ASSUME Serving
    PROVE  /\ life' = life /\ gHal' = gHal /\ gConnectionEpoch' = gConnectionEpoch
           /\ gNextConnectionEpoch' = gNextConnectionEpoch
           /\ gRegistrations' = gRegistrations /\ gConfigurations' = gConfigurations
           /\ gSlots' = gSlots /\ deaths' \subseteq deaths
<1>1. CASE UNCHANGED relayGlobals
  BY <1>1 DEF relayGlobals, hal, connection, admission, queues
<1>2. CASE JavaDelivers
  BY <1>2 DEF JavaDelivers, Delivered, hal, connection, admission, queues
<1> QED
  BY <1>1, <1>2, AppCalls, ExecutorCalls, RecoveryCalls, CallbackDelivers DEF Service, Serving

\* A thread that is not in Java stays where it is; one that is may enter a method.
Rests(t) ==
    \/ native'[t] = native[t]
    \/ native[t].at = "java" /\ native'[t].at \in {"java", "hal", "check", "release"}

LEMMA ClientRests ==
    ASSUME RelayInv, NEW t \in Clients, ClientCalls(t) \/ Consume(t) \/ UNCHANGED native
    PROVE  /\ \A u \in Threads \ {t} : native'[u] = native[u]
           /\ \/ native'[t] = native[t]
              \/ /\ native'[t].at \in {"java", "hal"}
                 /\ ~CreatesSurface(native'[t]) /\ ~ReleasesSurface(native'[t])
<1>1. native \in [Threads -> NativeType] /\ t \in Threads
  BY RelayFacts, OwnThreads
<1>2. ASSUME NEW method \in {"isHalUp", "getMaxCameras", "setConfigurationReady"}, NEW slot, NEW conn,
             NEW token, NEW flag, Enter(t, method, "hal", slot, None, conn, token, flag)
      PROVE  /\ \A u \in Threads \ {t} : native'[u] = native[u]
             /\ native'[t].at = "hal"
             /\ ~CreatesSurface(native'[t]) /\ ~ReleasesSurface(native'[t])
  <2>1. /\ native'[t].method = method /\ native'[t].at = "hal"
        /\ \A u \in Threads \ {t} : native'[u] = native[u]
    BY <1>1, <1>2, Entered
  <2> QED
    BY <1>2, <2>1 DEF CreatesSurface, ReleasesSurface
<1>4. CASE IsHalUp(t)
  BY <1>2, <1>4, Zenon DEF IsHalUp
<1>5. CASE GetMaxCameras(t)
  BY <1>2, <1>5, Zenon DEF GetMaxCameras
<1>6. ASSUME NEW s, NEW e, NEW k, NEW ready, SetConfigurationReady(t, s, e, k, ready)
      PROVE  /\ \A u \in Threads \ {t} : native'[u] = native[u]
             /\ native'[t].at = "hal"
             /\ ~CreatesSurface(native'[t]) /\ ~ReleasesSurface(native'[t])
  BY <1>2, <1>6 DEF SetConfigurationReady
<1>3. CASE Consume(t)
  BY <1>1, <1>3, Consumed DEF CreatesSurface, ReleasesSurface
<1> QED
  BY <1>3, <1>4, <1>5, <1>6 DEF ClientCalls

LEMMA SlotRests ==
    ASSUME RelayInv, NEW t \in Slots, SlotCalls(t) \/ Consume(t) \/ UNCHANGED native
    PROVE  \A u \in Threads : Rests(u)
<1>1. native \in [Threads -> NativeType] /\ t \in Threads
  BY RelayFacts, OwnThreads
<1>2. ASSUME NEW method, NEW at \in {"hal", "check", "release"}, NEW slot, NEW camera, NEW conn,
             NEW token, Enter(t, method, at, slot, camera, conn, token, FALSE)
      PROVE  \A u \in Threads : Rests(u)
  BY <1>1, <1>2, Entered, Zenon DEF Rests
<1>4. CASE IsHalUp(t)
  BY <1>2, <1>4, Zenon DEF IsHalUp
<1>5. ASSUME NEW c \in Cameras, RegisterProducer(t, t, c) \/ RemoveProducer(t, t, c)
      PROVE  \A u \in Threads : Rests(u)
  BY <1>2, <1>5, Zenon DEF RegisterProducer, RemoveProducer
<1>6. ASSUME NEW e, NEW k, CreateSurface(t, t, e, k)
      PROVE  \A u \in Threads : Rests(u)
  BY <1>2, <1>6, Zenon DEF CreateSurface
<1>7. ASSUME NEW e, NEW k, ReleaseSurfaceOf(t, t, e, k)
      PROVE  \A u \in Threads : Rests(u)
  BY <1>2, <1>7, Zenon DEF ReleaseSurfaceOf
<1>3. CASE Consume(t)
  BY <1>1, <1>3, Consumed DEF Rests
<1> QED
  BY <1>3, <1>4, <1>5, <1>6, <1>7 DEF Rests, SlotCalls

LEMMA SlotsStay ==
    ASSUME Serving, NEW s \in Slots
    PROVE  Rests(s)
<1>1. CASE SlotsRest
  BY <1>1 DEF SlotsRest, Rests
<1>2. ASSUME NEW r \in Slots, Executor(r)
      PROVE  Rests(s)
  BY <1>2, ExecutorCalls, SlotRests, ServingFacts
<1> QED
  BY <1>1, <1>2, AppCalls, ClientsRest, RecoveryCalls, CallbackDelivers, DeliveriesRest, OwnThreads
     DEF Service, Serving

LEMMA PriorStays ==
    ASSUME Serving, NEW s \in Slots
    PROVE  /\ Prior(s)' = Prior(s) /\ Live' = Live
           /\ Registering(s)' => native'[s] = native[s]
<1>1. /\ Registering(s)' => native'[s] = native[s]
      /\ Registering(s) => native'[s] = native[s]
  BY SlotsStay DEF Rests, Registering
<1>2. Registering(s)' = Registering(s)
  BY <1>1 DEF Registering
<1> QED
  BY <1>1, <1>2, GlobalsRest DEF Prior, Live

-----------------------------------------------------------------------------
\* An executor begins with the task at the head of its queue, or goes on with
\* the one it has.
EntersAs(s, method, at, conn, token) ==
    /\ native'[s].method = method /\ native'[s].at = at /\ native'[s].slot = s
    /\ native'[s].connection = conn /\ native'[s].token = token

Begins(s, kind, place, method, at, conn, token) ==
    /\ mLifecycle[s] # <<>> /\ Head(mLifecycle[s]).kind = kind
    /\ mLifecycle' = [mLifecycle EXCEPT ![s] = Tail(@)]
    /\ job[s].at = "idle" /\ job'[s].at = place /\ job'[s].task = Head(mLifecycle[s])
    /\ EntersAs(s, method, at, conn, token)

Proceeds(s, from, place, method, at) ==
    /\ mLifecycle' = mLifecycle
    /\ job[s].at = from /\ job'[s].at = place /\ (place # "idle" => job'[s].task = job[s].task)
    /\ native[s].at = "java" /\ native'[s].method = method /\ native'[s].at = at
    /\ method = "releaseSurface" => native'[s].slot = s

Drops(s) ==
    LET task == Head(mLifecycle[s])
    IN /\ mLifecycle[s] # <<>> /\ mLifecycle' = [mLifecycle EXCEPT ![s] = Tail(@)]
       /\ native' = native /\ job' = job
       /\ job[s].at = "idle" /\ task.kind \in {"register", "recover", "configured", "closed"}
       /\ task.kind = "configured" => ~IsCurrentEvent(s, task.camera, task.event)
       /\ task.kind = "closed" /\ IsCurrentEvent(s, task.camera, task.event)
             => ~(gHal # 0 /\ gConnectionEpoch = task.connection)

\* Every step of an executor, and what it makes of its slot.
Turns(s) ==
    LET task == Head(mLifecycle[s])
    IN \/ Drops(s)
       \/ StartRegister(s) /\ Begins(s, "register", "register", "registerProducer", "hal", 0, 0)
       \/ RegisterReturned(s) /\ Proceeds(s, "register", "idle", "none", "java")
       \/ RegisterReturned(s) /\ Proceeds(s, "register", "isHalUp", "isHalUp", "hal")
       \/ RegisterFailed(s) /\ Proceeds(s, "isHalUp", "idle", "none", "java")
       \/ RegisterFailed(s) /\ Proceeds(s, "isHalUp", "reject", "none", "java")
       \/ StartRecover(s) /\ Begins(s, "recover", "call", "registerProducer", "hal", 0, 0)
       \/ /\ StartHalDied(s)
          /\ Begins(s, "halDied", "call", "releaseSurface", "release", task.connection, 0)
       \/ CallReturned(s) /\ Proceeds(s, "call", "idle", "none", "java")
       \/ StartRemove(s) /\ Begins(s, "remove", "remove", "removeProducer", "hal", 0, 0)
       \/ RemoveReturned(s) /\ Proceeds(s, "remove", "release", "releaseSurface", "release")
       \/ FinishRemove(s) /\ Proceeds(s, "release", "idle", "none", "java")
       \/ /\ StartConfigured(s) /\ IsCurrentEvent(s, task.camera, task.event)
          /\ Begins(s, "configured", "create", "createSurface", "check", task.connection, task.token)
       \/ SurfaceCreated(s) /\ Proceeds(s, "create", "idle", "none", "java")
       \/ /\ StartClosed(s) /\ IsCurrentEvent(s, task.camera, task.event)
          /\ gHal # 0 /\ gConnectionEpoch = task.connection
          /\ Begins(s, "closed", "call", "releaseSurface", "release", task.connection, task.token)

LEMMA EnteredAs ==
    ASSUME native \in [Threads -> NativeType], NEW t \in Threads, NEW method, NEW at, NEW slot,
           NEW camera, NEW conn, NEW token, NEW flag,
           Enter(t, method, at, slot, camera, conn, token, flag)
    PROVE  /\ native[t].at = "java"
           /\ native'[t].method = method /\ native'[t].at = at /\ native'[t].slot = slot
           /\ native'[t].connection = conn /\ native'[t].token = token
<1> DEFINE n == [Returned(FALSE) EXCEPT !.at = at, !.method = method, !.slot = slot,
                                        !.camera = camera, !.connection = conn, !.token = token,
                                        !.flag = flag]
<1>1. /\ n.method = method /\ n.at = at /\ n.slot = slot /\ n.connection = conn /\ n.token = token
  BY DEF Returned
<1>2. native'[t] = n /\ native[t].at = "java"
  BY DEF Enter
<1> HIDE DEF n
<1> QED
  BY <1>1, <1>2

\* The methods that a slot's executor calls with the slot's own thread.
LEMMA SlotEnters ==
    ASSUME native \in [Threads -> NativeType], NEW s \in Threads
    PROVE  /\ \A c : RegisterProducer(s, s, c) => EntersAs(s, "registerProducer", "hal", 0, 0)
           /\ \A c : RemoveProducer(s, s, c) => EntersAs(s, "removeProducer", "hal", 0, 0)
           /\ \A conn, token : CreateSurface(s, s, conn, token)
                  => EntersAs(s, "createSurface", "check", conn, token)
           /\ \A conn, token : ReleaseSurfaceOf(s, s, conn, token)
                  => EntersAs(s, "releaseSurface", "release", conn, token)
<1>5. ASSUME NEW method, NEW at, NEW camera, NEW conn, NEW token,
             Enter(s, method, at, s, camera, conn, token, FALSE)
      PROVE  EntersAs(s, method, at, conn, token)
  BY <1>5, EnteredAs, Zenon DEF EntersAs
<1>1. ASSUME NEW c, RegisterProducer(s, s, c)
      PROVE  EntersAs(s, "registerProducer", "hal", 0, 0)
  BY <1>1, <1>5, Zenon DEF RegisterProducer
<1>2. ASSUME NEW c, RemoveProducer(s, s, c)
      PROVE  EntersAs(s, "removeProducer", "hal", 0, 0)
  BY <1>2, <1>5, Zenon DEF RemoveProducer
<1>3. ASSUME NEW conn, NEW token, CreateSurface(s, s, conn, token)
      PROVE  EntersAs(s, "createSurface", "check", conn, token)
  BY <1>3, <1>5, Zenon DEF CreateSurface
<1>4. ASSUME NEW conn, NEW token, ReleaseSurfaceOf(s, s, conn, token)
      PROVE  EntersAs(s, "releaseSurface", "release", conn, token)
  BY <1>4, <1>5, Zenon DEF ReleaseSurfaceOf
<1> QED
  BY <1>1, <1>2, <1>3, <1>4

LEMMA TakenAs ==
    ASSUME ServiceTypes, NEW s \in Slots, NEW kind, NEW at \in Places, NextTask(s, kind), Take(s, at),
           NEW method, NEW to, NEW conn, NEW token, EntersAs(s, method, to, conn, token)
    PROVE  Begins(s, kind, at, method, to, conn, token)
BY IdleType DEF NextTask, Take, Begins, ServiceTypes

\* The job goes to another place, with the same task, or is done.
LEMMA WaitsAs ==
    ASSUME ServiceTypes, NEW s \in Slots, mLifecycle' = mLifecycle, NEW from, Back(s, from),
           NEW place \in Places, Waits(s, place),
           native'[s].method = "releaseSurface" => native'[s].slot = s
    PROVE  Proceeds(s, from, place, native'[s].method, native'[s].at)
BY DEF Back, Waits, Proceeds, ServiceTypes

LEMMA DoneAs ==
    ASSUME ServiceTypes, native \in [Threads -> NativeType], Slots \subseteq Threads,
           NEW s \in Slots, mLifecycle' = mLifecycle, NEW from, Back(s, from), Done(s), Consume(s)
    PROVE  Proceeds(s, from, "idle", "none", "java")
<1>1. native'[s].method = "none" /\ native'[s].at = "java"
  BY Consumed
<1> QED
  BY <1>1, IdleType DEF Back, Done, Proceeds, ServiceTypes

LEMMA StartTurns ==
    ASSUME Serving, NEW s \in Slots,
           \/ StartRegister(s) \/ StartRecover(s) \/ StartHalDied(s) \/ StartRemove(s)
           \/ StartConfigured(s) \/ StartClosed(s)
    PROVE  Turns(s)
<1>1. /\ ServiceTypes /\ native \in [Threads -> NativeType] /\ s \in Threads
  BY ServingFacts
<1> DEFINE task == Head(mLifecycle[s])
<1>2. ASSUME NEW kind \in {"register", "recover", "configured", "closed"}, NextTask(s, kind), Skip(s),
             job' = job,
             kind = "configured" => ~IsCurrentEvent(s, task.camera, task.event),
             kind = "closed" /\ IsCurrentEvent(s, task.camera, task.event)
                 => ~(gHal # 0 /\ gConnectionEpoch = task.connection)
      PROVE  Drops(s)
  BY <1>2, IdleType DEF NextTask, Skip, Drops
<1>4. CASE StartRegister(s)
  <2>1. NextTask(s, "register")
    BY <1>4 DEF StartRegister
  <2> DEFINE wanted == Owns(s, task.camera)
  <2>2. CASE ~wanted
    <3>1. Skip(s) /\ job' = job
      BY <1>4, <2>2 DEF StartRegister, Skip
    <3>2. Drops(s)
      BY <1>2, <2>1, <2>2, <3>1
    <3> QED
      BY <3>2 DEF Turns
  <2>3. CASE wanted
    <3>1. Take(s, "register") /\ RegisterProducer(s, s, task.camera)
      BY <1>4, <2>3 DEF StartRegister
    <3>2. EntersAs(s, "registerProducer", "hal", 0, 0)
      BY <1>1, <3>1, SlotEnters
    <3>3. Begins(s, "register", "register", "registerProducer", "hal", 0, 0)
      BY <1>1, <2>1, <3>1, <3>2, TakenAs DEF Places
    <3> QED
      BY <1>4, <2>3, <3>3 DEF Turns
  <2> QED
    BY <2>2, <2>3
<1>5. CASE StartRecover(s)
  <2>1. NextTask(s, "recover")
    BY <1>5 DEF StartRecover
  <2> DEFINE wanted == task.round = mRecoveryRound /\ Owns(s, task.camera)
  <2>2. CASE ~wanted
    <3>1. Skip(s) /\ job' = job
      BY <1>5, <2>2 DEF StartRecover, Skip
    <3>2. Drops(s)
      BY <1>2, <2>1, <2>2, <3>1
    <3> QED
      BY <3>2 DEF Turns
  <2>3. CASE wanted
    <3>1. Take(s, "call") /\ RegisterProducer(s, s, task.camera)
      BY <1>5, <2>3 DEF StartRecover
    <3>2. EntersAs(s, "registerProducer", "hal", 0, 0)
      BY <1>1, <3>1, SlotEnters
    <3>3. Begins(s, "recover", "call", "registerProducer", "hal", 0, 0)
      BY <1>1, <2>1, <3>1, <3>2, TakenAs DEF Places
    <3> QED
      BY <1>5, <2>3, <3>3 DEF Turns
  <2> QED
    BY <2>2, <2>3
<1>6. CASE StartHalDied(s)
  <2>1. NextTask(s, "halDied")
    BY <1>6 DEF StartHalDied
  <2>2. Take(s, "call") /\ ReleaseSurfaceOf(s, s, task.connection, 0)
    BY <1>6 DEF StartHalDied
  <2>3. EntersAs(s, "releaseSurface", "release", task.connection, 0)
    BY <1>1, <2>2, SlotEnters
  <2>4. Begins(s, "halDied", "call", "releaseSurface", "release", task.connection, 0)
    BY <1>1, <2>1, <2>2, <2>3, TakenAs DEF Places
  <2> QED
    BY <1>6, <2>4 DEF Turns
<1>7. CASE StartRemove(s)
  <2>1. NextTask(s, "remove")
    BY <1>7 DEF StartRemove
  <2>2. Take(s, "remove") /\ RemoveProducer(s, s, task.camera)
    BY <1>7 DEF StartRemove
  <2>3. EntersAs(s, "removeProducer", "hal", 0, 0)
    BY <1>1, <2>2, SlotEnters
  <2>4. Begins(s, "remove", "remove", "removeProducer", "hal", 0, 0)
    BY <1>1, <2>1, <2>2, <2>3, TakenAs DEF Places
  <2> QED
    BY <1>7, <2>4 DEF Turns
<1>8. CASE StartConfigured(s)
  <2>1. NextTask(s, "configured")
    BY <1>8 DEF StartConfigured
  <2> DEFINE wanted == IsCurrentEvent(s, task.camera, task.event)
  <2>2. CASE ~wanted
    <3>1. Skip(s) /\ job' = job
      BY <1>8, <2>2 DEF StartConfigured, Skip
    <3>2. Drops(s)
      BY <1>2, <2>1, <2>2, <3>1
    <3> QED
      BY <3>2 DEF Turns
  <2>3. CASE wanted
    <3>1. Take(s, "create") /\ CreateSurface(s, s, task.connection, task.token)
      BY <1>8, <2>3 DEF StartConfigured
    <3>2. EntersAs(s, "createSurface", "check", task.connection, task.token)
      BY <1>1, <3>1, SlotEnters
    <3>3. Begins(s, "configured", "create", "createSurface", "check", task.connection, task.token)
      BY <1>1, <2>1, <3>1, <3>2, TakenAs DEF Places
    <3> QED
      BY <1>8, <2>3, <3>3 DEF Turns
  <2> QED
    BY <2>2, <2>3
<1>9. CASE StartClosed(s)
  <2>1. NextTask(s, "closed")
    BY <1>9 DEF StartClosed
  <2> DEFINE wanted == /\ IsCurrentEvent(s, task.camera, task.event)
                       /\ gHal # 0 /\ gConnectionEpoch = task.connection
  <2>2. CASE ~wanted
    <3>1. Skip(s) /\ job' = job
      BY <1>9, <2>2 DEF StartClosed, Skip
    <3>2. Drops(s)
      BY <1>2, <2>1, <2>2, <3>1
    <3> QED
      BY <3>2 DEF Turns
  <2>3. CASE wanted
    <3>1. Take(s, "call") /\ ReleaseSurfaceOf(s, s, task.connection, task.token)
      BY <1>9, <2>3 DEF StartClosed
    <3>2. EntersAs(s, "releaseSurface", "release", task.connection, task.token)
      BY <1>1, <3>1, SlotEnters
    <3>3. Begins(s, "closed", "call", "releaseSurface", "release", task.connection, task.token)
      BY <1>1, <2>1, <3>1, <3>2, TakenAs DEF Places
    <3> QED
      BY <1>9, <2>3, <3>3 DEF Turns
  <2> QED
    BY <2>2, <2>3
<1> QED
  BY <1>4, <1>5, <1>6, <1>7, <1>8, <1>9

LEMMA ReturnTurns ==
    ASSUME Serving, NEW s \in Slots,
           \/ RegisterReturned(s) \/ RegisterFailed(s) \/ CallReturned(s) \/ RemoveReturned(s)
           \/ FinishRemove(s) \/ SurfaceCreated(s)
    PROVE  Turns(s)
<1>1. /\ ServiceTypes /\ native \in [Threads -> NativeType] /\ s \in Threads
      /\ Slots \subseteq Threads
  BY ServingFacts
<1>2. mLifecycle' = mLifecycle
  BY DEF RegisterReturned, RegisterFailed, CallReturned, RemoveReturned, FinishRemove,
         SurfaceCreated, queued
<1>3. CASE RegisterReturned(s)
  <2>1. CASE Done(s) /\ Consume(s)
    BY <1>1, <1>2, <1>3, <2>1, DoneAs DEF RegisterReturned, Turns
  <2>2. CASE Waits(s, "isHalUp") /\ IsHalUp(s)
    <3>1. native'[s].method = "isHalUp" /\ native'[s].at = "hal"
      BY <1>1, <2>2, EnteredAs, Zenon DEF IsHalUp
    <3> QED
      BY <1>1, <1>2, <1>3, <2>2, <3>1, WaitsAs DEF RegisterReturned, Turns, Places
  <2> QED
    BY <1>3, <2>1, <2>2 DEF RegisterReturned
<1>4. CASE RegisterFailed(s)
  <2>1. Consume(s) /\ (Done(s) \/ Waits(s, "reject"))
    BY <1>4 DEF RegisterFailed
  <2>2. native'[s].method = "none" /\ native'[s].at = "java"
    BY <1>1, <2>1, Consumed
  <2>3. CASE Done(s)
    BY <1>1, <1>2, <1>4, <2>1, <2>3, DoneAs DEF RegisterFailed, Turns
  <2>4. CASE Waits(s, "reject")
    BY <1>1, <1>2, <1>4, <2>2, <2>4, WaitsAs DEF RegisterFailed, Turns, Places
  <2> QED
    BY <2>1, <2>3, <2>4
<1>5. CASE CallReturned(s)
  BY <1>1, <1>2, <1>5, DoneAs DEF CallReturned, Turns
<1>6. CASE RemoveReturned(s)
  <2>1. Waits(s, "release") /\ ReleaseSurfaceOf(s, s, 0, 0)
    BY <1>6 DEF RemoveReturned
  <2>2. /\ native'[s].method = "releaseSurface" /\ native'[s].at = "release"
        /\ native'[s].slot = s
    BY <1>1, <2>1, EnteredAs, Zenon DEF ReleaseSurfaceOf
  <2> QED
    BY <1>1, <1>2, <1>6, <2>1, <2>2, WaitsAs DEF RemoveReturned, Turns, Places
<1>7. CASE FinishRemove(s)
  BY <1>1, <1>2, <1>7, DoneAs DEF FinishRemove, Turns
<1>8. CASE SurfaceCreated(s)
  BY <1>1, <1>2, <1>8, DoneAs DEF SurfaceCreated, Turns
<1> QED
  BY <1>3, <1>4, <1>5, <1>6, <1>7, <1>8

LEMMA ExecutorTurns ==
    ASSUME Serving, NEW s \in Slots, Executor(s)
    PROVE  /\ Turns(s)
           /\ \A r \in Slots \ {s} :
                 /\ native'[r] = native[r] /\ job'[r] = job[r]
                 /\ mLifecycle'[r] = mLifecycle[r]
<1>1. /\ ServiceTypes /\ native \in [Threads -> NativeType] /\ Slots \subseteq Threads
  BY ServingFacts
<1>2. Turns(s)
  BY StartTurns, ReturnTurns DEF Executor
<1>3. \A r \in Slots \ {s} : native'[r] = native[r]
  BY <1>1, ExecutorCalls, SlotMoves, ServingFacts
<1>4. \A r \in Slots \ {s} : mLifecycle'[r] = mLifecycle[r]
  <2>1. mLifecycle' = mLifecycle \/ mLifecycle' = [mLifecycle EXCEPT ![s] = Tail(@)]
    BY <1>2 DEF Turns, Drops, Begins, Proceeds
  <2> QED
    BY <1>1, <2>1 DEF ServiceTypes
<1>5. \A r \in Slots \ {s} : job'[r] = job[r]
  <2>1. \/ \E at \in Places : Take(s, at) \/ Waits(s, at)
        \/ Done(s) \/ job' = job
    BY Zenon DEF Executor, StartRegister, RegisterReturned, RegisterFailed, StartRecover, StartHalDied,
           CallReturned, StartRemove, RemoveReturned, FinishRemove, StartConfigured, SurfaceCreated,
           StartClosed, Skip, Places
  <2> QED
    BY <1>1, <2>1 DEF Take, Waits, Done, ServiceTypes
<1> QED
  BY <1>2, <1>3, <1>4, <1>5

-----------------------------------------------------------------------------
\* What a step of the service makes of a slot.
KeepsNumbers(s) ==
    /\ mSlots'[s].connection = mSlots[s].connection /\ mSlots'[s].event = mSlots[s].event
    /\ mSlots'[s].configuration = mSlots[s].configuration
    /\ mSlots'[s].configurationClosed = mSlots[s].configurationClosed

TakesEvent(s, k) ==
    /\ Accept(k) /\ Accepted(k) /\ k.at = "admitted" /\ k.slot = s
    /\ gHal # 0 /\ gConnectionEpoch = k.epoch
    /\ NewerEvent(s, k.registration, k.epoch, k.token, k.closed)
    /\ mSlots'[s].owner = mSlots[s].owner /\ mSlots'[s].closing = mSlots[s].closing
    /\ mSlots'[s].connection = k.epoch /\ mSlots'[s].configuration = k.token
    /\ mSlots'[s].configurationClosed = k.closed /\ Overtaken(s)

Closing(s) ==
    /\ ~mSlots[s].closing /\ mSlots'[s].closing /\ mSlots'[s].configurationClosed
    /\ mSlots'[s].owner = mSlots[s].owner /\ mSlots'[s].connection = mSlots[s].connection
    /\ mSlots'[s].configuration = mSlots[s].configuration /\ Overtaken(s)

Reserved(s, c) ==
    /\ mSlots[s].owner = None /\ assigned[c] = None
    /\ mSlots'[s].owner = c /\ mSlots'[s].closing = mSlots[s].closing /\ KeepsNumbers(s)

Freed(s) ==
    /\ FinishRemove(s) /\ mSlots[s].owner = job[s].task.camera /\ mSlots[s].closing
    /\ mSlots'[s].owner = None /\ ~mSlots'[s].closing /\ KeepsNumbers(s)

LEMMA CloseBegins ==
    ASSUME ServiceTypes, Registry, NEW c, NEW behalf, BeginRemove(c, behalf), NEW s \in Slots
    PROVE  /\ mSlots'[s] = mSlots[s] \/ Closing(s)
           /\ assigned[c] = s => Closing(s)
<1>1. PICK r \in Slots : r = mSlotByCameraId[c] /\ r = assigned[c]
  BY Registered, ToRemove DEF BeginRemove
<1>2. /\ ~mSlots[r].closing
      /\ mSlots' = [mSlots EXCEPT ![r] = [@ EXCEPT !.closing = TRUE, !.configurationClosed = TRUE,
                                                   !.event = mSlots[r].event + 1]]
  BY <1>1 DEF BeginRemove, Owns, BeginClose
<1>3. /\ \A q \in Slots \ {r} : mSlots'[q] = mSlots[q]
      /\ mSlots'[r].closing /\ mSlots'[r].configurationClosed
      /\ mSlots'[r].owner = mSlots[r].owner /\ mSlots'[r].connection = mSlots[r].connection
      /\ mSlots'[r].configuration = mSlots[r].configuration
      /\ mSlots'[r].event = mSlots[r].event + 1
  <2> DEFINE n == [mSlots[r] EXCEPT !.closing = TRUE, !.configurationClosed = TRUE,
                                    !.event = mSlots[r].event + 1]
  <2>1. /\ n.closing /\ n.configurationClosed /\ n.owner = mSlots[r].owner
        /\ n.connection = mSlots[r].connection /\ n.configuration = mSlots[r].configuration
        /\ n.event = mSlots[r].event + 1
    BY DEF ServiceTypes, SlotType
  <2>2. mSlots' = [mSlots EXCEPT ![r] = n]
    BY <1>2
  <2> HIDE DEF n
  <2> QED
    BY <2>1, <2>2 DEF ServiceTypes
<1> QED
  BY <1>1, <1>2, <1>3 DEF Closing, Overtaken

LEMMA AppSlots ==
    ASSUME Serving, NEW c \in Cameras, App(c), NEW s \in Slots
    PROVE  mSlots'[s] = mSlots[s] \/ Closing(s) \/ Reserved(s, c)
<1>1. ServiceTypes /\ Registry
  BY ServingFacts
<1>2. CASE OwnerRemoves(c)
  BY <1>1, <1>2, CloseBegins DEF OwnerRemoves
<1>3. CASE Reserve(c) /\ mSlots' # mSlots
  <2>1. PICK r \in Slots : mSlots[r].owner = None /\ mSlots' = [mSlots EXCEPT ![r].owner = c]
    BY <1>3 DEF Reserve, FreeSlots
  <2>2. assigned[c] = None
    BY <1>1, <1>3 DEF Reserve, Registry
  <2>3. /\ \A q \in Slots \ {r} : mSlots'[q] = mSlots[q]
        /\ mSlots'[r].owner = c /\ mSlots'[r].closing = mSlots[r].closing /\ KeepsNumbers(r)
    BY <1>1, <2>1 DEF ServiceTypes, SlotType, KeepsNumbers
  <2> QED
    BY <2>1, <2>2, <2>3 DEF Reserved
<1>4. CASE ~OwnerRemoves(c) /\ ~(Reserve(c) /\ mSlots' # mSlots)
  BY <1>4
     DEF App, RegisterCamera, RefuseRegistration, ExecuteRegister, ExecuteRemove, SetProducerReady,
         ReadyReturned
<1> QED
  BY <1>2, <1>3, <1>4

LEMMA ExecutorSlots ==
    ASSUME Serving, NEW r \in Slots, Executor(r), NEW s \in Slots
    PROVE  mSlots'[s] = mSlots[s] \/ Closing(s) \/ Freed(s)
<1>1. ServiceTypes /\ Registry
  BY ServingFacts
<1>2. CASE RegisterFailed(r) /\ mSlots' # mSlots
  BY <1>1, <1>2, CloseBegins DEF RegisterFailed
<1>3. CASE FinishRemove(r) /\ mSlots' # mSlots
  <2>1. /\ mSlots[r].owner = job[r].task.camera /\ mSlots[r].closing
        /\ mSlots' = [mSlots EXCEPT ![r] = [@ EXCEPT !.owner = None, !.closing = FALSE]]
    BY <1>3 DEF FinishRemove
  <2>2. /\ \A q \in Slots \ {r} : mSlots'[q] = mSlots[q]
        /\ mSlots'[r].owner = None /\ ~mSlots'[r].closing /\ KeepsNumbers(r)
    BY <1>1, <2>1 DEF ServiceTypes, SlotType, KeepsNumbers
  <2> QED
    BY <1>3, <2>1, <2>2 DEF Freed
<1>4. CASE ~(RegisterFailed(r) /\ mSlots' # mSlots) /\ ~(FinishRemove(r) /\ mSlots' # mSlots)
  BY <1>4
     DEF Executor, StartRegister, RegisterReturned, StartRecover, StartHalDied, CallReturned,
         StartRemove, RemoveReturned, StartConfigured, SurfaceCreated, StartClosed
<1> QED
  BY <1>2, <1>3, <1>4

LEMMA AcceptSlots ==
    ASSUME Serving, NEW k \in calls, Accept(k), NEW s \in Slots
    PROVE  mSlots'[s] = mSlots[s] \/ TakesEvent(s, k)
<1>1. ServiceTypes /\ k \in Calls
  BY ServingFacts
<1>2. CASE mSlots' = mSlots
  BY <1>2
<1>3. CASE mSlots' # mSlots
  <2>1. /\ k.at = "admitted" /\ gHal # 0 /\ gConnectionEpoch = k.epoch
        /\ NewerEvent(k.slot, k.registration, k.epoch, k.token, k.closed)
        /\ Accepted(k)
        /\ mSlots' = [mSlots EXCEPT ![k.slot] =
                      [@ EXCEPT !.connection = k.epoch, !.configuration = k.token,
                                !.configurationClosed = k.closed,
                                !.event = mSlots[k.slot].event + 1]]
    BY <1>3 DEF Accept
  <2>2. /\ \A r \in Slots \ {k.slot} : mSlots'[r] = mSlots[r]
        /\ mSlots'[k.slot].owner = mSlots[k.slot].owner
        /\ mSlots'[k.slot].closing = mSlots[k.slot].closing
        /\ mSlots'[k.slot].connection = k.epoch
        /\ mSlots'[k.slot].configuration = k.token
        /\ mSlots'[k.slot].event = mSlots[k.slot].event + 1
    BY <1>1, <2>1, SlotAccepting, Zenon DEF ServiceTypes
  <2>3. mSlots'[k.slot].configurationClosed = k.closed
    <3> DEFINE n == [mSlots[k.slot] EXCEPT !.connection = k.epoch, !.configuration = k.token,
                                           !.configurationClosed = k.closed,
                                           !.event = mSlots[k.slot].event + 1]
    <3>1. n.configurationClosed = k.closed
      BY <1>1 DEF ServiceTypes, SlotType, Calls
    <3>2. mSlots' = [mSlots EXCEPT ![k.slot] = n]
      BY <2>1
    <3> HIDE DEF n
    <3> QED
      BY <1>1, <3>1, <3>2 DEF ServiceTypes, Calls
  <2> QED
    BY <2>1, <2>2, <2>3 DEF TakesEvent, Overtaken
<1> QED
  BY <1>2, <1>3

LEMMA SlotTurns ==
    ASSUME Serving, NEW s \in Slots
    PROVE  \/ mSlots'[s] = mSlots[s]
           \/ \E k \in calls : TakesEvent(s, k)
           \/ Closing(s)
           \/ \E c \in Cameras : Reserved(s, c)
           \/ Freed(s)
<1>1. CASE mSlots' = mSlots
  BY <1>1
<1>2. CASE \/ \E a \in accepted : ExecuteEvent(a)
           \/ \E d \in deaths : OnHalDied(d)
           \/ \E r \in scheduled : RecoverHal(r)
           \/ RecoverProceeds
           \/ \E r \in Slots : RecoverSlot(r)
  BY <1>1, <1>2, Zenon DEF ExecuteEvent, OnHalDied, RecoverHal, RecoverProceeds, RecoverSlot
<1> QED
  BY <1>2, AppSlots, ExecutorSlots, AcceptSlots DEF Serving, Service

-----------------------------------------------------------------------------
\* A slot's thread and its job move with its executor; a removal that the
\* executor has asked for takes the job away.
LEMMA JobTurns ==
    ASSUME Serving, NEW s \in Slots
    PROVE  \/ native'[s] = native[s] /\ job'[s] = job[s]
           \/ native'[s] = native[s] /\ job[s].at = "reject" /\ job'[s] = Idle
           \/ Executor(s) /\ Turns(s)
<1>1. ServiceTypes /\ Registry /\ Jobs
  BY ServingFacts
<1>2. ASSUME NEW c \in Cameras, App(c)
      PROVE  /\ native'[s] = native[s]
             /\ job'[s] = job[s] \/ (job[s].at = "reject" /\ job'[s] = Idle)
  <2>1. native'[s] = native[s]
    BY <1>2, AppCalls, ClientsRest, OwnThreads, ServingFacts DEF SlotsRest
  <2>2. CASE job' = job
    BY <2>1, <2>2
  <2>3. CASE ExecuteRemove(c) /\ job' # job
    <3>1. removing[c] = "rejected" /\ job' = [job EXCEPT ![assigned[c]] = Idle]
      BY <2>3 DEF ExecuteRemove
    <3>2. assigned[c] # None /\ job[assigned[c]].at = "reject"
      BY <1>1, <3>1 DEF Registry, Jobs
    <3> QED
      BY <1>1, <2>1, <3>1, <3>2 DEF ServiceTypes
  <2> QED
    BY <1>2, <2>2, <2>3
       DEF App, RegisterCamera, Reserve, RefuseRegistration, ExecuteRegister, OwnerRemoves,
           SetProducerReady,
           ReadyReturned, lifecycle
<1>3. CASE \/ \E r \in scheduled : RecoverHal(r)
           \/ RecoverProceeds
           \/ \E r \in Slots : RecoverSlot(r)
  <2>1. native'[s] = native[s]
    BY <1>3, RecoveryCalls, ClientsRest, OwnThreads, ServingFacts DEF SlotsRest
  <2> QED
    BY <1>3, <2>1, Zenon DEF RecoverHal, RecoverProceeds, RecoverSlot, lifecycle
<1>4. CASE \/ \E k \in calls : Accept(k)
           \/ \E a \in accepted : ExecuteEvent(a)
           \/ \E d \in deaths : OnHalDied(d)
  BY <1>4, Zenon DEF Accept, ExecuteEvent, OnHalDied
<1>5. ASSUME NEW r \in Slots, Executor(r)
      PROVE  \/ native'[s] = native[s] /\ job'[s] = job[s]
             \/ Executor(s) /\ Turns(s)
  BY <1>5, ExecutorTurns
<1> QED
  BY <1>2, <1>3, <1>4, <1>5 DEF Serving, Service

-----------------------------------------------------------------------------
\* What a step of the service tells a producer.
Opens(s, c) == TellsNewest(s, c) /\ native[s].ok /\ native[s].at = "java"
Ends(s, c) ==
    LET task == Head(mLifecycle[s])
    IN /\ StartClosed(s) /\ NextTask(s, "closed") /\ task.camera = c
       /\ IsCurrentEvent(s, c, task.event)
Finishes(s, c) == FinishRemove(s) /\ job[s].at = "release" /\ job[s].task.camera = c

LEMMA ProducerTurns ==
    ASSUME Serving, NEW c \in Cameras, producer'[c] # producer[c]
    PROVE  \E s \in Slots : assigned[c] = s /\ (Opens(s, c) \/ Ends(s, c) \/ Finishes(s, c))
<1>1. ServiceTypes /\ Registry /\ Tasks
  BY ServingFacts
<1>2. producer' # producer
  OBVIOUS
<1>3. PICK s \in Slots : Executor(s)
  BY <1>2, ExecutorTells DEF Serving
<1>4. ASSUME NEW d, producer' = [producer EXCEPT ![d].open = FALSE]
      PROVE  c = d
  BY <1>1, <1>4, ProducerStops DEF ServiceTypes
<1>5. CASE SurfaceCreated(s)
  <2>1. /\ native[s].ok /\ native[s].at = "java" /\ job[s].at = "create"
        /\ IsCurrentEvent(s, job[s].task.camera, job[s].task.event)
        /\ producer' = [producer EXCEPT ![job[s].task.camera] =
                           [connection |-> job[s].task.connection, token |-> job[s].task.token,
                            open |-> TRUE]]
    BY <1>2, <1>5 DEF SurfaceCreated, Back
  <2>2. c = job[s].task.camera
    BY <1>1, <2>1 DEF ServiceTypes
  <2>3. /\ job[s].task.kind = "configured" /\ assigned[c] = s
    BY <1>1, <2>1, <2>2 DEF Tasks, KindsAt, TaskOK
  <2>4. job'[s].at = "idle"
    BY <1>1, <1>5, IdleType DEF SurfaceCreated, Done, ServiceTypes
  <2>5. producer'[c] = [connection |-> job[s].task.connection, token |-> job[s].task.token,
                        open |-> TRUE]
    BY <1>1, <2>1, <2>2 DEF ServiceTypes
  <2> QED
    BY <1>5, <2>1, <2>2, <2>3, <2>4, <2>5, Zenon DEF Opens, TellsNewest
<1>6. CASE StartClosed(s)
  <2> DEFINE task == Head(mLifecycle[s])
  <2>1. /\ NextTask(s, "closed") /\ IsCurrentEvent(s, task.camera, task.event)
        /\ producer' = [producer EXCEPT ![task.camera].open = FALSE]
    BY <1>2, <1>6 DEF StartClosed
  <2>2. c = task.camera
    BY <1>4, <2>1
  <2>3. TaskOK(s, task) /\ task.kind = "closed"
    BY <1>1, <2>1, HeadTask DEF NextTask
  <2> QED
    BY <1>6, <2>1, <2>2, <2>3 DEF Ends, TaskOK
<1>7. CASE FinishRemove(s)
  <2>1. job[s].at = "release" /\ producer' = [producer EXCEPT ![job[s].task.camera].open = FALSE]
    BY <1>7 DEF FinishRemove, Back
  <2>2. c = job[s].task.camera
    BY <1>4, <2>1
  <2>3. TaskOK(s, job[s].task) /\ job[s].task.kind = "remove"
    BY <1>1, <2>1 DEF Tasks, KindsAt
  <2> QED
    BY <1>7, <2>1, <2>2, <2>3 DEF Finishes, TaskOK
<1> QED
  BY <1>2, <1>3, <1>5, <1>6, <1>7
     DEF Executor, StartRegister, RegisterReturned, RegisterFailed, StartRecover, StartHalDied,
         CallReturned, StartRemove, RemoveReturned, StartConfigured

-----------------------------------------------------------------------------
\* What becomes of callbacks: a call that is there has been announced before, and
\* one that goes has been decided or executed.
LEMMA CallTurns ==
    ASSUME Serving
    PROVE  /\ \A k \in calls' : \E m \in calls :
                 /\ m.slot = k.slot /\ m.registration = k.registration /\ m.token = k.token
                 /\ m.closed = k.closed /\ m.epoch = k.epoch
           /\ \A k \in calls' : k.at = "admitted" => k \in calls
           /\ \A k \in calls : k \notin calls'
                 => Accept(k) \/ \E a \in accepted : ExecuteEvent(a) /\ a.call = k
<1>1. calls \subseteq Calls
  BY ServingFacts
<1>2. CASE calls' = calls
  BY <1>2
<1>3. ASSUME NEW k \in calls, Accept(k)
      PROVE  /\ \A j \in calls' : \E m \in calls :
                 /\ m.slot = j.slot /\ m.registration = j.registration /\ m.token = j.token
                 /\ m.closed = j.closed /\ m.epoch = j.epoch
             /\ \A j \in calls' : j.at = "admitted" => j \in calls
             /\ \A j \in calls : j \notin calls' => j = k
  <2> DEFINE n == [k EXCEPT !.at = "accepted"]
  <2>1. /\ n.slot = k.slot /\ n.registration = k.registration /\ n.token = k.token
        /\ n.closed = k.closed /\ n.epoch = k.epoch /\ n.at = "accepted"
    BY <1>1, MovedCall
  <2>2. calls' = calls \ {k} \/ calls' = (calls \ {k}) \cup {n}
    BY <1>3 DEF Accept, Accepted, Dropped
  <2> HIDE DEF n
  <2> QED
    BY <2>1, <2>2
<1>4. ASSUME NEW a \in accepted, ExecuteEvent(a)
      PROVE  calls' = calls \ {a.call}
  BY <1>4 DEF ExecuteEvent, Dropped
<1> QED
  BY <1>2, <1>3, <1>4, CallsStay, ServingFacts

\* A callback that takes an event is no longer admitted.
LEMMA TakenGoes ==
    ASSUME Serving, NEW s, NEW k \in calls, TakesEvent(s, k)
    PROVE  k \notin calls'
<1>1. k \in Calls /\ k.at = "admitted"
  BY ServingFacts DEF TakesEvent
<1>2. [k EXCEPT !.at = "accepted"].at = "accepted"
  BY <1>1, MovedCall
<1>3. [k EXCEPT !.at = "accepted"] # k
  BY <1>1, <1>2, Zenon
<1> QED
  BY <1>3 DEF TakesEvent, Accepted

-----------------------------------------------------------------------------
\* What a step of the service queues.
Adds(s, task) ==
    \/ task.kind \in {"register", "recover"}
    \/ /\ task.kind = "remove"
       /\ ExecuteRemove(task.camera) /\ task.camera \in Cameras /\ assigned[task.camera] = s
    \/ task.kind = "halDied" /\ \E d \in deaths : task.connection = d.epoch
    \/ \E a \in accepted : QueuedAs(s, a, task)

Grows(s) == \E task \in TaskType : Adds(s, task) /\ mLifecycle'[s] = Append(mLifecycle[s], task)
Shrinks(s) == Executor(s) /\ mLifecycle[s] # <<>> /\ mLifecycle'[s] = Tail(mLifecycle[s])

LEMMA ExecuteGrows ==
    ASSUME ServiceTypes, NEW r, NEW task \in TaskType, Execute(r, task), r \in Slots, Adds(r, task),
           NEW s \in Slots
    PROVE  mLifecycle'[s] = mLifecycle[s] \/ Grows(s)
<1>1. mLifecycle' = [mLifecycle EXCEPT ![r] = Append(mLifecycle[r], task)]
  BY DEF Execute
<1>2. CASE s = r
  BY <1>1, <1>2 DEF Grows, ServiceTypes
<1>3. CASE s # r
  BY <1>1, <1>3 DEF ServiceTypes
<1> QED
  BY <1>2, <1>3

\* The task that an accepted callback queues.
LEMMA EventQueues ==
    ASSUME Serving, NEW a \in accepted, ExecuteEvent(a)
    PROVE  \E task \in TaskType : QueuedAs(a.call.slot, a, task) /\ Execute(a.call.slot, task)
<1> DEFINE kind == IF a.call.closed THEN "closed" ELSE "configured"
           task == [Task(kind, a.call.registration) EXCEPT
                        !.event = a.event, !.connection = a.call.epoch, !.token = a.call.token]
<1>1. Execute(a.call.slot, task)
  BY DEF ExecuteEvent
<1>2. a \in [call : Calls, event : Nat]
  BY ServingFacts DEF ServiceTypes
<1>3. /\ task \in TaskType /\ task.kind = kind /\ task.camera = a.call.registration
      /\ task.event = a.event /\ task.connection = a.call.epoch /\ task.token = a.call.token
  BY <1>2, EventTask, Zenon
<1> HIDE DEF task
<1>4. QueuedAs(a.call.slot, a, task)
  BY <1>3 DEF QueuedAs
<1> QED
  BY <1>1, <1>3, <1>4

LEMMA QueueTurns ==
    ASSUME Serving, NEW s \in Slots
    PROVE  mLifecycle'[s] = mLifecycle[s] \/ Grows(s) \/ Shrinks(s)
<1>1. ServiceTypes /\ Registry /\ GlobalType
  BY ServingFacts
<1>2. CASE mLifecycle' = mLifecycle
  BY <1>2
<1>3. ASSUME NEW c \in Cameras, App(c), mLifecycle' # mLifecycle
      PROVE  mLifecycle'[s] = mLifecycle[s] \/ Grows(s)
  <2>1. PICK kind \in {"register", "remove"} :
            /\ Execute(assigned[c], Task(kind, c))
            /\ kind = "remove" => ExecuteRemove(c)
    BY <1>3
       DEF App, RegisterCamera, Reserve, RefuseRegistration, ExecuteRegister, OwnerRemoves,
           ExecuteRemove,
           SetProducerReady, ReadyReturned, lifecycle, queued
  <2>2. PICK task \in TaskType : task = Task(kind, c) /\ task.kind = kind /\ task.camera = c
    BY CameraTask DEF Kinds, Registration
  <2>3. assigned[c] \in Slots
    <3>1. app[c] = "execute" \/ removing[c] # "no"
      BY <1>3
         DEF App, RegisterCamera, Reserve, RefuseRegistration, ExecuteRegister, OwnerRemoves,
             ExecuteRemove,
             SetProducerReady, ReadyReturned, lifecycle, queued
    <3>2. /\ app[c] \in {"new", "max", "noSlot", "refused"} <=> assigned[c] = None
          /\ removing[c] # "no" => assigned[c] # None
      BY <1>1 DEF Registry
    <3> QED
      BY <1>1, <3>1, <3>2 DEF ServiceTypes
  <2>4. Adds(assigned[c], task)
    BY <2>1, <2>2 DEF Adds
  <2> QED
    BY <1>1, <2>1, <2>2, <2>3, <2>4, ExecuteGrows
<1>4. ASSUME NEW a \in accepted, ExecuteEvent(a)
      PROVE  mLifecycle'[s] = mLifecycle[s] \/ Grows(s)
  <2>1. PICK task \in TaskType : QueuedAs(a.call.slot, a, task) /\ Execute(a.call.slot, task)
    BY <1>4, EventQueues
  <2>2. a.call.slot \in Slots
    BY <1>1 DEF ServiceTypes, Calls
  <2>3. Adds(a.call.slot, task)
    BY <2>1 DEF Adds
  <2> QED
    BY <1>1, <2>1, <2>2, <2>3, ExecuteGrows
<1>5. ASSUME NEW d \in deaths, OnHalDied(d)
      PROVE  Grows(s)
  <2> DEFINE task == [Task("halDied", None) EXCEPT !.connection = d.epoch]
  <2>1. task \in TaskType /\ task.kind = "halDied" /\ task.connection = d.epoch
    <3>1. d.epoch \in 0 .. MaxLives
      BY <1>1, Bounds DEF GlobalType
    <3> QED
      BY <3>1, DiedTask
  <2>2. mLifecycle' = [r \in Slots |-> Append(mLifecycle[r], task)]
    BY <1>5 DEF OnHalDied
  <2> HIDE DEF task
  <2>3. Adds(s, task)
    BY <2>1 DEF Adds
  <2> QED
    BY <2>1, <2>2, <2>3 DEF Grows
<1>6. ASSUME NEW r \in Slots, RecoverSlot(r), mLifecycle' # mLifecycle
      PROVE  mLifecycle'[s] = mLifecycle[s] \/ Grows(s)
  <2> DEFINE c == mSlots[r].owner
             task == [Task("recover", c) EXCEPT !.round = recovery.round]
  <2>1. /\ Current(r) = c /\ c \in Cameras /\ recovery.round \in Nat
    BY <1>1, <1>6 DEF RecoverSlot, Current, ServiceTypes, SlotType, Registration
  <2>2. Execute(r, task)
    BY <1>6, <2>1 DEF RecoverSlot
  <2>3. task \in TaskType /\ task.kind = "recover"
    BY <2>1, RecoverTask
  <2> HIDE DEF task
  <2>4. Adds(r, task)
    BY <2>3 DEF Adds
  <2> QED
    BY <1>1, <2>2, <2>3, <2>4, ExecuteGrows
<1>7. ASSUME NEW r \in Slots, Executor(r)
      PROVE  mLifecycle'[s] = mLifecycle[s] \/ Shrinks(s)
  <2>1. CASE r = s
    <3>1. \/ mLifecycle' = mLifecycle
          \/ mLifecycle[s] # <<>> /\ mLifecycle' = [mLifecycle EXCEPT ![s] = Tail(@)]
      BY <1>7, <2>1, ExecutorTurns DEF Turns, Drops, Begins, Proceeds
    <3> QED
      BY <1>1, <1>7, <2>1, <3>1 DEF Shrinks, ServiceTypes
  <2>2. CASE r # s
    BY <1>7, <2>2, ExecutorTurns
  <2> QED
    BY <2>1, <2>2
<1>8. CASE \/ \E k \in calls : Accept(k)
           \/ \E r \in scheduled : RecoverHal(r)
           \/ RecoverProceeds
  BY <1>2, <1>8, Zenon DEF Accept, RecoverHal, RecoverProceeds, lifecycle, queued
<1> QED
  BY <1>2, <1>3, <1>4, <1>5, <1>6, <1>7, <1>8 DEF Serving, Service

\* Where the tasks of a queue come from, and where they go.
LEMMA TaskTurns ==
    ASSUME Serving, NEW s \in Slots
    PROVE  /\ \A i \in DOMAIN mLifecycle'[s] :
                 \/ i \in DOMAIN mLifecycle[s] /\ mLifecycle'[s][i] = mLifecycle[s][i] /\ ~Shrinks(s)
                 \/ Grows(s) /\ i = Len(mLifecycle[s]) + 1 /\ Adds(s, mLifecycle'[s][i])
                 \/ /\ Shrinks(s) /\ i \in Nat /\ i + 1 \in DOMAIN mLifecycle[s] /\ i + 1 # 1
                    /\ mLifecycle'[s][i] = mLifecycle[s][i + 1]
           /\ \A i \in DOMAIN mLifecycle[s] :
                 \/ \E j \in DOMAIN mLifecycle'[s] : mLifecycle'[s][j] = mLifecycle[s][i]
                 \/ Shrinks(s) /\ i = 1 /\ Head(mLifecycle[s]) = mLifecycle[s][i]
<1>1. mLifecycle[s] \in Seq(TaskType) /\ Len(mLifecycle[s]) + 1 \notin DOMAIN mLifecycle[s]
  BY ServingFacts DEF ServiceTypes
<1>2. CASE mLifecycle'[s] = mLifecycle[s]
  <2>1. ~Shrinks(s)
    <3>1. Len(mLifecycle[s]) \in Nat
      BY <1>1
    <3>2. ASSUME mLifecycle[s] # <<>>, mLifecycle'[s] = Tail(mLifecycle[s])
          PROVE  Len(mLifecycle'[s]) = Len(mLifecycle[s]) - 1
      BY <1>1, <3>2
    <3> QED
      BY <1>2, <3>1, <3>2 DEF Shrinks
  <2> QED
    BY <1>2, <2>1
<1>3. CASE Grows(s)
  <2>1. PICK task \in TaskType : Adds(s, task) /\ mLifecycle'[s] = Append(mLifecycle[s], task)
    BY <1>3 DEF Grows
  <2>2. ~Shrinks(s)
    <3>1. Len(mLifecycle'[s]) = Len(mLifecycle[s]) + 1 /\ Len(mLifecycle[s]) \in Nat
      BY <1>1, <2>1
    <3>2. ASSUME mLifecycle[s] # <<>>, mLifecycle'[s] = Tail(mLifecycle[s])
          PROVE  Len(mLifecycle'[s]) = Len(mLifecycle[s]) - 1
      BY <1>1, <3>2
    <3> QED
      BY <3>1, <3>2 DEF Shrinks
  <2>3. /\ DOMAIN mLifecycle'[s] = DOMAIN mLifecycle[s] \cup {Len(mLifecycle[s]) + 1}
        /\ \A i \in DOMAIN mLifecycle[s] : mLifecycle'[s][i] = mLifecycle[s][i]
        /\ mLifecycle'[s][Len(mLifecycle[s]) + 1] = task
    BY <1>1, <2>1
  <2> QED
    BY <1>3, <2>1, <2>2, <2>3
<1>4. CASE Shrinks(s)
  <2>1. /\ mLifecycle'[s] = Tail(mLifecycle[s]) /\ Head(mLifecycle[s]) = mLifecycle[s][1]
        /\ DOMAIN mLifecycle[s] = 1 .. Len(mLifecycle[s]) /\ Len(mLifecycle[s]) \in Nat
        /\ Len(mLifecycle[s]) # 0
    BY <1>1, <1>4 DEF Shrinks
  <2>2. /\ DOMAIN mLifecycle'[s] = 1 .. Len(mLifecycle[s]) - 1
        /\ \A i \in 1 .. Len(mLifecycle[s]) - 1 : mLifecycle'[s][i] = mLifecycle[s][i + 1]
    BY <1>1, <2>1
  <2>3. ASSUME NEW i \in DOMAIN mLifecycle'[s]
        PROVE  /\ i \in Nat /\ i + 1 # 1 /\ i + 1 \in DOMAIN mLifecycle[s]
               /\ mLifecycle'[s][i] = mLifecycle[s][i + 1]
    BY <2>1, <2>2
  <2>4. ASSUME NEW i \in DOMAIN mLifecycle[s], i # 1
        PROVE  \E j \in DOMAIN mLifecycle'[s] : mLifecycle'[s][j] = mLifecycle[s][i]
    <3>1. i - 1 \in 1 .. Len(mLifecycle[s]) - 1 /\ (i - 1) + 1 = i
      BY <2>1, <2>4
    <3> QED
      BY <2>2, <3>1
  <2> QED
    BY <1>4, <2>1, <2>3, <2>4, Zenon
<1> QED
  BY <1>2, <1>3, <1>4, QueueTurns

-----------------------------------------------------------------------------
(***************************************************************************)
(* What the service's own steps leave of the parts of FollowInv.           *)
(***************************************************************************)

\* A job in another place than before: by a step of the executor, or given up.
LEMMA JobAfter ==
    ASSUME Serving, NEW s \in Slots
    PROVE  /\ job'[s].at = "remove" => \/ job[s].at = "remove" /\ job'[s] = job[s]
                                           /\ native'[s] = native[s]
                                       \/ StartRemove(s) /\ native'[s].at = "hal"
                                          /\ job'[s].task = Head(mLifecycle[s])
           /\ job'[s].at = "release" => \/ job[s].at = "release" /\ job'[s] = job[s]
                                        \/ job[s].at = "remove" /\ job'[s].task = job[s].task
                                           /\ native[s].at = "java"
           /\ job[s].at = "remove" => \/ job'[s] = job[s] /\ native'[s] = native[s]
                                      \/ job'[s].at = "release"
           /\ job[s].at = "release" => job'[s] = job[s] \/ FinishRemove(s)
           /\ job[s].at = "create" => \/ job'[s] = job[s] /\ native'[s] = native[s]
                                      \/ SurfaceCreated(s)
<1>1. CASE native'[s] = native[s] /\ job'[s] = job[s]
  BY <1>1
<1>2. CASE native'[s] = native[s] /\ job[s].at = "reject" /\ job'[s] = Idle
  BY <1>2, IdleType
<1>3. CASE Turns(s)
  BY <1>3 DEF Turns, Drops, Begins, Proceeds, EntersAs
<1> QED
  BY <1>1, <1>2, <1>3, JobTurns

\* A slot's owner departs by the removal's own steps, and the slot is free
\* when the removal is over.
LEMMA DepartedStays ==
    ASSUME Serving, NEW s \in Slots
    PROVE  /\ Departed(s)' => Departed(s)
           /\ Departed(s) => Departed(s)' \/ mSlots'[s].owner = None
           /\ Stale(s)' => Stale(s)
<1>1. Departed(s)' => Departed(s)
  BY JobAfter DEF Departed
<1>2. ASSUME FinishRemove(s), job[s].at = "release"
      PROVE  mSlots'[s].owner = None
  <2>1. Closes(s, job[s].task.camera) /\ mSlots \in [Slots -> SlotType]
    BY <1>2, ServingFacts DEF Leavers, Leaving, ServiceTypes
  <2>2. mSlots' = [mSlots EXCEPT ![s] = [@ EXCEPT !.owner = None, !.closing = FALSE]]
    BY <1>2, <2>1 DEF FinishRemove, Closes
  <2> QED
    BY <2>1, <2>2 DEF SlotType
<1>3. Departed(s) => Departed(s)' \/ mSlots'[s].owner = None
  BY <1>2, JobAfter DEF Departed
<1>4. Stale(s)' => Stale(s)
  BY SlotsStay, GlobalsRest DEF Stale, Rests
<1> QED
  BY <1>1, <1>3, <1>4

LEMMA ServiceReach ==
    ASSUME Serving
    PROVE  Reach'
<1>1. Reach
  BY ServingFacts
<1> QED
  BY <1>1, GlobalsRest, PriorStays DEF Reach, Registering

LEMMA ServiceGone ==
    ASSUME Serving
    PROVE  Gone'
<1>1. Gone
  BY ServingFacts
<1>2. Live' = Live
  BY GlobalsRest DEF Live
<1> QED
  BY <1>1, <1>2, GlobalsRest, DepartedStays DEF Gone

LEMMA ServiceDead ==
    ASSUME Serving
    PROVE  Dead'
<1>1. Dead /\ \A d \in deaths : d.epoch # 0
  BY ServingFacts DEF GlobalType
<1>2. ASSUME NEW s \in Slots, NEW i \in DOMAIN mLifecycle'[s], mLifecycle'[s][i].kind = "halDied"
      PROVE  /\ mLifecycle'[s][i].connection # 0
             /\ gHal # 0 => mLifecycle'[s][i].connection # gConnectionEpoch
  <2>1. \/ \E j \in DOMAIN mLifecycle[s] : mLifecycle'[s][i] = mLifecycle[s][j]
        \/ Adds(s, mLifecycle'[s][i])
    BY TaskTurns
  <2>2. CASE Adds(s, mLifecycle'[s][i])
    <3>1. \E d \in deaths : mLifecycle'[s][i].connection = d.epoch
      BY <1>2, <2>2 DEF Adds, QueuedAs
    <3> QED
      BY <1>1, <3>1 DEF Dead
  <2> QED
    BY <1>1, <1>2, <2>1, <2>2 DEF Dead
<1> QED
  BY <1>1, <1>2, GlobalsRest DEF Dead

LEMMA ServiceSurfaces ==
    ASSUME Serving
    PROVE  Surfaces'
<1>1. Surfaces /\ native \in [Threads -> NativeType] /\ RelayInv /\ ServiceInv /\ ServiceTypes
      /\ Jobs
  BY ServingFacts
<1>2. ASSUME NEW s \in Slots
      PROVE  /\ native'[s].at \in {"check", "abandon", "install"} <=> CreatesSurface(native'[s])
             /\ native'[s].at = "release" <=> ReleasesSurface(native'[s])
             /\ CreatesSurface(native'[s]) \/ ReleasesSurface(native'[s]) => native'[s].slot = s
             /\ native'[s].method \in MethodsAt[job'[s].at]
             /\ CreatesSurface(native'[s]) => /\ native'[s].connection = job'[s].task.connection
                                              /\ native'[s].token = job'[s].task.token
  <2>1. CASE native'[s] = native[s] /\ job'[s] = job[s]
    BY <1>1, <2>1, OwnThreads DEF Surfaces
  <2>2. CASE native'[s] = native[s] /\ job[s].at = "reject" /\ job'[s] = Idle
    <3>1. native[s].method = "none"
      BY <1>1, <2>2 DEF Jobs
    <3> QED
      BY <1>1, <2>2, <3>1, IdleType, OwnThreads DEF Surfaces, MethodsAt, CreatesSurface
  <2>3. CASE Turns(s)
    <3>1. CASE Drops(s)
      BY <1>1, <3>1, OwnThreads DEF Surfaces, Drops
    <3>2. CASE ~Drops(s)
      BY <2>3, <3>2 DEF Turns, Begins, Proceeds, EntersAs, MethodsAt, CreatesSurface,
                        ReleasesSurface
    <3> QED
      BY <3>1, <3>2
  <2> QED
    BY <2>1, <2>2, <2>3, JobTurns
<1>3. ASSUME NEW t \in Threads \ Slots
      PROVE  /\ native'[t].at \in {"check", "abandon", "install"} <=> CreatesSurface(native'[t])
             /\ native'[t].at = "release" <=> ReleasesSurface(native'[t])
             /\ CreatesSurface(native'[t]) \/ ReleasesSurface(native'[t]) => native'[t].slot = t
  <2>1. \/ native'[t] = native[t]
        \/ /\ native'[t].at \in {"java", "hal"}
           /\ ~CreatesSurface(native'[t]) /\ ~ReleasesSurface(native'[t])
    <3>1. ASSUME NEW r \in Slots, Executor(r)
          PROVE  native'[t] = native[t]
      BY <1>1, <3>1, ExecutorCalls, SlotMoves
    <3>2. ASSUME NEW u \in Clients, ClientCalls(u) \/ Consume(u) \/ UNCHANGED native
          PROVE  \/ native'[t] = native[t]
                 \/ /\ native'[t].at \in {"java", "hal"}
                    /\ ~CreatesSurface(native'[t]) /\ ~ReleasesSurface(native'[t])
      BY <1>1, <3>2, ClientRests
    <3>3. JavaDelivers => native' = native
      BY DEF JavaDelivers
    <3> QED
      BY <1>1, <3>1, <3>2, <3>3, AppCalls, RecoveryCalls, CallbackDelivers, OwnThreads
         DEF Service, Serving
  <2> QED
    BY <1>1, <2>1 DEF Surfaces
<1> QED
  BY <1>2, <1>3 DEF Surfaces

-----------------------------------------------------------------------------
\* A slot that closes stays so until the removal is over.
LEMMA ClosesStays ==
    ASSUME Serving, NEW s \in Slots, NEW c \in Cameras, Closes(s, c)
    PROVE  Closes(s, c)' \/ (Leaving(s) /\ ~Leaving(s)')
<1>1. mSlots[s].owner = c /\ mSlots[s].closing /\ c # None
  BY ServingFacts DEF Closes
<1>2. CASE Freed(s)
  <2>1. job[s].at = "release" /\ job'[s] = Idle
    BY <1>2, ServingFacts DEF Freed, FinishRemove, Back, Done, ServiceTypes
  <2> QED
    BY <2>1, IdleType DEF Leaving
<1> QED
  BY <1>1, <1>2, SlotTurns DEF TakesEvent, Closing, Reserved, Closes

\* A slot from which nobody is about to be removed, and for which no removal is
\* queued.
Unremoved(s) ==
    ~Leaving(s) /\ \A i \in DOMAIN mLifecycle[s] : mLifecycle[s][i].kind # "remove"

LEMMA RemoveStarts ==
    ASSUME Serving, NEW s \in Slots, Leaving(s)', ~Leaving(s)
    PROVE  /\ StartRemove(s) /\ job'[s].task = mLifecycle[s][1] /\ 1 \in DOMAIN mLifecycle[s]
           /\ mLifecycle[s][1].kind = "remove" /\ Shrinks(s)
<1>1. StartRemove(s) /\ job'[s].task = Head(mLifecycle[s])
  BY JobAfter DEF Leaving
<1>2. /\ mLifecycle[s] # <<>> /\ Head(mLifecycle[s]).kind = "remove"
      /\ mLifecycle' = [mLifecycle EXCEPT ![s] = Tail(@)]
  BY <1>1 DEF StartRemove, NextTask, Take
<1>3. Shrinks(s)
  BY <1>1, <1>2, ServingFacts DEF Shrinks, Executor, ServiceTypes
<1> QED
  BY <1>1, <1>2, <1>3, HeadTask, ServingFacts

LEMMA LeavingOn ==
    ASSUME Serving, NEW s \in Slots, Leaving(s), Leaving(s)'
    PROVE  job'[s].task = job[s].task
<1>1. job[s].at \in {"remove", "release"} /\ job'[s].at \in {"remove", "release"}
  BY DEF Leaving
<1>2. CASE Turns(s)
  BY <1>1, <1>2 DEF Turns, Drops, Begins, Proceeds
<1> QED
  BY <1>1, <1>2, JobTurns

LEMMA StaysUnremoved ==
    ASSUME Serving, NEW s \in Slots, Unremoved(s),
           \A c \in Cameras : assigned[c] = s => ~ExecuteRemove(c)
    PROVE  Unremoved(s)'
<1>1. ~Leaving(s)'
  BY RemoveStarts DEF Unremoved
<1>2. ASSUME NEW i \in DOMAIN mLifecycle'[s], mLifecycle'[s][i].kind = "remove"
      PROVE  FALSE
  <2>1. Adds(s, mLifecycle'[s][i])
    BY <1>2, TaskTurns DEF Unremoved
  <2> QED
    BY <1>2, <2>1 DEF Adds, QueuedAs
<1> QED
  BY <1>1, <1>2 DEF Unremoved

\* Who is being removed has begun to be, or was already.
LEMMA RemovingTurns ==
    ASSUME Serving, NEW c \in Cameras, removing'[c] \in {"owner", "rejected"}
    PROVE  /\ ~ExecuteRemove(c)
           /\ \/ removing[c] \in {"owner", "rejected"}
              \/ \E behalf : BeginRemove(c, behalf)
<1>1. removing \in [Cameras -> {"no", "owner", "rejected", "queued"}]
  BY ServingFacts DEF ServiceTypes
<1>2. ~ExecuteRemove(c)
  BY <1>1 DEF ExecuteRemove
<1>3. ASSUME NEW d, NEW behalf, BeginRemove(d, behalf), removing'[c] # removing[c]
      PROVE  BeginRemove(c, behalf)
  <2>1. d = c
    BY <1>1, <1>3 DEF BeginRemove
  <2> QED
    BY <1>3, <2>1
<1>4. ASSUME NEW d \in Cameras, ExecuteRemove(d)
      PROVE  removing'[c] = removing[c]
  BY <1>1, <1>4 DEF ExecuteRemove
<1>5. ASSUME NEW d \in Cameras, App(d), removing'[c] # removing[c]
      PROVE  \E behalf : BeginRemove(c, behalf)
  BY <1>3, <1>4, <1>5 DEF App, RegisterCamera, Reserve, RefuseRegistration, ExecuteRegister,
                          OwnerRemoves,
                          SetProducerReady, ReadyReturned
<1>6. ASSUME NEW s \in Slots, Executor(s), removing'[c] # removing[c]
      PROVE  \E behalf : BeginRemove(c, behalf)
  BY <1>3, <1>6, Zenon DEF Executor, StartRegister, RegisterReturned, RegisterFailed, StartRecover,
         StartHalDied, CallReturned, StartRemove, RemoveReturned, FinishRemove, StartConfigured,
         SurfaceCreated, StartClosed
<1>7. ASSUME removing'[c] # removing[c]
      PROVE  \E behalf : BeginRemove(c, behalf)
  BY <1>5, <1>6, <1>7, Zenon DEF Serving, Service, Accept, ExecuteEvent, OnHalDied, RecoverHal,
                          RecoverProceeds, RecoverSlot
<1> QED
  BY <1>2, <1>7

LEMMA RemovingLeavers ==
    ASSUME Serving, NEW c \in Cameras, removing'[c] \in {"owner", "rejected"}
    PROVE  Closes(assigned[c], c)' /\ Unremoved(assigned[c])'
<1>1. /\ ServiceTypes /\ Registry /\ Leavers /\ RelayInv /\ ServiceInv /\ Service
  BY ServingFacts
<1>2. Onward
  BY <1>1, ServiceOnward
<1>3. CASE removing[c] \in {"owner", "rejected"}
  <2>0. /\ assigned[c] \in Slots /\ assigned'[c] = assigned[c]
        /\ Closes(assigned[c], c) /\ Unremoved(assigned[c])
    BY <1>1, <1>2, <1>3 DEF Registry, ServiceTypes, Onward, Leavers, Unremoved
  <2>1. PICK s \in Slots : s = assigned[c] /\ assigned'[c] = s /\ Closes(s, c) /\ Unremoved(s)
    BY <2>0
  <2>2. ASSUME NEW d \in Cameras, assigned[d] = s, ExecuteRemove(d)
        PROVE  FALSE
    <3>1. Closes(s, d)
      BY <1>1, <2>2 DEF ExecuteRemove, Leavers
    <3>2. d = c
      BY <2>1, <3>1 DEF Closes
    <3> QED
      BY <2>2, <3>2, RemovingTurns
  <2>3. Unremoved(s)'
    BY <2>1, <2>2, StaysUnremoved
  <2>4. Closes(s, c)'
    BY <2>1, ClosesStays DEF Unremoved
  <2>5. Closes(assigned[c], c)' <=> Closes(s, c)'
    BY <2>1 DEF Closes
  <2>6. Unremoved(assigned[c])' <=> Unremoved(s)'
    BY <2>1 DEF Unremoved, Leaving
  <2> QED
    BY <2>3, <2>4, <2>5, <2>6
<1>4. ASSUME NEW behalf, BeginRemove(c, behalf)
      PROVE  Closes(assigned[c], c)' /\ Unremoved(assigned[c])'
  <2>1. c \in mCameras
    BY <1>4 DEF BeginRemove
  <2>2. PICK s \in Slots : s = assigned[c] /\ mSlots[s].owner = c
    BY <1>1, <1>4, <2>1, Registered, ToRemove
  <2>3. Closing(s)
    BY <1>1, <1>4, <2>2, CloseBegins
  <2>4. assigned'[c] = s
    BY <1>4, <2>2 DEF BeginRemove
  <2>5. ~mSlots[s].closing /\ Closes(s, c)'
    BY <2>2, <2>3 DEF Closing, Closes
  <2>6. Unremoved(s)
    BY <1>1, <2>2, <2>5 DEF Leavers, Closes, Unremoved
  <2>7. ASSUME NEW d \in Cameras, assigned[d] = s, ExecuteRemove(d)
        PROVE  FALSE
    BY <1>1, <2>5, <2>7 DEF ExecuteRemove, Leavers, Closes
  <2>8. Unremoved(s)'
    BY <2>2, <2>6, <2>7, StaysUnremoved
  <2>9. Closes(assigned[c], c)' <=> Closes(s, c)'
    BY <2>4 DEF Closes
  <2>10. Unremoved(assigned[c])' <=> Unremoved(s)'
    BY <2>4 DEF Unremoved, Leaving
  <2> QED
    BY <2>5, <2>8, <2>9, <2>10
<1> QED
  BY <1>3, <1>4, RemovingTurns

LEMMA QueuedLeavers ==
    ASSUME Serving, NEW s \in Slots
    PROVE  /\ \A i \in DOMAIN mLifecycle'[s] : mLifecycle'[s][i].kind = "remove"
                 => Closes(s, mLifecycle[s][i].camera)' /\ ~Leaving(s)'
           /\ \A i, j \in DOMAIN mLifecycle'[s] :
                 mLifecycle'[s][i].kind = "remove" /\ mLifecycle'[s][j].kind = "remove" => i = j
           /\ Leaving(s)' => Closes(s, job[s].task.camera)'
<1>1. /\ ServiceTypes /\ Registry /\ Leavers /\ Tasks
  BY ServingFacts
<1>2. ASSUME NEW task, Adds(s, task), task.kind = "remove"
      PROVE  /\ task.camera \in Cameras /\ Closes(s, task.camera) /\ Unremoved(s)
  <2>1. ExecuteRemove(task.camera) /\ task.camera \in Cameras /\ assigned[task.camera] = s
    BY <1>2 DEF Adds, QueuedAs
  <2> QED
    BY <1>1, <2>1 DEF ExecuteRemove, Leavers, Unremoved
<1>3. ASSUME NEW i \in DOMAIN mLifecycle[s], mLifecycle[s][i].kind = "remove"
      PROVE  /\ mLifecycle[s][i].camera \in Cameras
             /\ Closes(s, mLifecycle[s][i].camera) /\ ~Leaving(s)
  BY <1>1, <1>3 DEF Leavers, Tasks, TaskOK
<1>4. ASSUME NEW i \in DOMAIN mLifecycle'[s], mLifecycle'[s][i].kind = "remove"
      PROVE  Closes(s, mLifecycle[s][i].camera)' /\ ~Leaving(s)'
  <2>1. /\ mLifecycle'[s][i].camera \in Cameras
        /\ Closes(s, mLifecycle'[s][i].camera) /\ ~Leaving(s)
    BY <1>2, <1>3, <1>4, TaskTurns DEF Unremoved
  <2>2. Closes(s, mLifecycle[s][i].camera)'
    <3>1. PICK c \in Cameras : c = mLifecycle'[s][i].camera /\ Closes(s, c)
      BY <2>1
    <3> QED
      BY <2>1, <3>1, ClosesStays DEF Closes
  <2>3. ~Leaving(s)'
    <3>1. SUFFICES ASSUME Leaving(s)' PROVE FALSE
      OBVIOUS
    <3>2. /\ 1 \in DOMAIN mLifecycle[s] /\ mLifecycle[s][1].kind = "remove" /\ Shrinks(s)
      BY <2>1, <3>1, RemoveStarts
    <3>3. CASE Adds(s, mLifecycle'[s][i])
      BY <1>2, <1>4, <3>2, <3>3 DEF Unremoved
    <3>4. CASE /\ i + 1 \in DOMAIN mLifecycle[s] /\ i + 1 # 1
               /\ mLifecycle'[s][i] = mLifecycle[s][i + 1]
      BY <1>1, <1>4, <3>2, <3>4 DEF Leavers
    <3> QED
      BY <3>2, <3>3, <3>4, TaskTurns
  <2> QED
    BY <2>2, <2>3
<1>5. ASSUME NEW i \in DOMAIN mLifecycle'[s], NEW j \in DOMAIN mLifecycle'[s],
             mLifecycle'[s][i].kind = "remove", mLifecycle'[s][j].kind = "remove"
      PROVE  i = j
  <2>1. CASE Adds(s, mLifecycle'[s][i]) /\ i = Len(mLifecycle[s]) + 1
    BY <1>2, <1>5, <2>1, TaskTurns DEF Unremoved
  <2>2. CASE Adds(s, mLifecycle'[s][j]) /\ j = Len(mLifecycle[s]) + 1
    BY <1>2, <1>5, <2>2, TaskTurns DEF Unremoved
  <2>3. CASE /\ i \in DOMAIN mLifecycle[s] /\ mLifecycle'[s][i] = mLifecycle[s][i]
             /\ j \in DOMAIN mLifecycle[s] /\ mLifecycle'[s][j] = mLifecycle[s][j]
    BY <1>1, <1>5, <2>3 DEF Leavers
  <2>4. CASE /\ i \in Nat /\ i + 1 \in DOMAIN mLifecycle[s]
             /\ mLifecycle'[s][i] = mLifecycle[s][i + 1]
             /\ j \in Nat /\ j + 1 \in DOMAIN mLifecycle[s]
             /\ mLifecycle'[s][j] = mLifecycle[s][j + 1]
    <3>1. i + 1 = j + 1
      BY <1>1, <1>5, <2>4 DEF Leavers
    <3> QED
      BY <2>4, <3>1
  <2> QED
    BY <2>1, <2>2, <2>3, <2>4, TaskTurns
<1>6. ASSUME Leaving(s)'
      PROVE  Closes(s, job[s].task.camera)'
  <2>1. CASE Leaving(s)
    <3>1. job'[s].task = job[s].task
      BY <1>6, <2>1, LeavingOn
    <3>2. PICK c \in Cameras : c = job[s].task.camera /\ Closes(s, c)
      BY <1>1, <2>1, ServingFacts DEF Leavers, Tasks, TaskOK, Leaving, KindsAt
    <3> QED
      BY <1>6, <3>1, <3>2, ClosesStays DEF Closes
  <2>2. CASE ~Leaving(s)
    <3>1. /\ job'[s].task = mLifecycle[s][1] /\ 1 \in DOMAIN mLifecycle[s]
          /\ mLifecycle[s][1].kind = "remove"
      BY <1>6, <2>2, RemoveStarts
    <3>2. PICK c \in Cameras : c = mLifecycle[s][1].camera /\ Closes(s, c)
      BY <1>3, <3>1
    <3> QED
      BY <2>2, <3>1, <3>2, ClosesStays DEF Closes
  <2> QED
    BY <2>1, <2>2
<1> QED
  BY <1>4, <1>5, <1>6

LEMMA ServiceLeavers ==
    ASSUME Serving
    PROVE  Leavers'
  BY RemovingLeavers, QueuedLeavers DEF Leavers, Unremoved

-----------------------------------------------------------------------------
\* A slot that takes part in no registration has its own registration before it.
LEMMA PriorSettled ==
    ASSUME Jobs, NEW s \in Slots, ~AtRegister(s)
    PROVE  Prior(s) = gRegistrations[s]
  BY DEF Jobs, Prior, Registering

LEMMA ServiceCallers ==
    ASSUME Serving
    PROVE  Callers'
<1>1. /\ Callers /\ Onward /\ calls \subseteq Calls /\ None \notin Slots
      /\ ServiceTypes
  BY ServingFacts, ServiceOnward
<1>2. ASSUME NEW k \in calls'
      PROVE  assigned'[k.registration] = k.slot
  <2>1. PICK m \in calls : m.slot = k.slot /\ m.registration = k.registration
    BY CallTurns
  <2>2. m.registration \in Cameras /\ m.slot \in Slots
    BY <1>1 DEF Calls
  <2> QED
    BY <1>1, <2>1, <2>2 DEF Callers, Onward
<1>3. ASSUME NEW c \in Cameras, assigned'[c] = None
      PROVE  ~producer'[c].open
  <2>1. assigned[c] = None /\ ~producer[c].open
    BY <1>1, <1>3 DEF Onward, Callers
  <2> QED
    BY <1>1, <2>1, ProducerTurns
<1> QED
  BY <1>2, <1>3 DEF Callers

LEMMA ServiceRegistrants ==
    ASSUME Serving
    PROVE  Registrants'
<1>1. /\ Registrants /\ RelayInv /\ ServiceInv /\ Service /\ Gone /\ Jobs
      /\ Live' = Live
  BY ServingFacts, GlobalsRest DEF Live
<1>2. ASSUME Live, NEW s \in Slots
      PROVE  {gRegistrations[s], Prior(s)} \subseteq {None, mSlots'[s].owner}
  <2>1. CASE mSlots'[s].owner = mSlots[s].owner
    BY <1>1, <1>2, <2>1 DEF Registrants
  <2>2. CASE mSlots[s].owner = None
    BY <1>1, <1>2, <2>2 DEF Registrants
  <2>3. CASE job[s].at = "release"
    <3>1. gRegistrations[s] = None
      BY <1>1, <1>2, <2>3 DEF Gone, Departed
    <3> QED
      BY <1>1, <2>3, <3>1, PriorSettled DEF AtRegister
  <2> QED
    BY <1>1, <2>1, <2>2, <2>3, OwnersKept
<1>3. \A s \in Slots : gRegistrations'[s] = gRegistrations[s] /\ Prior(s)' = Prior(s)
  BY PriorStays, GlobalsRest
<1> QED
  BY <1>1, <1>2, <1>3 DEF Registrants

\* A callback of a slot's owner came when the slot was already the owner's.
LEMMA OwnerBefore ==
    ASSUME Serving, NEW k \in calls, mSlots'[k.slot].owner = k.registration
    PROVE  mSlots[k.slot].owner = k.registration
<1>1. /\ RelayInv /\ ServiceInv /\ Service /\ calls \subseteq Calls /\ Callers
      /\ None \notin Cameras /\ None \notin Slots
  BY ServingFacts
<1>2. k.slot \in Slots /\ k.registration \in Cameras
  BY <1>1 DEF Calls
<1>3. assigned[k.registration] # None
  BY <1>1, <1>2 DEF Callers
<1> QED
  BY <1>1, <1>2, <1>3, OwnersKept

LEMMA ServiceOrigin ==
    ASSUME Serving
    PROVE  Origin'
<1>1. /\ Origin /\ calls \subseteq Calls /\ None \notin Cameras /\ Live' = Live
  BY ServingFacts, GlobalsRest DEF Live
<1>2. ASSUME Live, NEW k \in calls', k.epoch = gConnectionEpoch,
             mSlots'[k.slot].owner = k.registration, ~Departed(k.slot)'
      PROVE  Prior(k.slot)' = k.registration
  <2>1. PICK m \in calls : /\ m.slot = k.slot /\ m.registration = k.registration
                           /\ m.epoch = k.epoch
    BY CallTurns
  <2>2. PICK s \in Slots : s = k.slot
    BY <1>1, <2>1 DEF Calls
  <2>3. mSlots[s].owner = k.registration /\ m.registration \in Cameras
    BY <1>1, <1>2, <2>1, <2>2, OwnerBefore DEF Calls
  <2>4. ~Departed(s)
    BY <1>1, <1>2, <2>1, <2>2, <2>3, DepartedStays DEF Departed
  <2>5. Prior(s) = k.registration
    BY <1>1, <1>2, <2>1, <2>2, <2>3, <2>4 DEF Origin
  <2>6. Prior(s)' = Prior(s)
    BY PriorStays
  <2> QED
    BY <2>2, <2>5, <2>6 DEF Prior, Registering
<1> QED
  BY <1>1, <1>2, GlobalsRest DEF Origin

-----------------------------------------------------------------------------
\* A producer that is told of something is told by its own slot.
LEMMA OpensFor ==
    ASSUME Serving, NEW s, NEW c \in Cameras, Opens(s, c)
    PROVE  job[s].at = "create" /\ job[s].task.camera = c
  BY DEF Opens, TellsNewest

LEMMA ShutsFor ==
    ASSUME Serving, NEW s \in Slots, NEW c \in Cameras, Ends(s, c) \/ Finishes(s, c)
    PROVE  producer'[c] = producer[c] \/ ~producer'[c].open
<1>1. producer \in [Cameras -> [connection : 0 .. MaxLives, token : 0 .. MaxTokens,
                                open : BOOLEAN]]
  BY ServingFacts DEF ServiceTypes
<1>2. producer' = producer \/ \E d : producer' = [producer EXCEPT ![d].open = FALSE]
  BY DEF Ends, Finishes, StartClosed, FinishRemove
<1> QED
  BY <1>1, <1>2

\* A camera that has heard of nothing hears of nothing while nothing is under way.
LEMMA UnheardStays ==
    ASSUME Serving, NEW s \in Slots, NEW c \in Cameras, Unheard(s, c), assigned[c] \in {s, None}
    PROVE  Unheard(s, c)'
<1>1. RelayInv /\ ServiceInv /\ Service /\ Accepting /\ None \notin Slots
  BY ServingFacts
<1>2. ~producer'[c].open
  <2>1. SUFFICES ASSUME producer'[c] # producer[c] PROVE ~producer'[c].open
    BY DEF Unheard
  <2>2. Opens(s, c) \/ Ends(s, c) \/ Finishes(s, c)
    BY <1>1, <2>1, ProducerTurns
  <2> QED
    BY <2>1, <2>2, OpensFor, ShutsFor DEF Unheard
<1>3. \A k \in calls' : k.registration # c
  BY CallTurns DEF Unheard
<1>4. ASSUME NEW i \in DOMAIN mLifecycle'[s], mLifecycle'[s][i].kind \in {"configured", "closed"}
      PROVE  mLifecycle'[s][i].camera # c
  <2>1. CASE Adds(s, mLifecycle'[s][i])
    <3>1. PICK a \in accepted : QueuedAs(s, a, mLifecycle'[s][i])
      BY <1>4, <2>1 DEF Adds
    <3> QED
      BY <1>1, <3>1 DEF QueuedAs, Accepting, Unheard
  <2>2. CASE \E j \in DOMAIN mLifecycle[s] : mLifecycle'[s][i] = mLifecycle[s][j]
    BY <1>4, <2>2 DEF Unheard
  <2> QED
    BY <2>1, <2>2, TaskTurns
<1>5. job'[s].at = "create" => job'[s].task.camera # c
  BY <1>1, CreatingMoves DEF Unheard
<1> QED
  BY <1>2, <1>3, <1>4, <1>5 DEF Unheard

LEMMA ServiceLapsed ==
    ASSUME Serving
    PROVE  Lapsed'
<1>1. /\ Lapsed /\ Live' = Live /\ gConfigurations' = gConfigurations
      /\ ServiceTypes /\ Registry /\ Tasks /\ Callers /\ RelayInv /\ ServiceInv /\ Service
      /\ None \notin Slots /\ None \notin Cameras /\ calls \subseteq Calls
  BY ServingFacts, GlobalsRest DEF Live
<1>2. ASSUME Live, NEW s \in Slots, Prior(s) = None, gConfigurations[s].token # 0,
             mSlots'[s].owner # None, ~Departed(s)'
      PROVE  Unheard(s, mSlots[s].owner)'
  <2>1. CASE mSlots'[s].owner = mSlots[s].owner
    <3>1. PICK c \in Cameras : c = mSlots[s].owner
      BY <1>1, <1>2, <2>1 DEF ServiceTypes, SlotType, Registration
    <3>2. ~Departed(s)
      BY <1>2, DepartedStays
    <3>3. Unheard(s, c) /\ assigned[c] = s
      BY <1>1, <1>2, <2>1, <3>1, <3>2 DEF Lapsed, Registry
    <3>4. Unheard(s, c)'
      BY <3>3, UnheardStays
    <3> QED
      BY <2>1, <3>1, <3>4 DEF Unheard
  <2>2. ASSUME NEW c \in Cameras, assigned[c] = None, mSlots'[s].owner = c
        PROVE  Unheard(s, mSlots[s].owner)'
    <3>1. ~producer[c].open /\ \A k \in calls : k.registration # c
      BY <1>1, <2>2 DEF Callers, Calls
    <3>2. \A i \in DOMAIN mLifecycle[s] : mLifecycle[s][i].kind \in {"configured", "closed"}
             => mLifecycle[s][i].camera # c
      BY <1>1, <2>2 DEF Tasks, TaskOK
    <3>3. job[s].at = "create" => job[s].task.camera # c
      BY <1>1, <2>2 DEF Tasks, TaskOK, KindsAt
    <3>4. Unheard(s, c)'
      BY <2>2, <3>1, <3>2, <3>3, UnheardStays DEF Unheard
    <3> QED
      BY <2>2, <3>4 DEF Unheard
  <2> QED
    BY <1>1, <1>2, <2>1, <2>2, OwnersKept
<1>3. \A s \in Slots : Prior(s)' = Prior(s)
  BY PriorStays
<1> QED
  BY <1>1, <1>2, <1>3 DEF Lapsed

LEMMA ServiceNumbers ==
    ASSUME Serving
    PROVE  Numbers'
<1>1. /\ Numbers /\ Behind /\ Gone /\ Lapsed /\ Registry /\ Jobs /\ ServiceTypes
      /\ Live' = Live /\ gConfigurations' = gConfigurations
      /\ gConnectionEpoch' = gConnectionEpoch
  BY ServingFacts, GlobalsRest DEF Live
<1>2. ASSUME NEW s \in Slots
      PROVE  /\ mSlots'[s].connection # 0 => mSlots'[s].configuration > 0
             /\ Live /\ mSlots'[s].connection = gConnectionEpoch
                   => /\ mSlots'[s].configuration <= gConfigurations[s].token
                      /\ mSlots'[s].configuration = gConfigurations[s].token
                            /\ mSlots'[s].configurationClosed /\ ~mSlots'[s].closing
                            => gConfigurations[s].closed
  <2>1. CASE mSlots'[s] = mSlots[s]
    BY <1>1, <2>1 DEF Numbers
  <2>2. ASSUME NEW k \in calls, TakesEvent(s, k)
        PROVE  <1>2!2
    BY <1>1, <2>2 DEF TakesEvent, Behind, NewerEvent
  <2>3. CASE Closing(s)
    BY <1>1, <2>3 DEF Numbers, Closing
  <2>4. ASSUME NEW c \in Cameras, Reserved(s, c)
        PROVE  <1>2!2
    <3>1. ~mSlots[s].closing /\ ~mSlots'[s].closing
      BY <1>1, <2>4 DEF Registry, Reserved
    <3> QED
      BY <1>1, <2>4, <3>1 DEF Numbers, Reserved, KeepsNumbers
  <2>5. CASE Freed(s)
    <3>1. job[s].at = "release"
      BY <2>5 DEF Freed, FinishRemove, Back
    <3>2. Live => gRegistrations[s] = None
      BY <1>1, <3>1 DEF Gone, Departed
    <3>3. Live => Prior(s) = None
      BY <1>1, <3>1, <3>2, PriorSettled DEF AtRegister
    <3>4. Live /\ gConfigurations[s].token # 0 => gConfigurations[s].closed
      BY <1>1, <3>3 DEF Lapsed
    <3>5. Live => gConnectionEpoch # 0
      BY ServingFacts DEF Live, ConnectionInv, EpochOfHal
    <3> QED
      BY <1>1, <2>5, <3>4, <3>5 DEF Numbers, Freed, KeepsNumbers
  <2> QED
    BY <2>1, <2>2, <2>3, <2>4, <2>5, SlotTurns
<1> QED
  BY <1>1, <1>2 DEF Numbers

LEMMA ServiceBehind ==
    ASSUME Serving
    PROVE  Behind'
<1>1. /\ Behind /\ Announced /\ Callers /\ None \notin Cameras /\ None \notin Slots
      /\ calls \subseteq Calls /\ Live' = Live /\ gConfigurations' = gConfigurations
      /\ gConnectionEpoch' = gConnectionEpoch
  BY ServingFacts, GlobalsRest DEF Live
<1>2. ASSUME Live, NEW k \in calls', k.at = "admitted", k.epoch = gConnectionEpoch,
             Owns(k.slot, k.registration)', mSlots'[k.slot].connection = k.epoch,
             mSlots'[k.slot].configuration = k.token
      PROVE  k.closed /\ ~mSlots'[k.slot].configurationClosed
  <2>1. k \in calls /\ k.registration \in Cameras
    BY <1>1, <1>2, CallTurns DEF Calls
  <2>2. PICK s \in Slots : s = k.slot
    BY <1>1, <2>1 DEF Calls
  <2>3. CASE mSlots'[s] = mSlots[s]
    BY <1>1, <1>2, <2>1, <2>2, <2>3 DEF Behind, Owns
  <2>4. ASSUME NEW j \in calls, TakesEvent(s, j)
        PROVE  FALSE
    <3>1. j.epoch = k.epoch /\ j.token = k.token
      BY <1>2, <2>2, <2>4 DEF TakesEvent
    <3>2. j = k
      BY <1>1, <2>1, <3>1 DEF Announced
    <3> QED
      BY <1>2, <2>4, <3>2, TakenGoes
  <2>5. ~Closing(s)
    BY <1>2, <2>2 DEF Closing, Owns
  <2>6. ASSUME NEW c \in Cameras, Reserved(s, c)
        PROVE  FALSE
    <3>1. c = k.registration /\ assigned[c] = None
      BY <1>2, <2>2, <2>6 DEF Reserved, Owns
    <3> QED
      BY <1>1, <2>1, <2>2, <3>1 DEF Callers
  <2>7. ~Freed(s)
    BY <1>1, <1>2, <2>1, <2>2 DEF Freed, Owns
  <2> QED
    BY <2>3, <2>4, <2>5, <2>6, <2>7, SlotTurns
<1>3. ASSUME Live, NEW k \in calls', k.at = "admitted", k.epoch = gConnectionEpoch
      PROVE  /\ k.token <= gConfigurations[k.slot].token
             /\ k.token = gConfigurations[k.slot].token /\ k.closed
                   => gConfigurations[k.slot].closed
  BY <1>1, <1>3, CallTurns DEF Behind
<1> QED
  BY <1>1, <1>2, <1>3 DEF Behind

\* An event that is the slot's newest afterwards was it before, and the slot says
\* of it what it said.
LEMMA NewestBefore ==
    ASSUME Serving, NEW s \in Slots, NEW event \in Nat, event <= mSlots[s].event,
           event = mSlots'[s].event
    PROVE  /\ event = mSlots[s].event
           /\ mSlots'[s].configurationClosed = mSlots[s].configurationClosed
<1>1. mSlots[s].event \in Nat
  BY ServingFacts DEF ServiceTypes, SlotType
<1>2. ~Overtaken(s)
  BY <1>1 DEF Overtaken
<1> QED
  BY <1>2, SlotTurns DEF TakesEvent, Closing, Reserved, Freed, KeepsNumbers

LEMMA ServiceEventKinds ==
    ASSUME Serving
    PROVE  EventKinds'
<1>1. /\ EventKinds /\ Events /\ RelayInv /\ ServiceInv /\ Service /\ ServiceTypes
      /\ calls \subseteq Calls
  BY ServingFacts
<1>2. ASSUME NEW s \in Slots, NEW a \in accepted, a.call.slot = s, a.event = mSlots'[s].event
      PROVE  a.event = mSlots[s].event /\ (a.call.closed <=> mSlots'[s].configurationClosed)
  <2>1. a.event \in Nat /\ a.event <= mSlots[s].event
    BY <1>1, <1>2, EventPlaces DEF Events, EventOK
  <2>2. a.event = mSlots[s].event /\ mSlots'[s].configurationClosed = mSlots[s].configurationClosed
    BY <1>2, <2>1, NewestBefore
  <2> QED
    BY <1>1, <1>2, <2>2 DEF EventKinds
<1>3. ASSUME NEW a \in accepted', a.event = mSlots'[a.call.slot].event
      PROVE  a.call.closed <=> mSlots'[a.call.slot].configurationClosed
  <2>1. CASE a \in accepted
    <3>1. a.call.slot \in Slots
      BY <1>1, <2>1 DEF ServiceTypes, Calls
    <3> QED
      BY <1>2, <1>3, <2>1, <3>1
  <2>2. ASSUME NEW k \in calls, AcceptedAs(k, a)
        PROVE  a.call.closed <=> mSlots'[a.call.slot].configurationClosed
    <3>1. /\ k.slot \in Slots /\ Accept(k) /\ a.call.slot = k.slot /\ a.call.closed = k.closed
          /\ mSlots'[k.slot].event = mSlots[k.slot].event + 1
      BY <1>1, <2>2 DEF AcceptedAs, Calls, Overtaken
    <3>2. mSlots[k.slot].event \in Nat
      BY <1>1, <3>1 DEF ServiceTypes, SlotType
    <3>3. TakesEvent(k.slot, k)
      BY <3>1, <3>2, AcceptSlots
    <3> QED
      BY <3>1, <3>3 DEF TakesEvent
  <2> QED
    BY <1>1, <2>1, <2>2, AcceptedMoves
<1>4. ASSUME NEW s \in Slots, NEW i \in DOMAIN mLifecycle[s],
             mLifecycle[s][i].kind \in {"configured", "closed"},
             mLifecycle[s][i].event = mSlots'[s].event
      PROVE  mLifecycle[s][i].kind = "closed" <=> mSlots'[s].configurationClosed
  <2>1. mLifecycle[s][i].event \in Nat /\ mLifecycle[s][i].event <= mSlots[s].event
    BY <1>1, <1>4, EventPlaces DEF Events, EventOK
  <2>2. /\ mLifecycle[s][i].event = mSlots[s].event
        /\ mSlots'[s].configurationClosed = mSlots[s].configurationClosed
    BY <1>4, <2>1, NewestBefore
  <2> QED
    BY <1>1, <1>4, <2>2 DEF EventKinds
<1>5. ASSUME NEW s \in Slots, NEW i \in DOMAIN mLifecycle'[s],
             mLifecycle'[s][i].kind \in {"configured", "closed"},
             mLifecycle'[s][i].event = mSlots'[s].event
      PROVE  mLifecycle'[s][i].kind = "closed" <=> mSlots'[s].configurationClosed
  <2>1. CASE Adds(s, mLifecycle'[s][i])
    <3>1. PICK a \in accepted : QueuedAs(s, a, mLifecycle'[s][i])
      BY <1>5, <2>1 DEF Adds
    <3>2. a.call.closed <=> mSlots'[s].configurationClosed
      BY <1>2, <1>5, <3>1, Zenon DEF QueuedAs
    <3> QED
      BY <3>1, <3>2 DEF QueuedAs
  <2>2. CASE \E j \in DOMAIN mLifecycle[s] : mLifecycle'[s][i] = mLifecycle[s][j]
    BY <1>4, <1>5, <2>2
  <2> QED
    BY <2>1, <2>2, TaskTurns
<1>6. ASSUME NEW s \in Slots, job'[s].at = "create", job'[s].task.event = mSlots'[s].event
      PROVE  ~mSlots'[s].configurationClosed
  <2>1. CASE job[s].at = "create" /\ job'[s].task = job[s].task
    <3>1. job[s].task.event \in Nat /\ job[s].task.event <= mSlots[s].event
      BY <1>1, <2>1, EventPlaces DEF Events, EventOK
    <3>2. /\ job[s].task.event = mSlots[s].event
          /\ mSlots'[s].configurationClosed = mSlots[s].configurationClosed
      BY <1>6, <2>1, <3>1, NewestBefore
    <3> QED
      BY <1>1, <2>1, <3>2 DEF EventKinds
  <2>2. CASE /\ 1 \in DOMAIN mLifecycle[s] /\ job'[s].task = mLifecycle[s][1]
             /\ job'[s].task.kind = "configured"
    BY <1>4, <1>6, <2>2
  <2> QED
    BY <1>1, <1>6, <2>1, <2>2, CreatingMoves
<1> QED
  BY <1>3, <1>5, <1>6 DEF EventKinds

-----------------------------------------------------------------------------
\* What a slot's executor begins for the newest event.
LEMMA HeadCurrent ==
    ASSUME Serving, NEW s \in Slots, mLifecycle[s] # <<>>, NEW task, task = Head(mLifecycle[s]),
           task.kind \in {"configured", "closed"}, IsCurrentEvent(s, task.camera, task.event)
    PROVE  /\ task.connection = mSlots[s].connection /\ task.token = mSlots[s].configuration
           /\ task.camera = mSlots[s].owner
           /\ task.kind = "closed" <=> mSlots[s].configurationClosed
           /\ task.kind = "configured" => Newer(Last(s), producer[task.camera])
<1>1. task = mLifecycle[s][1] /\ 1 \in DOMAIN mLifecycle[s]
  BY HeadTask, ServingFacts
<1>2. Events /\ EventKinds
  BY ServingFacts
<1>3. /\ EventOK(s, task.event, task.camera, task.connection, task.token, task.kind = "closed")
      /\ task.event = mSlots[s].event /\ task.camera = mSlots[s].owner
  BY <1>1, <1>2, Zenon DEF Events, IsCurrentEvent, Owns
<1> QED
  BY <1>1, <1>2, <1>3 DEF EventOK, EventKinds

LEMMA ServiceReleases ==
    ASSUME Serving
    PROVE  Releases'
<1>1. /\ Releases /\ Dead /\ Jobs /\ Numbers /\ ServiceTypes /\ ConnectionInv /\ Tasks
  BY ServingFacts
<1>2. /\ Live' = Live /\ gConfigurations' = gConfigurations
      /\ gConnectionEpoch' = gConnectionEpoch
  BY GlobalsRest DEF Live
<1>3. ASSUME NEW s \in Slots, ReleasesSurface(native'[s]), ~Leaving(s)'
      PROVE  /\ native'[s].connection # 0
             /\ Live => Over(s, native'[s].connection, native'[s].token)
  <2>1. CASE native'[s] = native[s] /\ job'[s].at = job[s].at
    BY <1>1, <1>3, <2>1 DEF Releases, Leaving
  <2>2. CASE native'[s] = native[s] /\ job[s].at = "reject"
    BY <1>1, <1>3, <2>2 DEF Jobs, ReleasesSurface
  <2>3. CASE Turns(s) /\ ~Drops(s)
    <3> DEFINE task == Head(mLifecycle[s])
    <3>1. \/ Begins(s, "halDied", "call", "releaseSurface", "release", task.connection, 0)
          \/ /\ IsCurrentEvent(s, task.camera, task.event) /\ gHal # 0
             /\ gConnectionEpoch = task.connection
             /\ Begins(s, "closed", "call", "releaseSurface", "release", task.connection,
                       task.token)
      BY <1>3, <2>3 DEF Turns, Begins, Proceeds, EntersAs, ReleasesSurface, Leaving
    <3>2. CASE Begins(s, "halDied", "call", "releaseSurface", "release", task.connection, 0)
      <4>1. task.kind = "halDied" /\ native'[s].connection = task.connection
            /\ mLifecycle[s] # <<>>
        BY <3>2 DEF Begins, EntersAs
      <4>2. task = mLifecycle[s][1] /\ 1 \in DOMAIN mLifecycle[s]
        BY <1>1, <4>1, HeadTask
      <4>3. task.connection # 0 /\ (gHal # 0 => task.connection # gConnectionEpoch)
        BY <1>1, <4>1, <4>2 DEF Dead
      <4> QED
        BY <4>1, <4>3 DEF Over, Live
    <3>3. CASE /\ IsCurrentEvent(s, task.camera, task.event) /\ gHal # 0
               /\ gConnectionEpoch = task.connection
               /\ Begins(s, "closed", "call", "releaseSurface", "release", task.connection,
                         task.token)
      <4>1. /\ task.kind = "closed" /\ mLifecycle[s] # <<>>
            /\ native'[s].connection = task.connection /\ native'[s].token = task.token
        BY <3>3 DEF Begins, EntersAs
      <4>2. /\ task.connection = mSlots[s].connection /\ task.token = mSlots[s].configuration
            /\ mSlots[s].configurationClosed
        BY <3>3, <4>1, HeadCurrent
      <4>3. task.connection # 0
        BY <1>1, <3>3 DEF ConnectionInv, EpochOfHal
      <4>4. ~mSlots[s].closing /\ mSlots[s].connection = gConnectionEpoch
        BY <3>3, <4>2 DEF IsCurrentEvent, Owns
      <4>5. mSlots[s].configuration \in 0 .. MaxTokens /\ gConfigurations[s].token \in 0 .. MaxTokens
        BY <1>1, ServingFacts, Zenon DEF ServiceTypes, SlotType, GlobalType
      <4>6. mSlots[s].configuration \in Nat /\ gConfigurations[s].token \in Nat
        BY <4>5, Bounds
      <4>7. Live => /\ mSlots[s].configuration > 0
                    /\ mSlots[s].configuration <= gConfigurations[s].token
                    /\ mSlots[s].configuration = gConfigurations[s].token
                          => gConfigurations[s].closed
        BY <1>1, <4>2, <4>3, <4>4 DEF Numbers
      <4>8. Live => Over(s, task.connection, task.token)
        BY <4>2, <4>6, <4>7 DEF Over
      <4> QED
        BY <4>1, <4>3, <4>8
    <3> QED
      BY <3>1, <3>2, <3>3
  <2> QED
    BY <2>1, <2>2, <2>3, JobTurns DEF Drops
<1>4. ASSUME NEW s \in Slots
      PROVE  Over(s, native[s].connection, native[s].token)'
                <=> Over(s, native'[s].connection, native'[s].token)
  BY <1>2 DEF Over
<1> QED
  BY <1>2, <1>3, <1>4 DEF Releases

-----------------------------------------------------------------------------
\* The owner of a slot whose callbacks the relay admits was so before.
LEMMA OwnsBefore ==
    ASSUME Serving, NEW s \in Slots, NEW c \in Cameras, Live, Owns(s, c)', Prior(s) = c
    PROVE  Owns(s, c)
<1>1. mSlots[s].owner = c /\ c # None
  BY ServingFacts DEF Registrants
<1>2. ~mSlots[s].closing
  BY <1>1, SlotTurns DEF Owns, TakesEvent, Closing, Reserved, Freed
<1> QED
  BY <1>1, <1>2 DEF Owns

\* A slot that is up with the relay takes no event.
LEMMA MatchesStays ==
    ASSUME Serving, NEW s \in Slots, NEW c \in Cameras, Live, Owns(s, c), Owns(s, c)', Matches(s)
    PROVE  mSlots'[s] = mSlots[s] /\ Matches(s)'
<1>1. Behind /\ None \notin Cameras /\ calls \subseteq Calls /\ ServiceTypes /\ GlobalType
  BY ServingFacts
<1>2. ASSUME NEW k \in calls, TakesEvent(s, k)
      PROVE  FALSE
  <2>1. /\ k.at = "admitted" /\ k.slot = s /\ k.epoch = gConnectionEpoch
        /\ k.token > mSlots[s].configuration
           \/ (k.token = mSlots[s].configuration /\ k.closed /\ ~mSlots[s].configurationClosed)
    BY <1>2 DEF TakesEvent, NewerEvent, Matches
  <2>2. /\ k.token <= gConfigurations[s].token
        /\ k.token = gConfigurations[s].token /\ k.closed => gConfigurations[s].closed
    BY <1>1, <2>1 DEF Behind
  <2>3. k.token \in 1 .. MaxTokens /\ gConfigurations[s].token \in 0 .. MaxTokens
    BY <1>1 DEF Calls, GlobalType
  <2>4. k.token \in Nat /\ gConfigurations[s].token \in Nat
    BY <2>3, Bounds
  <2> QED
    BY <2>1, <2>2, <2>4 DEF Matches
<1>3. mSlots'[s] = mSlots[s]
  BY <1>1, <1>2, SlotTurns DEF Owns, Closing, Reserved, Freed
<1> QED
  BY <1>3, GlobalsRest DEF Matches

LEMMA OfferedServed ==
    ASSUME Serving, NEW s \in Slots, NEW c \in Cameras, Live, Owns(s, c), Owns(s, c)', Offered(s)
    PROVE  Offered(s)' \/ Arrived(s)'
<1>1. /\ Behind /\ Numbers /\ Reach /\ Heard /\ Accepting /\ calls \subseteq Calls /\ ServiceTypes
      /\ GlobalType
  BY ServingFacts
<1>2. PICK k \in calls : Offers(s, k)
  BY DEF Offered
<1>3. /\ k.slot = s /\ k.registration = c /\ k.at = "admitted" /\ k.epoch = gConnectionEpoch
      /\ k.token = gConfigurations[s].token /\ k.closed = gConfigurations[s].closed
  BY <1>2 DEF Offers, Owns
<1>4. mSlots[s].owner = c /\ mSlots'[s].owner = c /\ ~mSlots[s].closing
  BY DEF Owns
<1>5. CASE k \in calls'
  BY <1>3, <1>4, <1>5, GlobalsRest DEF Offered, Offers
<1>6. CASE k \notin calls'
  <2>1. Accept(k)
    BY <1>1, <1>3, <1>6, CallTurns DEF Accepting
  <2>2. /\ mSlots[s].configuration \in 0 .. MaxTokens /\ k.token \in 1 .. MaxTokens
        /\ k.epoch \in 1 .. MaxLives /\ mSlots[s].connection \in 0 .. MaxLives
        /\ mSlots[s].event \in Nat
    BY <1>1, Zenon DEF ServiceTypes, SlotType, Calls
  <2>3. /\ mSlots[s].configuration \in Nat /\ k.token \in Nat /\ k.token > 0
        /\ k.epoch \in Nat /\ k.epoch # 0 /\ mSlots[s].connection \in Nat
    BY <2>2, Bounds
  <2>4. k.epoch >= mSlots[s].connection /\ gHal # 0
    BY <1>1, <1>3, <2>3 DEF Reach, Heard, Live
  <2>5. ASSUME mSlots[s].connection = k.epoch
        PROVE  \/ k.token > mSlots[s].configuration
               \/ k.token = mSlots[s].configuration /\ k.closed /\ ~mSlots[s].configurationClosed
    <3>1. mSlots[s].configuration <= k.token
      BY <1>1, <1>3, <2>5 DEF Numbers
    <3>2. mSlots[s].configuration = k.token => k.closed /\ ~mSlots[s].configurationClosed
      BY <1>1, <1>3, <2>5 DEF Behind, Owns
    <3> QED
      BY <2>3, <3>1, <3>2
  <2>6. NewerEvent(s, k.registration, k.epoch, k.token, k.closed)
    BY <1>3, <2>3, <2>4, <2>5 DEF NewerEvent
  <2> DEFINE a == [call |-> [k EXCEPT !.at = "accepted"], event |-> mSlots[s].event + 1]
  <2>7. /\ accepted' = accepted \cup {a}
        /\ mSlots' = [mSlots EXCEPT ![s] =
                         [@ EXCEPT !.connection = k.epoch, !.configuration = k.token,
                                   !.configurationClosed = k.closed,
                                   !.event = mSlots[s].event + 1]]
    BY <1>3, <1>4, <2>1, <2>4, <2>6 DEF Accept, Current
  <2>8. /\ mSlots'[s].connection = k.epoch /\ mSlots'[s].configuration = k.token
        /\ mSlots'[s].configurationClosed = k.closed /\ mSlots'[s].event = mSlots[s].event + 1
    BY <1>1, <2>7 DEF ServiceTypes, SlotType
  <2>9. a.call.slot = s /\ a.call.registration = c /\ a.event = mSlots[s].event + 1
    BY <1>1, <1>3 DEF Calls
  <2>10. a \in accepted'
    BY <2>7
  <2> HIDE DEF a
  <2>11. Matches(s)'
    BY <1>3, <2>8, GlobalsRest DEF Matches
  <2> QED
    BY <1>4, <2>8, <2>9, <2>10, <2>11 DEF Arrived
<1> QED
  BY <1>5, <1>6

LEMMA AcceptedGoes ==
    ASSUME Serving, NEW a \in accepted, a \notin accepted'
    PROVE  ExecuteEvent(a)
<1>1. ASSUME NEW k \in calls, Accept(k)
      PROVE  FALSE
  BY <1>1 DEF Accept
<1>2. ASSUME NEW b \in accepted, ExecuteEvent(b)
      PROVE  ExecuteEvent(a)
  <2>1. b = a
    BY <1>2 DEF ExecuteEvent
  <2> QED
    BY <1>2, <2>1
<1> QED
  BY <1>1, <1>2, CallsStay, ServingFacts

LEMMA ArrivedServed ==
    ASSUME Serving, NEW s \in Slots, NEW c \in Cameras, Live, Owns(s, c), Owns(s, c)', Arrived(s)
    PROVE  Served(s, c)'
<1>1. /\ ServiceTypes /\ Tasks /\ Events /\ EventKinds
  BY ServingFacts
<1>2. mSlots'[s] = mSlots[s] /\ Matches(s)' /\ Matches(s)
  BY MatchesStays DEF Arrived
<1>3. mSlots[s].owner = c /\ ~mSlots[s].closing
  BY DEF Owns
<1>4. ASSUME NEW a \in accepted, a.call.slot = s, a.event = mSlots[s].event,
             a.call.registration = c
      PROVE  Arrived(s)'
  <2>1. CASE a \in accepted'
    BY <1>2, <1>3, <1>4, <2>1 DEF Arrived
  <2>2. CASE a \notin accepted'
    <3>1. PICK task \in TaskType : QueuedAs(s, a, task) /\ Execute(s, task)
      BY <1>4, <2>2, AcceptedGoes, EventQueues
    <3>2. Carries(s, task)'
      BY <1>2, <1>3, <1>4, <3>1 DEF QueuedAs, Carries
    <3>3. \E i \in DOMAIN mLifecycle'[s] : mLifecycle'[s][i] = task
      BY <1>1, <3>1, Executed DEF ServiceTypes
    <3>4. \E i \in DOMAIN mLifecycle'[s] : Carries(s, mLifecycle[s][i])'
      BY <3>2, <3>3 DEF Carries
    <3> QED
      BY <1>2, <3>4 DEF Arrived
  <2> QED
    BY <2>1, <2>2
<1>5. ASSUME NEW i \in DOMAIN mLifecycle[s], Carries(s, mLifecycle[s][i])
      PROVE  Served(s, c)'
  <2>1. CASE \E j \in DOMAIN mLifecycle'[s] : mLifecycle'[s][j] = mLifecycle[s][i]
    <3>1. \E j \in DOMAIN mLifecycle'[s] : Carries(s, mLifecycle[s][j])'
      BY <1>2, <1>5, <2>1 DEF Carries
    <3> QED
      BY <1>2, <3>1 DEF Arrived, Served
  <2>2. CASE Shrinks(s) /\ Head(mLifecycle[s]) = mLifecycle[s][i]
    <3>1. PICK task : task = Head(mLifecycle[s])
      OBVIOUS
    <3>2. /\ mLifecycle[s] # <<>> /\ task.kind \in {"configured", "closed"}
          /\ IsCurrentEvent(s, task.camera, task.event) /\ task.camera = c
      <4>1. /\ mLifecycle[s] # <<>> /\ task.kind \in {"configured", "closed"}
            /\ task.event = mSlots[s].event /\ task.camera = c
        BY <1>3, <1>5, <2>2, <3>1 DEF Shrinks, Carries
      <4>2. 0 < task.event
        BY <1>1, <2>2, <3>1, <4>1 DEF Events, EventOK
      <4>3. task.event # 0
        BY <4>2
      <4> QED
        BY <1>3, <4>1, <4>3 DEF IsCurrentEvent, Owns
    <3>3. /\ task.connection = gConnectionEpoch /\ gHal # 0
          /\ task.kind = "closed" <=> gConfigurations[s].closed
      BY <1>2, <3>1, <3>2, HeadCurrent DEF Matches, Live
    <3>4. mLifecycle' # mLifecycle
      <4>1. mLifecycle[s] \in Seq(TaskType)
        BY <1>1 DEF ServiceTypes
      <4>2. Len(Tail(mLifecycle[s])) # Len(mLifecycle[s])
        BY <3>2, <4>1
      <4> QED
        BY <2>2, <4>2, Zenon DEF Shrinks
    <3>5. Turns(s)
      BY <2>2, ExecutorTurns DEF Shrinks
    <3>6. ~Drops(s)
      BY <3>1, <3>2, <3>3 DEF Drops
    <3>7. \/ Begins(s, "configured", "create", "createSurface", "check", task.connection,
                    task.token)
          \/ /\ StartClosed(s)
             /\ Begins(s, "closed", "call", "releaseSurface", "release", task.connection,
                       task.token)
      BY <3>1, <3>2, <3>4, <3>5, <3>6 DEF Turns, Begins, Proceeds
    <3>8. CASE Begins(s, "configured", "create", "createSurface", "check", task.connection,
                      task.token)
      <4>1. /\ task.kind = "configured" /\ job'[s].at = "create" /\ job'[s].task = task
            /\ native'[s].at = "check"
        BY <3>1, <3>8 DEF Begins, EntersAs
      <4>2. Carries(s, job[s].task)'
        BY <1>2, <1>5, <2>2, <3>1, <4>1 DEF Carries
      <4>3. InTheMaking(s)' /\ ~gConfigurations'[s].closed
        BY <1>2, <3>3, <4>1, <4>2, GlobalsRest DEF InTheMaking
      <4> QED
        BY <4>3 DEF Served
    <3>9. CASE StartClosed(s) /\ Begins(s, "closed", "call", "releaseSurface", "release",
                                        task.connection, task.token)
      <4>1. task.kind = "closed" /\ job'[s].at = "call"
        BY <3>1, <3>9 DEF Begins
      <4>2. producer' = [producer EXCEPT ![c].open = FALSE]
        BY <3>1, <3>2, <3>3, <3>9 DEF StartClosed
      <4>3. ~producer'[c].open
        BY <1>1, <4>2 DEF ServiceTypes
      <4>4. gConfigurations'[s].closed /\ ~Made(s)'
        BY <3>3, <4>1, GlobalsRest DEF Made
      <4> QED
        BY <4>3, <4>4 DEF Served
    <3> QED
      BY <3>7, <3>8, <3>9
  <2> QED
    BY <2>1, <2>2, TaskTurns
<1> QED
  BY <1>3, <1>4, <1>5 DEF Arrived, Served

-----------------------------------------------------------------------------
\* What the producer hears while its slot is up with the relay.
LEMMA TellerIsOwn ==
    ASSUME Serving, NEW s \in Slots, NEW c \in Cameras, Owns(s, c), producer'[c] # producer[c]
    PROVE  Opens(s, c) \/ Ends(s, c)
<1>1. Registry /\ Leavers /\ None \notin Cameras
  BY ServingFacts
<1>2. assigned[c] = s
  BY <1>1 DEF Registry, Owns
<1>3. ~Finishes(s, c)
  BY <1>1 DEF Leavers, Leaving, Closes, Finishes, Owns
<1> QED
  BY <1>2, <1>3, ProducerTurns

\* Surfaces are made for the newest event, and only from then on.
LEMMA CreateBegins ==
    ASSUME Serving, NEW s \in Slots, job'[s].at = "create"
    PROVE  \/ job[s].at = "create" /\ job'[s] = job[s] /\ native'[s] = native[s]
           \/ /\ native'[s].at = "check" /\ mLifecycle[s] # <<>>
              /\ Head(mLifecycle[s]).kind = "configured"
              /\ IsCurrentEvent(s, Head(mLifecycle[s]).camera, Head(mLifecycle[s]).event)
<1>1. CASE Turns(s)
  BY <1>1 DEF Turns, Drops, Begins, Proceeds, EntersAs
<1> QED
  BY <1>1, JobTurns, IdleType

LEMMA ClosedServed ==
    ASSUME Serving, NEW s \in Slots, NEW c \in Cameras, Owns(s, c),
           gConfigurations[s].closed, ~producer[c].open, ~Made(s)
    PROVE  Served(s, c)'
<1>1. ~Opens(s, c)
  BY OpensFor DEF Opens, Made
<1>2. ~producer'[c].open
  BY <1>1, TellerIsOwn, ShutsFor
<1>3. ~Made(s)'
  BY CreateBegins DEF Made
<1> QED
  BY <1>2, <1>3, GlobalsRest DEF Served

LEMMA MakingServed ==
    ASSUME Serving, NEW s \in Slots, NEW c \in Cameras, Live, Owns(s, c), Owns(s, c)',
           ~gConfigurations[s].closed, InTheMaking(s)
    PROVE  Served(s, c)'
<1>1. mSlots'[s] = mSlots[s] /\ Matches(s)' /\ Matches(s)
  BY MatchesStays DEF InTheMaking
<1>2. ServiceTypes /\ Events
  BY ServingFacts
<1>3. job[s].at = "create" /\ Carries(s, job[s].task) /\ job[s].task.camera = c
  BY DEF InTheMaking, Carries, Owns
<1>4. CASE job'[s] = job[s] /\ native'[s] = native[s]
  <2>1. Carries(s, job[s].task)'
    BY <1>1, <1>3, <1>4 DEF Carries
  <2>2. InTheMaking(s)'
    BY <1>1, <1>4, <2>1, GlobalsRest DEF InTheMaking, InForceAt
  <2> QED
    BY <2>2, GlobalsRest DEF Served
<1>5. CASE SurfaceCreated(s)
  <2>1. native[s].ok /\ gSlots[s] = InForceAt(s)
    BY <1>5 DEF SurfaceCreated, Back, InTheMaking
  <2>2. /\ 0 < job[s].task.event /\ job[s].task.event = mSlots[s].event
        /\ job[s].task.connection = gConnectionEpoch
        /\ job[s].task.token = gConfigurations[s].token
    BY <1>1, <1>2, <1>3 DEF Carries, Events, EventOK, Matches
  <2>3. job[s].task.event # 0
    BY <2>2
  <2>4. IsCurrentEvent(s, job[s].task.camera, job[s].task.event)
    BY <1>3, <2>2, <2>3 DEF IsCurrentEvent
  <2>5. /\ producer' = [producer EXCEPT ![c] =
                           [connection |-> job[s].task.connection, token |-> job[s].task.token,
                            open |-> TRUE]]
        /\ job'[s] = Idle
    BY <1>2, <1>3, <1>5, <2>1, <2>4 DEF SurfaceCreated, Done, ServiceTypes
  <2>6. /\ producer'[c].open /\ producer'[c].connection = gConnectionEpoch
        /\ producer'[c].token = gConfigurations[s].token
    BY <1>2, <2>2, <2>5 DEF ServiceTypes
  <2>7. Has(s, c)'
    BY <1>1, <2>1, <2>5, <2>6, IdleType, GlobalsRest DEF Has, InForceAt
  <2> QED
    BY <2>7, GlobalsRest DEF Served
<1> QED
  BY <1>3, <1>4, <1>5, JobAfter

LEMMA HasServed ==
    ASSUME Serving, NEW s \in Slots, NEW c \in Cameras, Live, Owns(s, c), Owns(s, c)',
           ~gConfigurations[s].closed, Has(s, c)
    PROVE  Served(s, c)'
<1>1. mSlots'[s] = mSlots[s] /\ Matches(s)' /\ Matches(s)
  BY MatchesStays DEF Has
<1>2. ServiceTypes /\ None \notin Cameras /\ mSlots[s].owner = c
  BY ServingFacts DEF Owns
<1>3. ~Newer(Last(s), producer[c])
  <2>1. /\ producer[c].connection = mSlots[s].connection
        /\ producer[c].token = mSlots[s].configuration
    BY <1>1 DEF Has, Matches
  <2>2. /\ producer[c].connection \in 0 .. MaxLives /\ producer[c].token \in 0 .. MaxTokens
    BY <1>2 DEF ServiceTypes
  <2>3. producer[c].connection \in Nat /\ producer[c].token \in Nat
    BY <2>2, Bounds
  <2> QED
    BY <2>1, <2>3 DEF Newer, Last
<1>4. job'[s].at # "create"
  <2>1. SUFFICES ASSUME job'[s].at = "create" PROVE FALSE
    OBVIOUS
  <2>2. PICK task : task = Head(mLifecycle[s])
    OBVIOUS
  <2>3. /\ mLifecycle[s] # <<>> /\ task.kind = "configured"
        /\ IsCurrentEvent(s, task.camera, task.event)
    BY <2>1, <2>2, CreateBegins DEF Has
  <2>4. task.camera = c /\ Newer(Last(s), producer[task.camera])
    BY <1>2, <2>2, <2>3, HeadCurrent
  <2> QED
    BY <1>3, <2>4
<1>5. producer'[c] = producer[c]
  <2>1. ~Opens(s, c)
    BY OpensFor DEF Has
  <2>2. SUFFICES ASSUME Ends(s, c) PROVE FALSE
    BY <2>1, TellerIsOwn
  <2>3. PICK task : task = Head(mLifecycle[s])
    OBVIOUS
  <2>4. /\ mLifecycle[s] # <<>> /\ task.kind = "closed"
        /\ IsCurrentEvent(s, task.camera, task.event)
    BY <2>2, <2>3 DEF Ends, NextTask
  <2>5. mSlots[s].configurationClosed
    BY <2>3, <2>4, HeadCurrent
  <2> QED
    BY <1>1, <2>5 DEF Matches
<1>6. Has(s, c)'
  BY <1>1, <1>4, <1>5, GlobalsRest DEF Has, InForceAt
<1> QED
  BY <1>6, GlobalsRest DEF Served

LEMMA ServiceFollows ==
    ASSUME Serving
    PROVE  Follows'
<1>1. Follows
  BY ServingFacts
<1>2. /\ Live' = Live /\ gConfigurations' = gConfigurations
  BY GlobalsRest DEF Live
<1>3. ASSUME NEW s \in Slots, NEW c \in Cameras, Live, Owns(s, c)', Prior(s) = c,
             gConfigurations[s].token # 0
      PROVE  Served(s, c)'
  <2>1. Owns(s, c)
    BY <1>3, OwnsBefore
  <2>2. Served(s, c)
    BY <1>1, <1>3, <2>1 DEF Follows
  <2> QED
    BY <1>3, <2>1, <2>2, OfferedServed, ArrivedServed, ClosedServed, MakingServed, HasServed
       DEF Served
<1>4. \A s \in Slots : Prior(s)' = Prior(s)
  BY PriorStays
<1> QED
  BY <1>2, <1>3, <1>4 DEF Follows

LEMMA FollowsKept ==
    RelayInv /\ ServiceInv /\ EventInv /\ FollowInv /\ [ServiceNext]_vars => FollowInv'
<1> SUFFICES ASSUME RelayInv, ServiceInv, EventInv, FollowInv, [ServiceNext]_vars
             PROVE  FollowInv'
  OBVIOUS
<1>1. CASE Service
  <2>1. Serving
    BY <1>1 DEF Serving
  <2> QED
    BY <2>1, ServiceLeavers, ServiceSurfaces, ServiceReach, ServiceCallers, ServiceRegistrants,
       ServiceOrigin, ServiceGone, ServiceLapsed, ServiceNumbers, ServiceBehind, ServiceEventKinds,
       ServiceDead, ServiceReleases, ServiceFollows DEF FollowInv
<1>2. CASE RelayNext /\ UNCHANGED serviceVars
  BY <1>2, RelayFollows
<1>3. CASE UNCHANGED vars
  <2>1. UNCHANGED <<app, removing, mCameras, mSlotByCameraId, assigned, mSlots, accepted,
                    mLifecycle, job, mRecoveryRound, scheduled, recovery, producer>>
    BY <1>3, UnchangedService DEF vars
  <2>2. UNCHANGED <<life, calls, gHal, gConnectionEpoch, gNextConnectionEpoch, gRegistrations,
                    gConfigurations, gSlots, deaths, native>>
    BY <1>3 DEF vars, relayVars, hal, connection, admission, queues
  <2>3. Leavers' /\ Callers' /\ EventKinds' /\ Dead'
    BY <2>1, <2>2 DEF FollowInv, Leavers, Closes, Leaving, Callers, EventKinds, Dead
  <2>4. Surfaces' /\ Reach' /\ Numbers' /\ Behind'
    BY <2>1, <2>2 DEF FollowInv, Surfaces, Reach, Registering, Numbers, Behind, Owns, Live
  <2>5. \A s \in Slots : /\ Prior(s)' = Prior(s) /\ Departed(s)' = Departed(s)
                         /\ Stale(s)' = Stale(s) /\ Live' = Live
    BY <2>1, <2>2 DEF Prior, Registering, Departed, Stale, Live
  <2>6. Registrants' /\ Gone'
    BY <2>1, <2>2, <2>5 DEF FollowInv, Registrants, Gone, Live
  <2>7. Origin'
    BY <2>1, <2>2 DEF FollowInv, Origin, Live, Prior, Registering, Departed
  <2>8. Lapsed'
    BY <2>1, <2>2, <2>5 DEF FollowInv, Lapsed, Live, Unheard
  <2>9. Releases'
    BY <2>1, <2>2 DEF FollowInv, Releases, Over, Live, Leaving
  <2>10. \A s \in Slots, c \in Cameras :
            Owns(s, c)' = Owns(s, c) /\ Served(s, c)' = Served(s, c)
    BY <2>1, <2>2 DEF Owns, Served, Offered, Offers, Arrived, Matches, Carries, InTheMaking, InForceAt,
                      Has, Made
  <2>11. Follows'
    BY <2>2, <2>5, <2>10 DEF FollowInv, Follows, Live
  <2> QED
    BY <2>3, <2>4, <2>6, <2>7, <2>8, <2>9, <2>11 DEF FollowInv
<1> QED
  BY <1>1, <1>2, <1>3 DEF ServiceNext

LEMMA InitFollows == Init => FollowInv
<1> SUFFICES ASSUME Init PROVE FollowInv
  OBVIOUS
<1>1. /\ gHal = 0 /\ ~Live /\ calls = {} /\ accepted = {} /\ Slots \subseteq Threads
      /\ \A t \in Threads : native[t].method = "none" /\ native[t].at = "java"
      /\ \A s \in Slots : /\ DOMAIN mLifecycle[s] = {} /\ job[s].at = "idle"
                          /\ mSlots[s].connection = 0
      /\ \A c \in Cameras : removing[c] = "no" /\ ~producer[c].open
  BY IdleType, Bounds DEF Init, RelayInit, Live, Returned, NewSlot
<1>2. Leavers
  BY <1>1 DEF Leavers, Leaving
<1>3. Surfaces
  BY <1>1 DEF Surfaces, MethodsAt, CreatesSurface, ReleasesSurface
<1>4. Reach /\ Callers /\ EventKinds /\ Dead
  BY <1>1 DEF Reach, Registering, Callers, EventKinds, Dead
<1>5. Registrants /\ Origin /\ Gone /\ Lapsed /\ Numbers /\ Behind /\ Follows
  BY <1>1 DEF Registrants, Origin, Gone, Lapsed, Numbers, Behind, Follows
<1>6. Releases
  BY <1>1 DEF Releases, ReleasesSurface
<1> QED
  BY <1>2, <1>3, <1>4, <1>5, <1>6 DEF FollowInv

\* With nothing under way, what is in force has been delivered.
LEMMA QuietFollows ==
    ASSUME RelayInv, ServiceInv, FollowInv
    PROVE  ProducerFollowsConfiguration
<1> SUFFICES ASSUME NEW s \in Slots, NEW c \in Cameras, Quiet(s), Owns(s, c),
                    gRegistrations[s] = c, gHal # 0, gHal = life, gConfigurations[s].token # 0
             PROVE  IF gConfigurations[s].closed THEN ~producer[c].open
                    ELSE /\ producer[c].open /\ gSlots[s] = InForceAt(s)
                         /\ producer[c].connection = gConnectionEpoch
                         /\ producer[c].token = gConfigurations[s].token
  BY DEF ProducerFollowsConfiguration, InForceAt
<1>1. /\ DOMAIN mLifecycle[s] = {} /\ job[s].at = "idle" /\ \A k \in calls : k.slot # s
  BY IdleType DEF Quiet
<1>2. Live /\ Prior(s) = c
  BY <1>1, PriorSettled DEF ServiceInv, AtRegister, Live
<1>3. Served(s, c)
  BY <1>2 DEF FollowInv, Follows
<1>4. ~Offered(s) /\ ~Arrived(s)
  BY <1>1 DEF Offered, Offers, Arrived, ServiceInv, Accepting
<1>5. ~InTheMaking(s)
  BY <1>1 DEF InTheMaking
<1> QED
  BY <1>3, <1>4, <1>5 DEF Served, Has

\* VirtualCameraService.java:93 and 102, "newer work/removal won": however the
\* callbacks of a slot overtake each other, whatever the executors skip, and
\* however the HAL dies and comes back meanwhile, with nothing under way a
\* producer draws for the configuration that the HAL has announced, into the
\* relay's queue of that configuration, and does not draw once it is closed.
THEOREM ProducerEndsUpRight == ServiceSpec => []ProducerFollowsConfiguration
<1>1. Init => RelayInv /\ ServiceInv /\ EventInv /\ FollowInv
  BY InitService, InitConnection, InitQueue, InitRegistration, InitEvents, InitFollows
     DEF Init, RelayInv
<1>2. RelayInv /\ ServiceInv /\ EventInv /\ FollowInv /\ [ServiceNext]_vars
        => (RelayInv /\ ServiceInv /\ EventInv /\ FollowInv)'
  BY ServiceCalls, RelayKept, ServiceKept, EventsKept, FollowsKept
<1>3. RelayInv /\ ServiceInv /\ EventInv /\ FollowInv => ProducerFollowsConfiguration
  BY QuietFollows
<1> QED
  BY <1>1, <1>2, <1>3, PTL DEF ServiceSpec
=============================================================================
