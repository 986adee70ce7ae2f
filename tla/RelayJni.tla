------------------------------ MODULE RelayJni ------------------------------
(***************************************************************************)
(* The relay inside system_server: platform-jni/VirtualCameraRelayJni.cpp, *)
(* with what it needs to know of the HAL process it talks to.              *)
(*                                                                         *)
(* The relay connects to the HAL, remembers which producer it registered   *)
(* in each slot, filters the HAL's callbacks, and owns one buffer queue    *)
(* per slot.  gLock makes each access to the globals atomic and is never   *)
(* held across a call to the HAL or to Java, so a native method is a       *)
(* sequence of steps.  Between any two of them the HAL may die, its death  *)
(* may be reported (much later than it happens: until then gHal refers to  *)
(* a dead process), another thread may reconnect, and callbacks of an      *)
(* older connection may still be under way.                                *)
(*                                                                         *)
(* Spec closes the module with the most general Java caller that keeps to  *)
(* one thread per slot; CameraService.tla replaces it by the service.      *)
(***************************************************************************)
EXTENDS Integers, FiniteSets

CONSTANTS
    NumSlots,   \* kMaxSlots
    Cameras,    \* ids of producer registrations
    Valid,      \* those whose descriptor the HAL accepts
    Clients,    \* threads that are not a slot's lifecycle thread
    MaxLives,   \* bound on HAL processes started
    MaxTokens,  \* bound on configuration tokens in one HAL process
    MaxCalls,   \* bound on HAL callbacks under way at a time
    None        \* no registration, no thread

ASSUME RelayAssumption ==
    /\ NumSlots \in Nat \ {0}
    /\ MaxLives \in Nat /\ MaxTokens \in Nat /\ MaxCalls \in Nat
    /\ Valid \subseteq Cameras
    /\ None \notin Cameras \cup Clients \cup (0 .. NumSlots - 1)
    /\ Clients \cap (0 .. NumSlots - 1) = {}

Slots == 0 .. NumSlots - 1
Threads == Slots \cup Clients

VARIABLES
    life,             \* the HAL process that runs, 0 if none
    lives,            \* HAL processes started so far
    halCallback,      \* connection whose callback the HAL holds, 0 if none
    halProducer,      \* the HAL's registration per slot
    halToken,         \* the HAL's configuration in force per slot, 0 if none
    halNextToken,     \* tokens this HAL process has issued
    calls,            \* callbacks of HAL processes, under way in system_server
    links,            \* death recipients linked and not yet notified
    gHal,             \* process gHal refers to, 0 for null
    gConnectionEpoch, gNextConnectionEpoch, gConnectionReady,
    gRegistrations, gConfigurations,
    gSlots,           \* the relay queue installed per slot
    gConnectLock,     \* thread that holds it, or None
    gSlotGates,       \* thread that holds it across steps, or None
    deaths,           \* onHalDiedCb under way: queues still to be released
    native            \* per thread, the native method it is in

hal        == <<life, lives, halCallback, halProducer, halToken, halNextToken>>
connection == <<gHal, gConnectionEpoch, gNextConnectionEpoch, gConnectionReady>>
admission  == <<gRegistrations, gConfigurations>>
queues     == <<gSlots, gSlotGates>>
relayVars  == <<hal, calls, links, connection, admission, queues, gConnectLock, deaths, native>>

NoQueue == [connection |-> 0, token |-> 0]
NoConfiguration == [token |-> 0, closed |-> FALSE]

\* A thread outside native code; `ok` is what its last native method returned.
Returned(ok) ==
    [at |-> "java", method |-> "none", slot |-> 0, camera |-> None, connection |-> 0, token |-> 0,
     flag |-> FALSE, h |-> 0, epoch |-> 0, previous |-> None, ok |-> ok]

RelayInit ==
    /\ life = 0 /\ lives = 0 /\ halCallback = 0 /\ halNextToken = 0
    /\ halProducer = [s \in Slots |-> None]
    /\ halToken = [s \in Slots |-> 0]
    /\ calls = {} /\ links = {} /\ deaths = {}
    /\ gHal = 0 /\ gConnectionEpoch = 0 /\ gNextConnectionEpoch = 0
    /\ gConnectionReady = FALSE
    /\ gRegistrations = [s \in Slots |-> None]
    /\ gConfigurations = [s \in Slots |-> NoConfiguration]
    /\ gSlots = [s \in Slots |-> NoQueue]
    /\ gConnectLock = None
    /\ gSlotGates = [s \in Slots |-> None]
    /\ native = [t \in Threads |-> Returned(FALSE)]
----------------------------------------------------------------------------
(***************************************************************************)
(* The HAL process, as the relay knows it (StableHal.tla has its inside).  *)
(***************************************************************************)

HalStart ==
    /\ life = 0 /\ lives < MaxLives
    /\ life' = lives + 1 /\ lives' = lives + 1
    /\ UNCHANGED <<halCallback, halProducer, halToken, halNextToken, calls, links, connection,
                   admission, queues, gConnectLock, deaths, native>>

\* The process is gone with all its state; what it called here still runs.
HalCrash ==
    /\ life # 0
    /\ life' = 0 /\ halCallback' = 0 /\ halNextToken' = 0
    /\ halProducer' = [s \in Slots |-> None]
    /\ halToken' = [s \in Slots |-> 0]
    /\ UNCHANGED <<lives, calls, links, connection, admission, queues, gConnectLock, deaths,
                   native>>

Call(s, token, closed) ==
    [slot |-> s, registration |-> halProducer[s], token |-> token, closed |-> closed,
     epoch |-> halCallback, at |-> "sent"]

\* A session of the registered producer configures: a new token, announced
\* outside the HAL's lock.
HalConfigure(s) ==
    /\ halProducer[s] # None
    /\ halNextToken < MaxTokens /\ Cardinality(calls) < MaxCalls
    /\ halNextToken' = halNextToken + 1
    /\ halToken' = [halToken EXCEPT ![s] = halNextToken + 1]
    /\ calls' = calls \cup {Call(s, halNextToken + 1, FALSE)}
    /\ UNCHANGED <<life, lives, halCallback, halProducer, links, connection, admission, queues,
                   gConnectLock, deaths, native>>

\* A session closes.  It is one thread: its own announcement has returned.
HalClose(s) ==
    /\ halToken[s] # 0 /\ Cardinality(calls) < MaxCalls
    /\ \A k \in calls : k.epoch = halCallback => k.token # halToken[s]
    /\ halToken' = [halToken EXCEPT ![s] = 0]
    /\ calls' = calls \cup {Call(s, halToken[s], TRUE)}
    /\ UNCHANGED <<life, lives, halCallback, halProducer, halNextToken, links, connection,
                   admission, queues, gConnectLock, deaths, native>>
----------------------------------------------------------------------------
(***************************************************************************)
(* CallbackImpl.                                                           *)
(***************************************************************************)

\* admit(): the connection, the registration and the token are current, and
\* neither an older configuration nor a repetition gets through.
Admissible(k) ==
    LET state == gConfigurations[k.slot]
    IN /\ gHal # 0 /\ gConnectionEpoch = k.epoch
       /\ gRegistrations[k.slot] = k.registration
       /\ k.token > state.token \/ (k.token = state.token /\ k.closed /\ ~state.closed)

Admit(k) ==
    /\ k \in calls /\ k.at = "sent"
    /\ IF Admissible(k)
       THEN /\ gConfigurations' =
                   [gConfigurations EXCEPT ![k.slot] = [token |-> k.token, closed |-> k.closed]]
            /\ calls' = (calls \ {k}) \cup {[k EXCEPT !.at = "admitted"]}
       ELSE /\ calls' = calls \ {k}
            /\ UNCHANGED gConfigurations
    /\ UNCHANGED <<hal, links, connection, gRegistrations, queues, gConnectLock, deaths, native>>
----------------------------------------------------------------------------
(***************************************************************************)
(* hal(): the connection to use, established if need be.                   *)
(***************************************************************************)

Connected == gHal # 0 /\ gConnectionReady

\* hal() returned h; null ends every method that called it.
AfterHal(t, h) ==
    native' = [native EXCEPT ![t] =
        IF h = 0 THEN Returned(FALSE)
        ELSE IF @.method = "isHalUp" THEN Returned(TRUE)
        ELSE [@ EXCEPT !.at = "lock", !.h = h]]

\* The connection may have died without this being known yet.
HalCached(t) ==
    /\ native[t].at = "hal" /\ Connected
    /\ AfterHal(t, gHal)
    /\ UNCHANGED <<hal, calls, links, connection, admission, queues, gConnectLock, deaths>>

\* checkService finds no HAL.
HalAbsent(t) ==
    /\ native[t].at = "hal" /\ ~Connected /\ gConnectLock = None
    /\ life = 0
    /\ AfterHal(t, 0)
    /\ UNCHANGED <<hal, calls, links, connection, admission, queues, gConnectLock, deaths>>

\* The new connection is published before it is ready.
Connect(t) ==
    LET epoch == gNextConnectionEpoch + 1
    IN /\ native[t].at = "hal" /\ ~Connected /\ gConnectLock = None
       /\ life # 0
       /\ gConnectLock' = t
       /\ gHal' = life /\ gConnectionEpoch' = epoch /\ gNextConnectionEpoch' = epoch
       /\ gConnectionReady' = FALSE
       /\ gRegistrations' = [s \in Slots |-> None]
       /\ gConfigurations' = [s \in Slots |-> NoConfiguration]
       /\ native' = [native EXCEPT ![t] = [@ EXCEPT !.at = "link", !.h = life, !.epoch = epoch]]
       /\ UNCHANGED <<hal, calls, links, queues, deaths>>

\* Mutant of ConnectFails: the published connection is not taken back.
ConnectFailsQuietly(t) ==
    /\ gConnectLock' = None
    /\ AfterHal(t, 0)
    /\ UNCHANGED connection

\* The connection did not come about: the globals are reset, unless the death
\* of this connection was reported first.
ConnectFails(t) ==
    /\ IF gConnectionEpoch = native[t].epoch
       THEN gHal' = 0 /\ gConnectionEpoch' = 0 /\ gConnectionReady' = FALSE
       ELSE UNCHANGED <<gHal, gConnectionEpoch, gConnectionReady>>
    /\ gConnectLock' = None
    /\ AfterHal(t, 0)
    /\ UNCHANGED gNextConnectionEpoch

\* AIBinder_linkToDeath
Link(t) ==
    /\ native[t].at = "link"
    /\ IF life = native[t].h
       THEN /\ links' = links \cup {[epoch |-> native[t].epoch, life |-> life]}
            /\ native' = [native EXCEPT ![t].at = "setCallback"]
            /\ UNCHANGED <<connection, gConnectLock>>
       ELSE ConnectFails(t) /\ UNCHANGED links
    /\ UNCHANGED <<hal, calls, admission, queues, deaths>>

\* setCallback: there is one connection per HAL process, so the HAL holds no
\* other callback.
SetCallback(t) ==
    LET n == native[t]
    IN /\ n.at = "setCallback"
       /\ IF life = n.h
          THEN /\ halCallback' = n.epoch
               /\ native' = [native EXCEPT ![t].at = "ready"]
               /\ UNCHANGED <<links, connection, gConnectLock>>
          ELSE /\ links' = {k \in links : k.epoch # n.epoch}   \* unlinkToDeath
               /\ ConnectFails(t)
               /\ UNCHANGED halCallback
       /\ UNCHANGED <<life, lives, halProducer, halToken, halNextToken, calls, admission, queues,
                      deaths>>

\* The connection is usable, unless it died meanwhile.
ConnectionReady(t) ==
    LET current == gConnectionEpoch = native[t].epoch
    IN /\ native[t].at = "ready"
       /\ gConnectionReady' = (current \/ gConnectionReady)
       /\ gConnectLock' = None
       /\ AfterHal(t, IF current THEN native[t].h ELSE 0)
       /\ UNCHANGED <<hal, calls, links, gHal, gConnectionEpoch, gNextConnectionEpoch, admission,
                      queues, deaths>>
----------------------------------------------------------------------------
(***************************************************************************)
(* The native methods, after hal() has returned native[t].h.               *)
(***************************************************************************)

\* nativeGetMaxCameras: FALSE stands for the answers 0 and 1.
MaxCameras(t) ==
    /\ native[t].at = "lock" /\ native[t].method = "getMaxCameras"
    /\ native' = [native EXCEPT ![t] = Returned(life = native[t].h)]
    /\ UNCHANGED <<hal, calls, links, connection, admission, queues, gConnectLock, deaths>>

\* nativeRegisterProducer: the registration is admitted before the HAL has it,
\* so that no callback it causes is lost.
RegisterLock(t) ==
    LET n == native[t]
    IN /\ n.at = "lock" /\ n.method = "registerProducer"
       /\ IF gHal = n.h
          THEN /\ gRegistrations' = [gRegistrations EXCEPT ![n.slot] = n.camera]
               /\ native' = [native EXCEPT ![t] =
                      [@ EXCEPT !.at = "rpc", !.epoch = gConnectionEpoch,
                                !.previous = gRegistrations[n.slot]]]
          ELSE /\ native' = [native EXCEPT ![t] = Returned(FALSE)]
               /\ UNCHANGED gRegistrations
       /\ UNCHANGED <<hal, calls, links, connection, gConfigurations, queues, gConnectLock, deaths>>

RegisterRpc(t) ==
    LET n == native[t]
    IN /\ n.at = "rpc" /\ n.method = "registerProducer"
       /\ IF life = n.h /\ halCallback = n.epoch /\ halProducer[n.slot] = None
                /\ n.camera \in Valid
          THEN /\ halProducer' = [halProducer EXCEPT ![n.slot] = n.camera]
               /\ halToken' = [halToken EXCEPT ![n.slot] = 0]
               /\ native' = [native EXCEPT ![t] = Returned(TRUE)]
          ELSE /\ native' = [native EXCEPT ![t].at = "restore"]
               /\ UNCHANGED <<halProducer, halToken>>
       /\ UNCHANGED <<life, lives, halCallback, halNextToken, calls, links, connection, admission,
                      queues, gConnectLock, deaths>>

\* Mutant of RegisterRestore: the slot is left without a registration.
RegisterRestoreNone(t) ==
    LET n == native[t]
    IN /\ n.at = "restore"
       /\ gRegistrations' = IF gHal = n.h /\ gRegistrations[n.slot] = n.camera
                            THEN [gRegistrations EXCEPT ![n.slot] = None] ELSE gRegistrations
       /\ native' = [native EXCEPT ![t] = Returned(FALSE)]
       /\ UNCHANGED <<hal, calls, links, connection, gConfigurations, queues, gConnectLock, deaths>>

RegisterRestore(t) ==
    LET n == native[t]
    IN /\ n.at = "restore"
       /\ gRegistrations' = IF gHal = n.h /\ gRegistrations[n.slot] = n.camera
                            THEN [gRegistrations EXCEPT ![n.slot] = n.previous]
                            ELSE gRegistrations
       /\ native' = [native EXCEPT ![t] = Returned(FALSE)]
       /\ UNCHANGED <<hal, calls, links, connection, gConfigurations, queues, gConnectLock, deaths>>

\* nativeRemoveProducer: nothing of the slot is admitted from here on.
RemoveLock(t) ==
    LET n == native[t]
    IN /\ n.at = "lock" /\ n.method = "removeProducer"
       /\ IF gHal = n.h /\ gRegistrations[n.slot] = n.camera
          THEN /\ gRegistrations' = [gRegistrations EXCEPT ![n.slot] = None]
               /\ gConfigurations' = [gConfigurations EXCEPT ![n.slot].closed = TRUE]
               /\ native' = [native EXCEPT ![t] =
                      [@ EXCEPT !.at = "rpc", !.epoch = gConnectionEpoch]]
          ELSE /\ native' = [native EXCEPT ![t] = Returned(FALSE)]
               /\ UNCHANGED admission
       /\ UNCHANGED <<hal, calls, links, connection, queues, gConnectLock, deaths>>

RemoveRpc(t) ==
    LET n == native[t]
    IN /\ n.at = "rpc" /\ n.method = "removeProducer"
       /\ IF life = n.h /\ halCallback = n.epoch /\ halProducer[n.slot] = n.camera
          THEN /\ halProducer' = [halProducer EXCEPT ![n.slot] = None]
               /\ halToken' = [halToken EXCEPT ![n.slot] = 0]
          ELSE UNCHANGED <<halProducer, halToken>>
       /\ native' = [native EXCEPT ![t] = Returned(TRUE)]
       /\ UNCHANGED <<life, lives, halCallback, halNextToken, calls, links, connection, admission,
                      queues, gConnectLock, deaths>>

\* nativeSetConfigurationReady, up to its call of the HAL.
ReadyLock(t) ==
    LET n == native[t]
    IN /\ n.at = "lock" /\ n.method = "setConfigurationReady"
       /\ native' = [native EXCEPT ![t] =
              IF gHal = n.h /\ gConnectionEpoch = n.connection THEN [@ EXCEPT !.at = "rpc"]
              ELSE Returned(FALSE)]
       /\ UNCHANGED <<hal, calls, links, connection, admission, queues, gConnectLock, deaths>>

\* A producer that is not ready ends the HAL's configuration.
ReadyRpc(t) ==
    LET n == native[t]
        ok == life = n.h /\ halToken[n.slot] = n.token
    IN /\ n.at = "rpc" /\ n.method = "setConfigurationReady"
       /\ halToken' = IF ok /\ ~n.flag THEN [halToken EXCEPT ![n.slot] = 0] ELSE halToken
       /\ native' = [native EXCEPT ![t] = Returned(ok)]
       /\ UNCHANGED <<life, lives, halCallback, halProducer, halNextToken, calls, links,
                      connection, admission, queues, gConnectLock, deaths>>
----------------------------------------------------------------------------
(***************************************************************************)
(* Relay queues.  A slot's gate serialises what is done to its queue.      *)
(***************************************************************************)

GateFree(s) == gSlotGates[s] = None

\* The configuration (epoch, token) of slot s is the one in force.
InForce(s, epoch, token) ==
    /\ gHal # 0 /\ epoch # 0 /\ gConnectionEpoch = epoch
    /\ token > 0 /\ gConfigurations[s] = [token |-> token, closed |-> FALSE]

\* createRelayQueue takes the gate and looks at the configuration.
SurfaceCheck(t) ==
    LET n == native[t]
    IN /\ n.at = "check" /\ GateFree(n.slot)
       /\ IF InForce(n.slot, n.connection, n.token)
          THEN /\ gSlotGates' = [gSlotGates EXCEPT ![n.slot] = t]
               /\ native' = [native EXCEPT ![t].at = "abandon"]
          ELSE /\ native' = [native EXCEPT ![t] = Returned(FALSE)]
               /\ UNCHANGED gSlotGates
       /\ UNCHANGED <<hal, calls, links, connection, admission, gSlots, gConnectLock, deaths>>

\* Mutant of SurfaceAbandon: an early return that keeps the gate.
SurfaceAbandonKeepsGate(t) ==
    LET n == native[t]
    IN /\ n.at = "abandon"
       /\ IF gHal # 0 /\ gConnectionEpoch = n.connection
          THEN /\ gSlots' = [gSlots EXCEPT ![n.slot] = NoQueue]
               /\ native' = [native EXCEPT ![t].at = "install"]
          ELSE /\ native' = [native EXCEPT ![t] = Returned(FALSE)]
               /\ UNCHANGED gSlots
       /\ UNCHANGED <<hal, calls, links, connection, admission, gSlotGates, gConnectLock, deaths>>

\* With the new queue made, the old one is abandoned, if the connection is
\* still there.
SurfaceAbandon(t) ==
    LET n == native[t]
    IN /\ n.at = "abandon"
       /\ IF gHal # 0 /\ gConnectionEpoch = n.connection
          THEN /\ gSlots' = [gSlots EXCEPT ![n.slot] = NoQueue]
               /\ native' = [native EXCEPT ![t].at = "install"]
               /\ UNCHANGED gSlotGates
          ELSE /\ gSlotGates' = [gSlotGates EXCEPT ![n.slot] = None]
               /\ native' = [native EXCEPT ![t] = Returned(FALSE)]
               /\ UNCHANGED gSlots
       /\ UNCHANGED <<hal, calls, links, connection, admission, gConnectLock, deaths>>

\* The queue is installed under gLock, against the death of the connection.
SurfaceInstall(t) ==
    LET n == native[t]
    IN /\ n.at = "install"
       /\ IF InForce(n.slot, n.connection, n.token)
          THEN /\ gSlots' = [gSlots EXCEPT ![n.slot] =
                                [connection |-> n.connection, token |-> n.token]]
               /\ native' = [native EXCEPT ![t] = Returned(TRUE)]
          ELSE /\ native' = [native EXCEPT ![t] = Returned(FALSE)]
               /\ UNCHANGED gSlots
       /\ gSlotGates' = [gSlotGates EXCEPT ![n.slot] = None]
       /\ UNCHANGED <<hal, calls, links, connection, admission, gConnectLock, deaths>>

\* releaseQueue; 0 stands for any connection, and for any token.
QueueReleased(s, epoch, token) ==
    LET q == gSlots[s]
    IN gSlots' = IF (epoch # 0 /\ q.connection # epoch) \/ (token # 0 /\ q.token # token)
                 THEN gSlots ELSE [gSlots EXCEPT ![s] = NoQueue]

ReleaseSurface(t) ==
    LET n == native[t]
    IN /\ n.at = "release" /\ GateFree(n.slot)
       /\ QueueReleased(n.slot, n.connection, n.token)
       /\ native' = [native EXCEPT ![t] = Returned(TRUE)]
       /\ UNCHANGED <<hal, calls, links, connection, admission, gSlotGates, gConnectLock, deaths>>

\* onFrameAvailable cannot know whether a HAL that died took its frame.
FrameFails(s) ==
    /\ GateFree(s) /\ gSlots[s] # NoQueue
    /\ gHal # 0 /\ gConnectionEpoch = gSlots[s].connection
    /\ life # gHal
    /\ gSlots' = [gSlots EXCEPT ![s] = NoQueue]
    /\ UNCHANGED <<hal, calls, links, connection, admission, gSlotGates, gConnectLock, deaths,
                   native>>
----------------------------------------------------------------------------
(***************************************************************************)
(* onHalDiedCb.                                                            *)
(***************************************************************************)

\* The death of a linked process is reported, at any time after it.
HalDied(k) ==
    /\ k \in links /\ life # k.life
    /\ links' = links \ {k}
    /\ IF gHal # 0 /\ gConnectionEpoch = k.epoch
       THEN /\ gHal' = 0 /\ gConnectionEpoch' = 0 /\ gConnectionReady' = FALSE
            /\ deaths' = deaths \cup {[epoch |-> k.epoch, slots |-> Slots]}
       ELSE UNCHANGED <<gHal, gConnectionEpoch, gConnectionReady, deaths>>
    /\ UNCHANGED <<hal, calls, gNextConnectionEpoch, admission, queues, gConnectLock, native>>

\* Mutant of DeathReleases: a slot whose gate is taken is passed over.
DeathReleasesIfFree(d, s) ==
    /\ d \in deaths /\ s \in d.slots /\ \A r \in d.slots : s <= r
    /\ IF GateFree(s) THEN QueueReleased(s, d.epoch, 0) ELSE UNCHANGED gSlots
    /\ deaths' = (deaths \ {d}) \cup {[d EXCEPT !.slots = @ \ {s}]}
    /\ UNCHANGED <<hal, calls, links, connection, admission, gSlotGates, gConnectLock, native>>

\* The queues of the dead connection are released one after the other.
DeathReleases(d, s) ==
    /\ d \in deaths /\ s \in d.slots /\ \A r \in d.slots : s <= r
    /\ GateFree(s)
    /\ QueueReleased(s, d.epoch, 0)
    /\ deaths' = (deaths \ {d}) \cup {[d EXCEPT !.slots = @ \ {s}]}
    /\ UNCHANGED <<hal, calls, links, connection, admission, gSlotGates, gConnectLock, native>>
----------------------------------------------------------------------------
\* Java enters a native method.  The methods that use the HAL begin with
\* hal(); the other two begin at a slot's gate.
Enter(t, method, at, slot, camera, conn, token, flag) ==
    /\ native[t].at = "java"
    /\ native' = [native EXCEPT ![t] =
           [Returned(FALSE) EXCEPT !.at = at, !.method = method, !.slot = slot, !.camera = camera,
                                   !.connection = conn, !.token = token, !.flag = flag]]

IsHalUp(t)              == Enter(t, "isHalUp", "hal", 0, None, 0, 0, FALSE)
GetMaxCameras(t)        == Enter(t, "getMaxCameras", "hal", 0, None, 0, 0, FALSE)
RegisterProducer(t, s, c) == Enter(t, "registerProducer", "hal", s, c, 0, 0, FALSE)
RemoveProducer(t, s, c) == Enter(t, "removeProducer", "hal", s, c, 0, 0, FALSE)
SetConfigurationReady(t, s, conn, token, ready) ==
    Enter(t, "setConfigurationReady", "hal", s, None, conn, token, ready)
CreateSurface(t, s, conn, token)  == Enter(t, "createSurface", "check", s, None, conn, token, FALSE)
ReleaseSurfaceOf(t, s, conn, token) ==
    Enter(t, "releaseSurface", "release", s, None, conn, token, FALSE)

NativeStep(t) ==
    \/ HalCached(t) \/ HalAbsent(t) \/ Connect(t) \/ Link(t) \/ SetCallback(t) \/ ConnectionReady(t)
    \/ MaxCameras(t)
    \/ RegisterLock(t) \/ RegisterRpc(t) \/ RegisterRestore(t)
    \/ RemoveLock(t) \/ RemoveRpc(t)
    \/ ReadyLock(t) \/ ReadyRpc(t)
    \/ SurfaceCheck(t) \/ SurfaceAbandon(t) \/ SurfaceInstall(t)
    \/ ReleaseSurface(t)

Hal ==
    \/ HalStart
    \/ HalCrash
    \/ \E s \in Slots : HalConfigure(s) \/ HalClose(s)

Relay ==
    \/ \E k \in calls : Admit(k)
    \/ \E k \in links : HalDied(k)
    \/ \E d \in deaths, s \in Slots : DeathReleases(d, s)
    \/ \E s \in Slots : FrameFails(s)
    \/ \E t \in Threads : NativeStep(t)

RelayNext == Hal \/ Relay

\* A caller that keeps to one thread per slot for what concerns the slot.
SlotCalls(s) ==
    \/ IsHalUp(s)
    \/ \E c \in Cameras : RegisterProducer(s, s, c) \/ RemoveProducer(s, s, c)
    \/ \E e \in 1 .. gNextConnectionEpoch, k \in 1 .. MaxTokens : CreateSurface(s, s, e, k)
    \/ \E e \in 0 .. gNextConnectionEpoch, k \in 0 .. MaxTokens : ReleaseSurfaceOf(s, s, e, k)

ClientCalls(t) ==
    \/ IsHalUp(t) \/ GetMaxCameras(t)
    \/ \E s \in Slots, e \in 1 .. gNextConnectionEpoch, k \in 1 .. MaxTokens, ready \in BOOLEAN :
           SetConfigurationReady(t, s, e, k, ready)

\* Java has looked at what its native method returned.
Consume(t) ==
    /\ native[t].at = "java"
    /\ native' = [native EXCEPT ![t] = Returned(FALSE)]

\* What Java does with an admitted callback, and with a death, is left open.  It
\* may keep the callback for a while.
Dropped(k) == calls' = calls \ {k}
Accepted(k) == calls' = (calls \ {k}) \cup {[k EXCEPT !.at = "accepted"]}

Delivered ==
    \/ \E k \in calls : k.at = "admitted" /\ (Dropped(k) \/ Accepted(k)) /\ UNCHANGED deaths
    \/ \E k \in calls : k.at = "accepted" /\ Dropped(k) /\ UNCHANGED deaths
    \/ \E d \in deaths : d.slots = {} /\ deaths' = deaths \ {d} /\ UNCHANGED calls

AnyJava ==
    \/ /\ \/ \E s \in Slots : SlotCalls(s)
          \/ \E t \in Clients : ClientCalls(t)
          \/ \E t \in Threads : Consume(t)
       /\ UNCHANGED <<hal, calls, links, connection, admission, queues, gConnectLock, deaths>>
    \/ /\ Delivered
       /\ UNCHANGED <<hal, links, connection, admission, queues, gConnectLock, native>>

Next == RelayNext \/ AnyJava

Spec == RelayInit /\ [][Next]_relayVars

\* Threads run, and a process's death is reported.
Fairness ==
    /\ \A t \in Threads : WF_relayVars(NativeStep(t))
    /\ WF_relayVars(\E k \in links : HalDied(k))
    /\ WF_relayVars(\E d \in deaths, s \in Slots : DeathReleases(d, s))

FairSpec == Spec /\ Fairness
----------------------------------------------------------------------------
Methods == {"none", "isHalUp", "getMaxCameras", "registerProducer", "removeProducer",
            "setConfigurationReady", "createSurface", "releaseSurface"}
Steps == {"java", "hal", "link", "setCallback", "ready", "lock", "rpc", "restore", "check",
          "abandon", "install", "release"}
Registration == Cameras \cup {None}
Calls == [slot : Slots, registration : Cameras, token : 1 .. MaxTokens, closed : BOOLEAN,
          epoch : 1 .. MaxLives, at : {"sent", "admitted", "accepted"}]

\* The state of VirtualCameraRelayJni.cpp:66-110 and of its threads.  Every
\* connection is to a HAL process of its own.
RelayTypeOK ==
    /\ life \in 0 .. lives /\ lives \in 0 .. MaxLives
    /\ halCallback \in 0 .. gNextConnectionEpoch
    /\ halProducer \in [Slots -> Registration]
    /\ halToken \in [Slots -> 0 .. MaxTokens]
    /\ halNextToken \in 0 .. MaxTokens
    /\ calls \subseteq Calls
    /\ links \subseteq [epoch : 1 .. gNextConnectionEpoch, life : 1 .. lives]
    /\ gHal \in 0 .. lives
    /\ gNextConnectionEpoch \in 0 .. lives
    /\ gConnectionEpoch \in 0 .. gNextConnectionEpoch
    /\ gConnectionReady \in BOOLEAN
    /\ gRegistrations \in [Slots -> Registration]
    /\ gConfigurations \in [Slots -> [token : 0 .. MaxTokens, closed : BOOLEAN]]
    /\ gSlots \in [Slots -> [connection : 0 .. gNextConnectionEpoch, token : 0 .. MaxTokens]]
    /\ gConnectLock \in Threads \cup {None}
    /\ gSlotGates \in [Slots -> Threads \cup {None}]
    /\ deaths \subseteq [epoch : 1 .. gNextConnectionEpoch, slots : SUBSET Slots]
    /\ native \in [Threads ->
           [at : Steps, method : Methods, slot : Slots, camera : Registration,
            connection : 0 .. gNextConnectionEpoch, token : 0 .. MaxTokens, flag : BOOLEAN,
            h : 0 .. lives, epoch : 0 .. gNextConnectionEpoch, previous : Registration,
            ok : BOOLEAN]]

\* A relay queue does not outlive its connection: an installed queue belongs to
\* the current connection, or to one whose death is being cleaned up and has not
\* reached the slot.  (VirtualCameraRelayJni.cpp:374, "linearize installation
\* against connection death".)
QueueOfConnection ==
    \A s \in Slots :
        gSlots[s] # NoQueue
            => \/ gConnectionEpoch = gSlots[s].connection
               \/ \E d \in deaths : d.epoch = gSlots[s].connection /\ s \in d.slots

\* While the HAL of the current connection has a producer registered, that
\* producer's callbacks are admitted, except while the slot's own thread is
\* registering another one or removing this one.
RegistrationAgrees ==
    \A s \in Slots :
        life # 0 /\ gHal = life /\ halProducer[s] # None
            => \/ gRegistrations[s] = halProducer[s]
               \/ native[s].method = "registerProducer" /\ native[s].at \in {"rpc", "restore"}
                      /\ native[s].previous = halProducer[s]
               \/ native[s].method = "removeProducer" /\ native[s].at = "rpc"
                      /\ native[s].camera = halProducer[s]

\* A half-open connection always has a thread that will complete or undo it, and
\* a complete one to a living HAL has its callback there and its death linked.
ConnectionOwned ==
    /\ gHal # 0 /\ ~gConnectionReady
           => /\ gConnectLock # None
              /\ native[gConnectLock].at \in {"link", "setCallback", "ready"}
              /\ native[gConnectLock].epoch = gConnectionEpoch
    /\ Connected
           => /\ [epoch |-> gConnectionEpoch, life |-> gHal] \in links
              /\ gHal = life => halCallback = gConnectionEpoch

\* A thread that enters the relay leaves it again: nobody waits for ever on
\* gConnectLock or on a slot's gate, whatever dies meanwhile.
NativeReturns == \A t \in Threads : native[t].at # "java" ~> native[t].at = "java"
=============================================================================
