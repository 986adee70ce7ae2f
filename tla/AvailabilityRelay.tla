-------------------------- MODULE AvailabilityRelay --------------------------
(***************************************************************************)
(* How "a producer is registered" becomes "a camera is present" in the     *)
(* platform-relay build: the cameras and the HAL listener of               *)
(* VirtualCameraService in system_server, the thread of AvailabilityBridge *)
(* and its death recipient, the provider's presence flag and what the      *)
(* camera framework was told.  Both processes die and come back.           *)
(*                                                                         *)
(* A notification reads its value under one lock, is sent without it, and  *)
(* ends in the provider as an exchange of the flag followed, outside any   *)
(* lock again, by a report: each of these is a step of the call.           *)
(***************************************************************************)
EXTENDS Naturals, FiniteSets

CONSTANTS
    Cameras,      \* numbers of producers' registrations
    Threads,      \* threads of system_server that register and remove
    None,
    NumSlots,     \* MAX_SLOTS (4)
    MaxManagers,  \* bound: incarnations of system_server
    MaxHals       \* bound: incarnations of the HAL

ASSUME AvailabilityConstants ==
    /\ MaxManagers \in Nat \ {0} /\ MaxHals \in Nat \ {0} /\ NumSlots \in Nat \ {0}
    /\ {"push", "obituary"} \cap Threads = {}
    /\ None \notin Nat \X Nat    \* no listener: <<incarnation, number>>
    /\ Cameras \subseteq Nat /\ None \notin Cameras

\* The calls that end in setProducerPresent: a service thread's notification,
\* setHalListener's push of the current state, and the manager's obituary.
Push  == "push"
Obituary == "obituary"
Calls == Threads \cup {Push, Obituary}
Slots == 0 .. NumSlots - 1

VARIABLES
    service,   \* incarnation, up, mCameras, the slots' owners, the camera each thread
               \* found no slot for, mHalListener, listeners linked
    call,      \* step, listener and value of each call
    bridge,    \* the thread's step, mConnected and mManager, the binder found
    links,     \* obituaries owed to the HAL, per incarnation of the manager
    hal,       \* incarnation, up, mProducerPresent, mCallback, listeners made
    view,      \* the camera framework: list read, device present
    raced,     \* history: a value was read while another was on its way
    missed     \* history: since the last read, a camera got a slot and nobody was told

vars == <<service, call, bridge, links, hal, view, raced, missed>>

NoCall == [pc |-> "idle", listener |-> None, value |-> FALSE]

Init ==
    /\ service = [n |-> 0, up |-> FALSE, cameras |-> {}, slots |-> [s \in Slots |-> None],
                  unplaced |-> [t \in Threads |-> None], listener |-> None, linked |-> {}]
    /\ call = [x \in Calls |-> NoCall]
    /\ bridge = [pc |-> "off", connected |-> FALSE, manager |-> None, binder |-> None,
                 listener |-> None]
    /\ links = [n \in 1..MaxManagers |-> 0]
    /\ hal = [n |-> 0, up |-> FALSE, present |-> FALSE, callback |-> FALSE, made |-> 0]
    /\ view = [listed |-> FALSE, present |-> FALSE]
    /\ raced = FALSE /\ missed = FALSE

-----------------------------------------------------------------------------
Alive(n) == service.up /\ service.n = n
OfHal(l) == hal.up /\ l # None /\ l[1] = hal.n
InFlight == \E x \in Calls: call[x].pc \in {"send", "enter", "report"}
Available(cameras) == cameras # {}
HasSlot(c) == \E s \in Slots: service.slots[s] = c
Placed == \E c \in service.cameras: HasSlot(c)

\* mLock of the bridge: the thread has it whenever it is not in wait_for.  Not
\* connected it never is: the predicate holds already, wait_for returns without
\* having waited, and the loop tries the next connection under the same lock.
LockFree == bridge.pc = "wait"

\* A call starts with the value read for it.
Begin(x, pc, l, value) ==
    /\ call' = [call EXCEPT ![x] = [pc |-> pc, listener |-> l, value |-> value]]
    /\ raced' = (raced \/ InFlight)

\* So does a notification, with what is registered now.
Reads(x, l, value) == Begin(x, "send", l, value) /\ missed' = FALSE

-----------------------------------------------------------------------------
\* The platform service.

\* The caller has released mLock and goes on to notify.
Notifies(t) == call' = [call EXCEPT ![t] = [NoCall EXCEPT !.pc = "notify"]]

\* A new registration has a number that nothing refers to: of those, the lowest.
Unused(c) == /\ c \notin service.cameras /\ ~HasSlot(c)
             /\ \A t \in Threads: service.unplaced[t] # c
New(c) == Unused(c) /\ \A d \in Cameras: Unused(d) => c <= d

\* registerCamera: the camera enters the registry, with the lowest free slot or
\* without one.  Only a camera with a slot notifies, and only if the registry was
\* empty - which it is not while a camera without a slot is in it.
RegisterCamera(t, c, max) ==
    LET free == {s \in Slots: s < max /\ service.slots[s] = None}
    IN /\ service.up /\ call[t].pc = "idle" /\ service.unplaced[t] = None /\ New(c)
       /\ \/ \E s \in free:
                /\ \A r \in free: s <= r
                /\ service' = [service EXCEPT !.cameras = @ \cup {c}, !.slots[s] = c]
                /\ IF service.cameras = {} THEN Notifies(t) ELSE UNCHANGED call
                /\ missed' = (missed \/ (service.cameras # {} /\ ~Placed))
          \/ /\ free = {}
             /\ service' = [service EXCEPT !.cameras = @ \cup {c}, !.unplaced[t] = c]
             /\ UNCHANGED <<call, missed>>
       /\ UNCHANGED <<bridge, links, hal, view, raced>>

\* Mutant of Removal: only a camera with a slot notifies.
RemovalOfPlaced(t, c) ==
    /\ IF c \in service.cameras /\ HasSlot(c) THEN Notifies(t) ELSE UNCHANGED call
    /\ UNCHANGED <<bridge, links, hal, view, raced, missed>>

\* removeCamera: one with a slot always notifies, and its slot stays reserved; one
\* without notifies if it was the last.
Removal(t, c) ==
    /\ IF c \in service.cameras /\ (HasSlot(c) \/ service.cameras = {c})
       THEN Notifies(t) ELSE UNCHANGED call
    /\ UNCHANGED <<bridge, links, hal, view, raced, missed>>

RemoveCamera(t, c) ==
    /\ service.up /\ call[t].pc = "idle" /\ service.unplaced[t] = None
    /\ c \in service.cameras
    /\ service' = [service EXCEPT !.cameras = @ \ {c}]
    /\ Removal(t, c)

\* registerCamera takes the camera it found no slot for out again, unless its
\* app's death has.
RefuseRegistration(t) ==
    LET c == service.unplaced[t]
    IN /\ c # None /\ call[t].pc = "idle"
       /\ service' = [service EXCEPT !.cameras = @ \ {c}, !.unplaced[t] = None]
       /\ Removal(t, c)

\* The slot's executor ends the teardown.
FinishClose(s) ==
    /\ service.slots[s] # None /\ service.slots[s] \notin service.cameras
    /\ service' = [service EXCEPT !.slots[s] = None]
    /\ UNCHANGED <<call, bridge, links, hal, view, raced, missed>>

\* notifyHalAvailability: listener and state are read together under mLock.
NotifyHalAvailability(t) ==
    /\ call[t].pc = "notify"
    /\ IF service.listener = None
       THEN call' = [call EXCEPT ![t] = NoCall] /\ UNCHANGED <<raced, missed>>
       ELSE Reads(t, service.listener, Available(service.cameras))
    /\ UNCHANGED <<service, bridge, links, hal, view>>

Dropped(l) == [service EXCEPT !.listener = IF @ = l THEN None ELSE @]

\* The call reaches the HAL's process, or fails and drops its own listener.
SendAvailability(t) ==
    /\ call[t].pc = "send"
    /\ IF OfHal(call[t].listener)
       THEN call' = [call EXCEPT ![t].pc = "enter"] /\ UNCHANGED service
       ELSE call' = [call EXCEPT ![t] = NoCall] /\ service' = Dropped(call[t].listener)
    /\ UNCHANGED <<bridge, links, hal, view, raced, missed>>

\* Mutant of ListenerDied: whichever listener is set is cleared.
AnyListenerDied(l) ==
    /\ l \in service.linked /\ ~OfHal(l)
    /\ service' = [service EXCEPT !.listener = None, !.linked = @ \ {l}]
    /\ UNCHANGED <<call, bridge, links, hal, view, raced, missed>>

\* The listener's death recipient compares before it clears.
ListenerDied(l) ==
    /\ l \in service.linked /\ ~OfHal(l)
    /\ service' = [Dropped(l) EXCEPT !.linked = @ \ {l}]
    /\ UNCHANGED <<call, bridge, links, hal, view, raced, missed>>

-----------------------------------------------------------------------------
\* The bridge's thread: one attempt to connect, all of it under mLock.

CheckService ==
    /\ bridge.pc = "check" /\ service.up
    /\ bridge' = [bridge EXCEPT !.pc = "link", !.binder = service.n]
    /\ UNCHANGED <<service, call, links, hal, view, raced, missed>>

\* Linking to a binder already dead owes no obituary, and is not noticed.
LinkToDeath ==
    /\ bridge.pc = "link"
    /\ bridge' = [bridge EXCEPT !.pc = "set"]
    /\ links' = IF Alive(bridge.binder) THEN [links EXCEPT ![bridge.binder] = @ + 1] ELSE links
    /\ UNCHANGED <<service, call, hal, view, raced, missed>>

\* A failed attempt unlinks, unless the obituary has left already.
ConnectFails ==
    /\ links' = [links EXCEPT ![bridge.binder] = IF @ = 0 THEN 0 ELSE @ - 1]
    /\ bridge' = [bridge EXCEPT !.pc = "check", !.binder = None]

\* setHalListener in the service: the listener is set and linked, the state read.
SetHalListener ==
    /\ bridge.pc = "set"
    /\ IF Alive(bridge.binder)
       THEN LET l == <<hal.n, hal.made>> IN
            /\ service' = [service EXCEPT !.listener = l, !.linked = @ \cup {l}]
            /\ Reads(Push, l, Available(service.cameras))
            /\ bridge' = [bridge EXCEPT !.pc = "push", !.listener = l]
            /\ hal' = [hal EXCEPT !.made = @ + 1]
            /\ UNCHANGED links
       ELSE ConnectFails /\ UNCHANGED <<service, call, hal, raced, missed>>
    /\ UNCHANGED <<view>>

\* The push is a nested call, run by the bridge's own thread.
SendPush ==
    /\ bridge.pc = "push" /\ call[Push].pc = "send"
    /\ call' = [call EXCEPT ![Push].pc = "enter"]
    /\ UNCHANGED <<service, bridge, links, hal, view, raced, missed>>

\* setHalListener returns: connected, or the manager died meanwhile.
ConnectReturns ==
    /\ bridge.pc = "push" /\ call[Push].pc \in {"idle", "done"}
    /\ call' = [call EXCEPT ![Push] = NoCall]
    /\ IF Alive(bridge.binder)
       THEN /\ bridge' = [bridge EXCEPT !.pc = "wait", !.connected = TRUE,
                                        !.manager = bridge.binder, !.binder = None]
            /\ UNCHANGED links
       ELSE ConnectFails
    /\ UNCHANGED <<service, hal, view, raced, missed>>

\* wait_for ends without a notification: spuriously, or after an hour.
Wakes ==
    /\ bridge.pc = "wait" /\ ~bridge.connected
    /\ bridge' = [bridge EXCEPT !.pc = "check"]
    /\ UNCHANGED <<service, call, links, hal, view, raced, missed>>

-----------------------------------------------------------------------------
\* The bridge's death recipient.

\* binderDied is dispatched, and waits for mLock.
ObituaryArrives(n) ==
    /\ links[n] > 0 /\ ~Alive(n) /\ hal.up /\ call[Obituary].pc = "idle"
    /\ links' = [links EXCEPT ![n] = @ - 1]
    /\ call' = [call EXCEPT ![Obituary].pc = "lock"]
    /\ UNCHANGED <<service, bridge, hal, view, raced, missed>>

\* onManagerDied does not ask which manager died.
OnManagerDied ==
    /\ call[Obituary].pc = "lock" /\ LockFree
    /\ bridge' = [bridge EXCEPT !.connected = FALSE, !.manager = None, !.listener = None]
    /\ Begin(Obituary, "enter", None, FALSE)
    /\ UNCHANGED <<service, links, hal, view, missed>>

\* Mutant of NotifyThread: nobody wakes the thread.
NotifyNobody ==
    /\ call[Obituary].pc = "done"
    /\ call' = [call EXCEPT ![Obituary] = NoCall]
    /\ UNCHANGED <<service, bridge, links, hal, view, raced, missed>>

\* After the callback the thread is woken to reconnect.
NotifyThread ==
    /\ call[Obituary].pc = "done"
    /\ call' = [call EXCEPT ![Obituary] = NoCall]
    /\ bridge' = IF bridge.pc = "wait" /\ ~bridge.connected
                 THEN [bridge EXCEPT !.pc = "check"] ELSE bridge
    /\ UNCHANGED <<service, links, hal, view, raced, missed>>

-----------------------------------------------------------------------------
\* The provider.

After(x) == [pc |-> IF x \in Threads THEN "idle" ELSE "done", listener |-> None, value |-> FALSE]

\* setSlotPresent(0, value): the exchange, with its early return.
Exchange(x) ==
    /\ call[x].pc = "enter"
    /\ hal' = [hal EXCEPT !.present = call[x].value]
    /\ IF hal.present = call[x].value
       THEN call' = [call EXCEPT ![x] = After(x)]
       ELSE call' = [call EXCEPT ![x].pc = "report"]
    /\ UNCHANGED <<service, bridge, links, view, raced, missed>>

\* The rest of setSlotPresent: cameraDeviceStatusChange, once there is a callback.
Report(x) ==
    /\ call[x].pc = "report"
    /\ view' = IF hal.callback THEN [view EXCEPT !.present = call[x].value] ELSE view
    /\ call' = [call EXCEPT ![x] = After(x)]
    /\ UNCHANGED <<service, bridge, links, hal, raced, missed>>

SetCallback ==
    /\ hal.up /\ ~hal.callback
    /\ hal' = [hal EXCEPT !.callback = TRUE]
    /\ UNCHANGED <<service, call, bridge, links, view, raced, missed>>

GetCameraIdList ==
    /\ hal.callback /\ ~view.listed
    /\ view' = [listed |-> TRUE, present |-> hal.present]
    /\ UNCHANGED <<service, call, bridge, links, hal, raced, missed>>

-----------------------------------------------------------------------------
\* Processes come and go.  A call that has reached the HAL runs on when its
\* sender dies; a call whose HAL dies fails in its sender.

ServiceStarts ==
    /\ ~service.up /\ service.n < MaxManagers
    /\ service' = [service EXCEPT !.n = @ + 1, !.up = TRUE]
    /\ UNCHANGED <<call, bridge, links, hal, view, raced, missed>>

ServiceDies ==
    /\ service.up /\ service.n < MaxManagers
    /\ service' = [service EXCEPT !.up = FALSE, !.cameras = {}, !.slots = [s \in Slots |-> None],
                                  !.unplaced = [t \in Threads |-> None], !.listener = None,
                                  !.linked = {}]
    /\ call' = [x \in Calls |-> IF x # Obituary /\ call[x].pc \in {"notify", "send"}
                                THEN NoCall ELSE call[x]]
    /\ missed' = FALSE
    /\ UNCHANGED <<bridge, links, hal, view, raced>>

\* The provider's constructor starts the bridge.
HalStarts ==
    /\ ~hal.up /\ hal.n < MaxHals
    /\ hal' = [hal EXCEPT !.n = @ + 1, !.up = TRUE, !.made = 0]
    /\ bridge' = [bridge EXCEPT !.pc = "check"]
    /\ UNCHANGED <<service, call, links, view, raced, missed>>

HalDies ==
    /\ hal.up /\ hal.n < MaxHals
    /\ hal' = [hal EXCEPT !.up = FALSE, !.present = FALSE, !.callback = FALSE]
    /\ bridge' = [pc |-> "off", connected |-> FALSE, manager |-> None, binder |-> None,
                  listener |-> None]
    /\ call' = [x \in Calls |->
                  IF x \notin Threads THEN NoCall
                  ELSE IF call[x].pc \in {"enter", "report"} THEN [call[x] EXCEPT !.pc = "send"]
                  ELSE call[x]]
    /\ links' = [n \in 1..MaxManagers |-> 0]
    /\ view' = [listed |-> FALSE, present |-> FALSE]
    /\ raced' = FALSE /\ missed' = FALSE
    /\ UNCHANGED service

-----------------------------------------------------------------------------
Service(t) == RefuseRegistration(t) \/ NotifyHalAvailability(t) \/ SendAvailability(t)
Thread == CheckService \/ LinkToDeath \/ SetHalListener \/ SendPush \/ ConnectReturns
Deliver(x) == Exchange(x) \/ Report(x)
Death == (\E n \in 1..MaxManagers: ObituaryArrives(n)) \/ OnManagerDied \/ NotifyThread

Next ==
    \/ \E t \in Threads, c \in Cameras:
          RemoveCamera(t, c) \/ \E max \in 1..NumSlots: RegisterCamera(t, c, max)
    \/ \E s \in Slots: FinishClose(s)
    \/ \E t \in Threads: Service(t)
    \/ \E l \in service.linked: ListenerDied(l)
    \/ Thread \/ Wakes \/ Death
    \/ \E x \in Calls: Deliver(x)
    \/ SetCallback \/ GetCameraIdList
    \/ ServiceStarts \/ ServiceDies \/ HalStarts \/ HalDies

\* The HAL's threads run; nothing is asked of the service's but to answer the HAL.
\* Neither process need ever start or die, no camera need come or go, and a
\* sleeping thread cannot count on its hour.
Fairness ==
    /\ \A x \in {Push, Obituary}: WF_vars(Deliver(x))
    /\ WF_vars(Thread) /\ WF_vars(Death)

Spec == Init /\ [][Next]_vars /\ Fairness

-----------------------------------------------------------------------------
\* While the bridge counts itself connected to a manager that lives, that manager
\* pushes to the listener of this connection: no earlier listener's death or
\* failed call took it away (AvailabilityBridge.cpp:90-122 against the two
\* clearings in VirtualCameraService.java:361-365, 422-427).
ConnectedIsListened ==
    bridge.connected /\ Alive(bridge.manager) =>
        bridge.listener # None /\ service.listener = bridge.listener

Settled ==
    /\ bridge.connected /\ Alive(bridge.manager) /\ view.listed
    /\ \A x \in Calls: call[x].pc = "idle"
    /\ \A t \in Threads: service.unplaced[t] = None

\* Once connected and quiet, the framework shows the camera exactly when some
\* producer is registered, through any restarts of either process - with two
\* exceptions, of which the code has no third (VirtualCameraService.java:59-60,
\* "Pushed on every 0<->N producer transition").  Nothing is said once a value was
\* read while another was still on its way to the framework.  And the camera is
\* not shown, though never shown wrongly, after a registration that found only
\* cameras without a slot in the registry, until something makes the state be read.
SettledViewAgrees ==
    Settled /\ ~raced =>
        /\ view.present => Available(service.cameras)
        /\ Available(service.cameras) /\ ~missed => view.present

\* A manager that stays up is connected to, whatever deaths came before, stale
\* obituaries included (the loop of AvailabilityBridge.cpp:124-134).
Reconnects ==
    (service.up /\ hal.up) ~> \/ bridge.connected /\ Alive(bridge.manager)
                              \/ ~service.up \/ ~hal.up

\* AvailabilityBridge.h:13-14: "Handles system_server not being up yet (retry loop)
\* and system_server restarts (binder death -> availability=false, then
\* reconnect)."  An obituary that has arrived reaches its callback.
DeathIsReported == (call[Obituary].pc = "lock") ~> (call[Obituary].pc # "lock")
=============================================================================
