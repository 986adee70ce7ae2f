----------------------- MODULE AvailabilityRelay_proofs -----------------------
(***************************************************************************)
(* Proofs about the platform-relay build's availability: a connected       *)
(* bridge is listened to, and a quiet framework shows what is registered,  *)
(* whatever the numbers of cameras, threads and lives of both processes.   *)
(***************************************************************************)
EXTENDS AvailabilityRelay, TLAPS

Listeners == Nat \X Nat

ServiceType == [n: Nat, up: BOOLEAN, cameras: SUBSET Cameras,
                slots: [Slots -> Cameras \cup {None}],
                unplaced: [Threads -> Cameras \cup {None}],
                listener: Listeners \cup {None}, linked: SUBSET Listeners]

CallType == [pc: {"idle", "notify", "lock", "send", "enter", "report", "done"},
             listener: Listeners \cup {None}, value: BOOLEAN]

BridgeType == [pc: {"off", "check", "link", "set", "push", "wait"}, connected: BOOLEAN,
               manager: Nat \cup {None}, binder: Nat \cup {None},
               listener: Listeners \cup {None}]

HalType == [n: Nat, up: BOOLEAN, present: BOOLEAN, callback: BOOLEAN, made: Nat]

ViewType == [listed: BOOLEAN, present: BOOLEAN]

TypeOK ==
    /\ service \in ServiceType /\ call \in [Calls -> CallType] /\ bridge \in BridgeType
    /\ hal \in HalType /\ view \in ViewType
    /\ raced \in BOOLEAN /\ missed \in BOOLEAN

\* Which steps each kind of call takes.
Steps ==
    /\ \A t \in Threads: call[t].pc \notin {"lock", "done"}
    /\ call[Push].pc \notin {"lock", "notify"}
    /\ call[Obituary].pc \notin {"notify", "send"}
    /\ call[Push].pc # "idle" => bridge.pc = "push"
    /\ call[Push].pc = "send" => OfHal(call[Push].listener)

\* What lives in the HAL's process is there only while it is up.
Grounded ==
    /\ ~hal.up => /\ bridge.pc = "off"
                  /\ \A x \in Calls: call[x].pc \notin {"enter", "report"}
    /\ view.listed => hal.callback
    /\ \A x \in Calls: x # Obituary /\ call[x].pc \in {"send", "enter", "report"}
            => call[x].listener \in (0..hal.n) \X Nat
    /\ service.listener # None => service.listener \in (0..hal.n) \X Nat

\* Managers the bridge knows of have been started.
Known ==
    /\ service.up => service.n > 0
    /\ bridge.connected => bridge.pc = "wait" /\ bridge.manager \in 1..service.n
    /\ bridge.pc \in {"link", "set", "push"} => bridge.binder \in 1..service.n

\* From setHalListener on, while that manager lives.
Linked == \/ bridge.pc = "push" /\ Alive(bridge.binder)
          \/ bridge.connected /\ Alive(bridge.manager)

Listened == Linked => bridge.listener = service.listener /\ OfHal(bridge.listener)

\* A value on its way that this HAL can still receive.
Flying(x) == \/ call[x].pc \in {"enter", "report"}
             \/ call[x].pc = "send" /\ OfHal(call[x].listener)

OneFlies == ~raced => \A x, y \in Calls: Flying(x) /\ Flying(y) => x = y

\* The presence flag is what is reported, and what the framework shows once no
\* report is owed.
Reported == ~raced => \A x \in Calls: call[x].pc = "report" => call[x].value = hal.present

Shown == ~raced /\ view.listed /\ (\A x \in Calls: call[x].pc # "report")
            => view.present = hal.present

\* A value that shows no camera where none is registered, and shows one where a
\* registered camera has a slot that somebody was told of.
Agrees(v) == (v => Available(service.cameras)) /\ (Placed /\ ~missed => v)

\* Once nobody is about to read the state, the value on its way agrees with it,
\* and when none is on its way the flag does.
Read == \A t \in Threads: call[t].pc # "notify"

Tracked ==
    ~raced /\ Linked /\ Read =>
        /\ \A x \in Calls: Flying(x) => Agrees(call[x].value)
        /\ (\A x \in Calls: ~Flying(x)) => Agrees(hal.present)

\* Every registered camera has a slot, or a thread that will take it out again.
Accounted == \A c \in service.cameras: HasSlot(c) \/ \E t \in Threads: service.unplaced[t] = c

IInv == /\ TypeOK /\ Steps /\ Grounded /\ Known
        /\ Listened /\ OneFlies /\ Reported /\ Shown /\ Tracked
-----------------------------------------------------------------------------
LEMMA CallTyped ==
    ASSUME call \in [Calls -> CallType], NEW x \in Calls, NEW c \in CallType
    PROVE  [call EXCEPT ![x] = c] \in [Calls -> CallType]
  OBVIOUS

LEMMA PcTyped ==
    ASSUME call \in [Calls -> CallType], NEW x \in Calls,
           NEW s \in {"idle", "notify", "lock", "send", "enter", "report", "done"}
    PROVE  [call EXCEPT ![x].pc = s] \in [Calls -> CallType]
<1>1. call[x] \in CallType
  OBVIOUS
<1>2. [call[x] EXCEPT !.pc = s] \in CallType
  BY <1>1 DEF CallType
<1>3. [call EXCEPT ![x].pc = s] = [call EXCEPT ![x] = [call[x] EXCEPT !.pc = s]]
  OBVIOUS
<1>. QED  BY <1>2, <1>3, CallTyped

LEMMA NoCallTyped == NoCall \in CallType
  BY DEF NoCall, CallType


\* What the steps on the registry have in common: only the registry, the slots and
\* the history change, and one thread may go on to notify.
Registry(t) ==
    /\ call[t].pc = "idle"
    /\ UNCHANGED call \/ Notifies(t)
    /\ UNCHANGED <<bridge, hal, view, raced>>
    /\ service'.n = service.n /\ service'.up = service.up
    /\ service'.listener = service.listener
    /\ service' \in ServiceType /\ missed' \in BOOLEAN

\* A step of the registry that notifies nobody keeps what has been told true.
Told == (Available(service.cameras) => Available(service.cameras)')
        /\ ((Placed /\ ~missed)' => Placed /\ ~missed)

LEMMA RegistryStep ==
    ASSUME IInv, NEW t \in Threads, Registry(t), UNCHANGED call => Told
    PROVE  IInv'
<1>0. /\ call \in [Calls -> CallType] /\ t \in Calls /\ t # Push /\ t # Obituary
      /\ [NoCall EXCEPT !.pc = "notify"] \in CallType
      /\ [NoCall EXCEPT !.pc = "notify"].pc = "notify"
  BY AvailabilityConstants DEF IInv, TypeOK, Calls, NoCall, CallType, Push, Obituary
<1>1. /\ call' \in [Calls -> CallType] /\ \A x \in Calls: x # t => call'[x] = call[x]
      /\ call[t].pc = "idle" /\ (call'[t] = call[t] \/ call'[t].pc = "notify")
      /\ (call'[t].pc # "notify" => UNCHANGED call)
  BY <1>0, CallTyped, Zenon DEF Registry, Notifies
<1>2. /\ \A y: OfHal(y)' = OfHal(y)
      /\ Linked' <=> Linked
  BY DEF OfHal, Linked, Alive, Registry
<1>3. /\ ~Flying(t) /\ ~Flying(t)'
      /\ \A x \in Calls: Flying(x)' <=> Flying(x)
  BY <1>1, <1>2 DEF Flying
<1>4. TypeOK'
  BY <1>1 DEF IInv, TypeOK, Registry
<1>5. Steps'
  BY <1>0, <1>1, <1>2 DEF IInv, Steps, Registry, Calls
<1>6. Grounded' /\ Known'
  BY <1>1 DEF IInv, Grounded, Known, Registry
<1>7. Listened' /\ OneFlies'
  BY <1>2, <1>3 DEF IInv, Listened, OneFlies, Registry
<1>8. Reported' /\ Shown'
  BY <1>0, <1>1 DEF IInv, Reported, Shown, Registry
<1>9. Tracked'
  <2>1. CASE call'[t].pc = "notify"
    BY <2>1 DEF Tracked, Read
  <2>2. CASE call'[t].pc # "notify"
    <3>1. UNCHANGED <<call, hal, raced>> /\ Told /\ (Read' => Read)
      BY <1>1, <2>2, Zenon DEF Registry, Read
    <3>2. \A v \in BOOLEAN: Agrees(v) => Agrees(v)'
      BY <3>1 DEF Told, Agrees
    <3>3. hal.present \in BOOLEAN /\ \A x \in Calls: call[x].value \in BOOLEAN
      BY <1>0 DEF IInv, TypeOK, HalType, CallType
    <3>. QED  BY <1>2, <1>3, <3>1, <3>2, <3>3, Zenon DEF IInv, Tracked
  <2>. QED  BY <2>1, <2>2
<1>. QED  BY <1>4, <1>5, <1>6, <1>7, <1>8, <1>9 DEF IInv

LEMMA RegisterCameraStep ==
    ASSUME IInv, NEW t \in Threads, NEW c \in Cameras, NEW max \in 1..NumSlots,
           RegisterCamera(t, c, max)
    PROVE  IInv'
<1>1. service \in ServiceType /\ missed \in BOOLEAN
  BY DEF IInv, TypeOK
<1>2. CASE \E s \in Slots: /\ service.slots[s] = None
                           /\ service' = [service EXCEPT !.cameras = @ \cup {c}, !.slots[s] = c]
                           /\ IF service.cameras = {} THEN Notifies(t) ELSE UNCHANGED call
                           /\ missed' = (missed \/ (service.cameras # {} /\ ~Placed))
  <2>1. PICK s \in Slots: /\ service.slots[s] = None
                          /\ service' = [service EXCEPT !.cameras = @ \cup {c}, !.slots[s] = c]
                          /\ IF service.cameras = {} THEN Notifies(t) ELSE UNCHANGED call
                          /\ missed' = (missed \/ (service.cameras # {} /\ ~Placed))
    BY <1>2
  <2>2. /\ service' \in ServiceType /\ service'.cameras = service.cameras \cup {c}
        /\ service'.n = service.n /\ service'.up = service.up
        /\ service'.listener = service.listener
    BY <1>1, <2>1 DEF ServiceType
  <2>3. Registry(t)
    BY <1>1, <2>1, <2>2 DEF Registry, RegisterCamera
  <2>4. UNCHANGED call => Told
    <3>1. CASE service.cameras = {}
      <4>1. call'[t].pc = "notify" /\ call[t].pc = "idle"
        <5>1. call \in [Calls -> CallType] /\ t \in Calls /\ Notifies(t) /\ call[t].pc = "idle"
          BY <2>1, <3>1 DEF RegisterCamera, IInv, TypeOK, Calls
        <5>. QED  BY <5>1 DEF Notifies, NoCall
      <4>. QED  BY <4>1
    <3>2. CASE service.cameras # {}
      BY <2>1, <2>2, <3>2 DEF Told, Available
    <3>. QED  BY <3>1, <3>2
  <2>. QED  BY <2>3, <2>4, RegistryStep
<1>3. CASE /\ service' = [service EXCEPT !.cameras = @ \cup {c}, !.unplaced[t] = c]
           /\ UNCHANGED <<call, missed>>
  <2>1. /\ service' \in ServiceType /\ service'.cameras = service.cameras \cup {c}
        /\ service'.n = service.n /\ service'.up = service.up
        /\ service'.listener = service.listener /\ service'.slots = service.slots
    BY <1>1, <1>3 DEF ServiceType
  <2>2. Registry(t)
    BY <1>1, <1>3, <2>1 DEF Registry, RegisterCamera
  <2>3. ~HasSlot(c)
    BY DEF RegisterCamera, New, Unused
  <2>4. Told
    BY <1>3, <2>1, <2>3 DEF Told, Available, Placed, HasSlot
  <2>. QED  BY <2>2, <2>4, RegistryStep
<1>. QED  BY <1>2, <1>3 DEF RegisterCamera

\* Taking a camera out: whether it notifies is Removal's.
LEMMA RemovalStep ==
    ASSUME IInv, NEW t \in Threads, NEW c, call[t].pc = "idle", Removal(t, c),
           service' \in ServiceType, service'.cameras = service.cameras \ {c},
           service'.n = service.n, service'.up = service.up,
           service'.listener = service.listener, service'.slots = service.slots
    PROVE  IInv'
<1>1. Registry(t)
  BY DEF Registry, Removal, IInv, TypeOK
<1>2. UNCHANGED call => Told
  <2>1. CASE c \in service.cameras /\ (HasSlot(c) \/ service.cameras = {c})
    <3>1. call'[t].pc = "notify"
      BY <2>1 DEF Removal, Notifies, NoCall, IInv, TypeOK, Calls
    <3>. QED  BY <3>1
  <2>2. CASE ~(c \in service.cameras /\ (HasSlot(c) \/ service.cameras = {c}))
    <3>1. missed' = missed
      BY DEF Removal
    <3>2. Placed' => Placed
      BY DEF Placed, HasSlot
    <3>3. Available(service.cameras) => Available(service.cameras)'
      BY <2>2 DEF Available
    <3>. QED  BY <3>1, <3>2, <3>3 DEF Told
  <2>. QED  BY <2>1, <2>2
<1>. QED  BY <1>1, <1>2, RegistryStep

LEMMA RemoveCameraStep ==
    ASSUME IInv, NEW t \in Threads, NEW c \in Cameras, RemoveCamera(t, c)
    PROVE  IInv'
<1>1. /\ service \in ServiceType /\ service' = [service EXCEPT !.cameras = @ \ {c}]
      /\ call[t].pc = "idle" /\ Removal(t, c)
  BY DEF IInv, TypeOK, RemoveCamera
<1>2. /\ service' \in ServiceType /\ service'.cameras = service.cameras \ {c}
      /\ service'.n = service.n /\ service'.up = service.up
      /\ service'.listener = service.listener /\ service'.slots = service.slots
  BY <1>1 DEF ServiceType
<1>. QED  BY <1>1, <1>2, RemovalStep

LEMMA RefuseRegistrationStep ==
    ASSUME IInv, NEW t \in Threads, RefuseRegistration(t)
    PROVE  IInv'
<1>. DEFINE c == service.unplaced[t]
<1>1. /\ service \in ServiceType /\ Removal(t, c)
      /\ service' = [service EXCEPT !.cameras = @ \ {c}, !.unplaced[t] = None]
      /\ call[t].pc = "idle"
  BY DEF IInv, TypeOK, RefuseRegistration
<1>2. /\ service' \in ServiceType /\ service'.cameras = service.cameras \ {c}
      /\ service'.n = service.n /\ service'.up = service.up
      /\ service'.listener = service.listener /\ service'.slots = service.slots
  BY <1>1 DEF ServiceType
<1>. QED  BY <1>1, <1>2, RemovalStep

LEMMA FinishCloseStep ==
    ASSUME IInv, NEW s \in Slots, FinishClose(s)
    PROVE  IInv'
<1>1. /\ service \in ServiceType /\ service' = [service EXCEPT !.slots[s] = None]
      /\ service.slots[s] \notin service.cameras
      /\ UNCHANGED <<call, bridge, hal, view, raced, missed>>
  BY DEF IInv, TypeOK, FinishClose
<1>2. /\ service' \in ServiceType /\ service'.cameras = service.cameras
      /\ service'.n = service.n /\ service'.up = service.up
      /\ service'.listener = service.listener
      /\ \A r \in Slots: service'.slots[r] = service.slots[r] \/ service'.slots[r] = None
  BY <1>1 DEF ServiceType
<1>3. /\ \A y: OfHal(y)' = OfHal(y)
      /\ Linked' <=> Linked
      /\ \A x \in Calls: Flying(x)' <=> Flying(x)
  BY <1>1, <1>2 DEF OfHal, Linked, Alive, Flying
<1>4. \A v \in BOOLEAN: Agrees(v) => Agrees(v)'
  <2>1. None \notin service.cameras
    BY <1>1, AvailabilityConstants DEF ServiceType
  <2>2. Placed' => Placed
    BY <1>2, <2>1 DEF Placed, HasSlot
  <2>. QED  BY <1>1, <1>2, <2>2 DEF Agrees
<1>5. TypeOK' /\ Steps' /\ Grounded' /\ Known'
  BY <1>1, <1>2, <1>3 DEF IInv, TypeOK, Steps, Grounded, Known
<1>6. Listened' /\ OneFlies' /\ Reported' /\ Shown'
  BY <1>1, <1>2, <1>3 DEF IInv, Listened, OneFlies, Reported, Shown
<1>7. Tracked'
  <2>1. hal.present \in BOOLEAN /\ \A x \in Calls: call[x].value \in BOOLEAN
    BY DEF IInv, TypeOK, HalType, CallType
  <2>. QED  BY <1>1, <1>3, <1>4, <2>1, Zenon DEF IInv, Tracked, Read
<1>. QED  BY <1>5, <1>6, <1>7 DEF IInv

LEMMA NotifyHalAvailabilityStep ==
    ASSUME IInv, NEW t \in Threads, NotifyHalAvailability(t)
    PROVE  IInv'
<1>1. TypeOK'
  <2>0. TypeOK  BY DEF IInv
  <2>1. service' \in ServiceType
    BY <2>0 DEF TypeOK, NotifyHalAvailability
  <2>2. call' \in [Calls -> CallType]
    <3>1. t \in Calls /\ service \in ServiceType
      BY <2>0 DEF Calls, TypeOK
    <3>2. service.listener # None
            => [pc |-> "send", listener |-> service.listener,
                value |-> Available(service.cameras)] \in CallType
      BY <3>1 DEF CallType, ServiceType, Available
    <3>. QED
      BY <2>0, <3>1, <3>2, CallTyped, NoCallTyped DEF TypeOK, NotifyHalAvailability, Reads, Begin
  <2>3. bridge' \in BridgeType
    BY <2>0 DEF TypeOK, NotifyHalAvailability
  <2>4. hal' \in HalType /\ view' \in ViewType /\ raced' \in BOOLEAN /\ missed' \in BOOLEAN
    BY <2>0, Zenon DEF TypeOK, NotifyHalAvailability, Reads, Begin
  <2>. QED  BY <2>1, <2>2, <2>3, <2>4 DEF TypeOK
<1>2. Steps'
    BY DEF IInv, Steps, OfHal, TypeOK, NotifyHalAvailability, Reads, Begin, NoCall, Calls
<1>3. Grounded'
    BY DEF IInv, Grounded, TypeOK, NotifyHalAvailability, Reads, Begin, NoCall
<1>4. Known'
    BY DEF IInv, Known, TypeOK, NotifyHalAvailability
<1>5. Listened'
    BY DEF IInv, Listened, Linked, Alive, OfHal, TypeOK, NotifyHalAvailability
<1>6. OneFlies'
    BY DEF IInv, OneFlies, Flying, OfHal, TypeOK, HalType, NotifyHalAvailability, Reads, Begin,
           InFlight, NoCall
<1>7. Reported'
    BY DEF IInv, Reported, TypeOK, NotifyHalAvailability, Reads, Begin, NoCall
<1>8. Shown'
    BY DEF IInv, Shown, TypeOK, NotifyHalAvailability, Reads, Begin
<1>9. Tracked'
    BY DEF IInv, Tracked, Agrees, Placed, HasSlot, Available, Read, Linked, Listened,
           Flying, OfHal, Alive, TypeOK, ServiceType,
           NotifyHalAvailability, Reads, Begin, InFlight
<1>. QED  BY <1>1, <1>2, <1>3, <1>4, <1>5, <1>6, <1>7, <1>8, <1>9 DEF IInv

LEMMA SendAvailabilityStep ==
    ASSUME IInv, NEW t \in Threads, SendAvailability(t)
    PROVE  IInv'
<1>1. TypeOK'
  <2>0. TypeOK  BY DEF IInv
  <2>1. service' \in ServiceType
    BY <2>0 DEF TypeOK, ServiceType, SendAvailability, Dropped
  <2>2. call' \in [Calls -> CallType]
    <3>1. t \in Calls /\ call \in [Calls -> CallType]
      BY <2>0 DEF Calls, TypeOK
    <3>2. CASE OfHal(call[t].listener)
      <4>1. call' = [call EXCEPT ![t].pc = "enter"]
        BY <3>2 DEF SendAvailability
      <4>. QED  BY <3>1, <4>1, PcTyped, Zenon
    <3>3. CASE ~OfHal(call[t].listener)
      BY <3>1, <3>3, CallTyped, NoCallTyped DEF SendAvailability
    <3>. QED  BY <3>2, <3>3
  <2>3. bridge' \in BridgeType
    BY <2>0 DEF TypeOK, SendAvailability
  <2>4. hal' \in HalType /\ view' \in ViewType /\ raced' \in BOOLEAN /\ missed' \in BOOLEAN
    BY <2>0 DEF TypeOK, SendAvailability
  <2>. QED  BY <2>1, <2>2, <2>3, <2>4 DEF TypeOK
<1>2. Steps'
    BY DEF IInv, Steps, OfHal, TypeOK, CallType, SendAvailability, NoCall, Calls
<1>3. Grounded'
    BY DEF IInv, Grounded, OfHal, TypeOK, ServiceType, CallType, SendAvailability, Dropped,
           NoCall
<1>4. Known'
    BY DEF IInv, Known, TypeOK, ServiceType, SendAvailability, Dropped
<1>5. Listened'
    BY DEF IInv, Listened, Linked, Alive, OfHal, TypeOK, ServiceType, SendAvailability, Dropped
<1>6. OneFlies'
    BY DEF IInv, OneFlies, Flying, OfHal, TypeOK, SendAvailability, NoCall
<1>7. Reported'
    BY DEF IInv, Reported, TypeOK, CallType, SendAvailability, NoCall
<1>8. Shown'
    BY DEF IInv, Shown, TypeOK, SendAvailability
<1>9. Tracked'
  <2>1. /\ service'.cameras = service.cameras /\ service'.slots = service.slots
        /\ service'.n = service.n /\ service'.up = service.up
    BY DEF IInv, TypeOK, ServiceType, SendAvailability, Dropped
  <2>2. UNCHANGED <<bridge, hal, raced, missed>>
    BY DEF SendAvailability
  <2>3. \A v \in BOOLEAN: Agrees(v)' <=> Agrees(v)
    BY <2>1, <2>2 DEF Agrees, Placed, HasSlot, Available
  <2>4. /\ Linked' <=> Linked
        /\ \A y: OfHal(y)' = OfHal(y)
    BY <2>1, <2>2 DEF Linked, Alive, OfHal
  <2>5. /\ t \in Calls /\ \A x \in Calls: x # t => call'[x] = call[x]
        /\ call[t].pc = "send" /\ call \in [Calls -> CallType]
    BY DEF SendAvailability, IInv, TypeOK, Calls
  <2>6. /\ Flying(t)' <=> Flying(t)
        /\ OfHal(call[t].listener) => call'[t].value = call[t].value
        /\ call'[t].pc # "notify"
    BY <2>4, <2>5 DEF SendAvailability, Flying, NoCall, CallType
  <2>7. \A x \in Calls: /\ Flying(x)' <=> Flying(x)
                        /\ Flying(x) => call'[x].value = call[x].value
    BY <2>4, <2>5, <2>6 DEF Flying
  <2>8. Read' => Read
    BY <2>5, <2>6 DEF Read, Calls
  <2>9. hal.present \in BOOLEAN /\ \A x \in Calls: call[x].value \in BOOLEAN
    BY <2>5 DEF IInv, TypeOK, HalType, CallType
  <2>. QED
    BY <2>2, <2>3, <2>4, <2>7, <2>8, <2>9, Zenon DEF IInv, Tracked
<1>. QED  BY <1>1, <1>2, <1>3, <1>4, <1>5, <1>6, <1>7, <1>8, <1>9 DEF IInv

LEMMA ListenerDiedStep ==
    ASSUME IInv, NEW l \in service.linked, ListenerDied(l)
    PROVE  IInv'
<1>1. TypeOK'
  <2>0. TypeOK  BY DEF IInv
  <2>1. service' \in ServiceType
    BY <2>0, Zenon DEF TypeOK, ServiceType, ListenerDied, Dropped
  <2>2. call' \in [Calls -> CallType]
    BY <2>0 DEF TypeOK, ListenerDied
  <2>3. bridge' \in BridgeType
    BY <2>0 DEF TypeOK, ListenerDied
  <2>4. hal' \in HalType /\ view' \in ViewType /\ raced' \in BOOLEAN /\ missed' \in BOOLEAN
    BY <2>0 DEF TypeOK, ListenerDied
  <2>. QED  BY <2>1, <2>2, <2>3, <2>4 DEF TypeOK
<1>2. Steps'
    BY DEF IInv, Steps, OfHal, TypeOK, ListenerDied
<1>3. Grounded'
    BY DEF IInv, Grounded, TypeOK, ListenerDied, Dropped
<1>4. Known'
    BY DEF IInv, Known, TypeOK, ListenerDied, Dropped
<1>5. Listened'
    BY DEF IInv, Listened, Linked, Alive, OfHal, TypeOK, ListenerDied, Dropped
<1>6. OneFlies'
    BY DEF IInv, OneFlies, Flying, OfHal, TypeOK, ListenerDied
<1>7. Reported'
    BY DEF IInv, Reported, TypeOK, ListenerDied
<1>8. Shown'
    BY DEF IInv, Shown, TypeOK, ListenerDied
<1>9. Tracked'
    BY DEF IInv, Tracked, Agrees, Placed, HasSlot, Available, Read, Linked, Flying,
           OfHal, Alive, TypeOK, ListenerDied, Dropped
<1>. QED  BY <1>1, <1>2, <1>3, <1>4, <1>5, <1>6, <1>7, <1>8, <1>9 DEF IInv

LEMMA CheckServiceStep ==
    ASSUME IInv, CheckService
    PROVE  IInv'
<1>1. TypeOK'
  <2>0. TypeOK  BY DEF IInv
  <2>1. service' \in ServiceType
    BY <2>0 DEF TypeOK, CheckService
  <2>2. call' \in [Calls -> CallType]
    BY <2>0 DEF TypeOK, CheckService
  <2>3. bridge' \in BridgeType
    BY <2>0 DEF TypeOK, BridgeType, ServiceType, CheckService
  <2>4. hal' \in HalType /\ view' \in ViewType /\ raced' \in BOOLEAN /\ missed' \in BOOLEAN
    BY <2>0 DEF TypeOK, CheckService
  <2>. QED  BY <2>1, <2>2, <2>3, <2>4 DEF TypeOK
<1>2. Steps'
    BY DEF IInv, Steps, TypeOK, CheckService
<1>3. Grounded'
    BY DEF IInv, Grounded, TypeOK, CheckService
<1>4. Known'
    BY DEF IInv, Known, TypeOK, ServiceType, CheckService
<1>5. Listened'
    BY DEF IInv, Listened, Linked, Known, TypeOK, CheckService
<1>6. OneFlies'
    BY DEF IInv, OneFlies, Flying, OfHal, TypeOK, CheckService
<1>7. Reported'
    BY DEF IInv, Reported, TypeOK, CheckService
<1>8. Shown'
    BY DEF IInv, Shown, TypeOK, CheckService
<1>9. Tracked'
    BY DEF IInv, Tracked, Agrees, Placed, HasSlot, Available, Linked, Known, TypeOK,
           CheckService
<1>. QED  BY <1>1, <1>2, <1>3, <1>4, <1>5, <1>6, <1>7, <1>8, <1>9 DEF IInv

LEMMA LinkToDeathStep ==
    ASSUME IInv, LinkToDeath
    PROVE  IInv'
<1>1. TypeOK'
  <2>0. TypeOK  BY DEF IInv
  <2>1. service' \in ServiceType
    BY <2>0 DEF TypeOK, LinkToDeath
  <2>2. call' \in [Calls -> CallType]
    BY <2>0 DEF TypeOK, LinkToDeath
  <2>3. bridge' \in BridgeType
    BY <2>0 DEF TypeOK, BridgeType, LinkToDeath
  <2>4. hal' \in HalType /\ view' \in ViewType /\ raced' \in BOOLEAN /\ missed' \in BOOLEAN
    BY <2>0 DEF TypeOK, LinkToDeath
  <2>. QED  BY <2>1, <2>2, <2>3, <2>4 DEF TypeOK
<1>2. Steps'
    BY DEF IInv, Steps, TypeOK, LinkToDeath
<1>3. Grounded'
    BY DEF IInv, Grounded, TypeOK, LinkToDeath
<1>4. Known'
    BY DEF IInv, Known, TypeOK, LinkToDeath
<1>5. Listened'
    BY DEF IInv, Listened, Linked, Known, TypeOK, LinkToDeath
<1>6. OneFlies'
    BY DEF IInv, OneFlies, Flying, OfHal, TypeOK, LinkToDeath
<1>7. Reported'
    BY DEF IInv, Reported, TypeOK, LinkToDeath
<1>8. Shown'
    BY DEF IInv, Shown, TypeOK, LinkToDeath
<1>9. Tracked'
    BY DEF IInv, Tracked, Agrees, Placed, HasSlot, Available, Linked, Known, TypeOK,
           LinkToDeath
<1>. QED  BY <1>1, <1>2, <1>3, <1>4, <1>5, <1>6, <1>7, <1>8, <1>9 DEF IInv

LEMMA SetHalListenerFails ==
    ASSUME IInv, SetHalListener, ~Alive(bridge.binder)
    PROVE  IInv'
<1>1. /\ bridge.pc = "set" /\ bridge' = [bridge EXCEPT !.pc = "check", !.binder = None]
      /\ UNCHANGED <<service, call, hal, raced, missed, view>>
  BY DEF SetHalListener, ConnectFails
<1>2. bridge \in BridgeType /\ ~bridge.connected /\ call[Push].pc = "idle" /\ hal.up
  BY <1>1 DEF IInv, TypeOK, Known, Steps, Grounded
<1>3. /\ bridge' \in BridgeType /\ bridge'.pc = "check" /\ ~bridge'.connected
  BY <1>1, <1>2 DEF BridgeType
<1>4. ~Linked'
  BY <1>3 DEF Linked
<1>5. TypeOK' /\ Steps' /\ Grounded' /\ Known'
  BY <1>1, <1>2, <1>3 DEF IInv, TypeOK, Steps, Grounded, Known, OfHal
<1>6. Listened' /\ Tracked'
  BY <1>4 DEF Listened, Tracked
<1>7. OneFlies' /\ Reported' /\ Shown'
  BY <1>1 DEF IInv, OneFlies, Reported, Shown, Flying, OfHal
<1>. QED  BY <1>5, <1>6, <1>7 DEF IInv

LEMMA SetHalListenerSucceeds ==
    ASSUME IInv, SetHalListener, Alive(bridge.binder)
    PROVE  IInv'
<1>. DEFINE l == <<hal.n, hal.made>>
            c == [pc |-> "send", listener |-> l, value |-> Available(service.cameras)]
<1>1. /\ bridge.pc = "set" /\ bridge' = [bridge EXCEPT !.pc = "push", !.listener = l]
      /\ service' = [service EXCEPT !.listener = l, !.linked = @ \cup {l}]
      /\ call' = [call EXCEPT ![Push] = c] /\ raced' = (raced \/ InFlight)
      /\ hal' = [hal EXCEPT !.made = @ + 1] /\ view' = view /\ missed' = FALSE
  BY DEF SetHalListener, Reads, Begin
<1>2. /\ service \in ServiceType /\ call \in [Calls -> CallType] /\ bridge \in BridgeType
      /\ hal \in HalType /\ view \in ViewType /\ raced \in BOOLEAN
  BY DEF IInv, TypeOK
<1>3. ~bridge.connected /\ call[Push].pc = "idle" /\ hal.up
  BY <1>1, <1>2 DEF IInv, Known, Steps, Grounded
<1>4. /\ hal.n \in Nat /\ hal.made \in Nat /\ l \in Listeners /\ l \in (0..hal.n) \X Nat
      /\ l # None /\ l[1] = hal.n
  BY <1>2, AvailabilityConstants DEF HalType, Listeners
<1>5. c \in CallType /\ c.pc = "send" /\ c.listener = l /\ c.value = Available(service.cameras)
  <2>1. Available(service.cameras) \in BOOLEAN
    BY DEF Available
  <2>. QED  BY <2>1, <1>4 DEF CallType
<1>. HIDE DEF l, c
<1>6. /\ Push \in Calls /\ call' \in [Calls -> CallType] /\ call'[Push] = c
      /\ \A x \in Calls: x # Push => call'[x] = call[x]
  BY <1>1, <1>2, <1>5 DEF Calls
<1>7. /\ bridge' \in BridgeType /\ bridge'.pc = "push" /\ bridge'.connected = bridge.connected
      /\ bridge'.binder = bridge.binder /\ bridge'.listener = l
  BY <1>1, <1>2, <1>4 DEF BridgeType
<1>8. /\ service' \in ServiceType /\ service'.n = service.n /\ service'.up = service.up
      /\ service'.cameras = service.cameras /\ service'.listener = l
  <2>1. service.linked \cup {l} \in SUBSET Listeners
    BY <1>2, <1>4 DEF ServiceType
  <2>. QED  BY <1>1, <1>2, <1>4, <2>1 DEF ServiceType
<1>9. /\ hal' \in HalType /\ hal'.n = hal.n /\ hal'.up = hal.up
      /\ hal'.present = hal.present /\ hal'.callback = hal.callback
  <2>1. hal.made + 1 \in Nat
    BY <1>4
  <2>. QED  BY <1>1, <1>2, <2>1 DEF HalType
<1>10. \A y: OfHal(y)' = OfHal(y)
  BY <1>9 DEF OfHal
<1>11. OfHal(l)
  BY <1>3, <1>4 DEF OfHal
<1>12. raced' \in BOOLEAN /\ (~raced' => ~raced /\ \A x \in Calls: ~Flying(x))
  BY <1>1, <1>2, Zenon DEF InFlight, Flying
<1>13. Flying(Push)' /\ \A x \in Calls: x # Push => (Flying(x)' <=> Flying(x))
  BY <1>5, <1>6, <1>10, <1>11 DEF Flying
<1>14. TypeOK'
  BY <1>1, <1>2, <1>6, <1>7, <1>8, <1>9, <1>12 DEF TypeOK
<1>15. Steps'
  BY <1>5, <1>6, <1>7, <1>10, <1>11, AvailabilityConstants
  DEF IInv, Steps, Calls, Push, Obituary
<1>16. Grounded'
  BY <1>1, <1>3, <1>4, <1>5, <1>6, <1>8, <1>9 DEF IInv, Grounded
<1>17. Known'
  BY <1>1, <1>3, <1>7, <1>8 DEF IInv, Known
<1>18. Listened'
  BY <1>7, <1>8, <1>10, <1>11 DEF Listened
<1>19. OneFlies'
  BY <1>12, <1>13 DEF OneFlies
<1>20. Reported' /\ Shown'
  BY <1>1, <1>5, <1>6, <1>9, <1>12 DEF IInv, Reported, Shown, Flying
<1>21. Tracked'
  BY <1>5, <1>6, <1>8, <1>12, <1>13 DEF Tracked, Agrees, Placed, HasSlot, Available
<1>. QED  BY <1>14, <1>15, <1>16, <1>17, <1>18, <1>19, <1>20, <1>21 DEF IInv

LEMMA SetHalListenerStep ==
    ASSUME IInv, SetHalListener
    PROVE  IInv'
  BY SetHalListenerFails, SetHalListenerSucceeds

LEMMA SendPushStep ==
    ASSUME IInv, SendPush
    PROVE  IInv'
<1>1. /\ call \in [Calls -> CallType] /\ Push \in Calls /\ call[Push].pc = "send"
      /\ call' = [call EXCEPT ![Push].pc = "enter"]
      /\ UNCHANGED <<service, bridge, hal, view, raced, missed>>
  BY DEF SendPush, IInv, TypeOK, Calls
<1>2. /\ call' \in [Calls -> CallType]
      /\ call'[Push].pc = "enter" /\ call'[Push].value = call[Push].value
      /\ call'[Push].listener = call[Push].listener
      /\ \A x \in Calls: x # Push => call'[x] = call[x]
  <2>1. call[Push] \in CallType
    BY <1>1
  <2>. QED  BY <1>1, <2>1, PcTyped, Zenon DEF CallType
<1>3. \A x \in Calls: Flying(x)' <=> Flying(x)
  BY <1>1, <1>2 DEF IInv, Steps, Flying, OfHal
<1>4. \A x \in Calls: call'[x].value = call[x].value
  BY <1>2
<1>5. Read' <=> Read
  BY <1>1, <1>2, AvailabilityConstants DEF Read, Calls, Push
<1>6. Linked' <=> Linked
  BY <1>1 DEF Linked, Alive
<1>7. TypeOK'
  BY <1>1, <1>2 DEF IInv, TypeOK
<1>8. Steps' /\ Grounded'
  <2>1. Push \notin Threads /\ Push # Obituary
    BY AvailabilityConstants DEF Push, Obituary
  <2>2. hal.up
    BY <1>1 DEF IInv, Steps, Grounded
  <2>3. Steps'
    BY <1>1, <1>2, <2>1 DEF IInv, Steps, OfHal, Calls, Push, Obituary
  <2>4. Grounded'
    BY <1>1, <1>2, <2>1, <2>2 DEF IInv, Grounded
  <2>. QED  BY <2>3, <2>4
<1>9. Known' /\ Listened'
  BY <1>1, <1>6 DEF IInv, Known, Listened, OfHal
<1>10. OneFlies'
  BY <1>1, <1>3 DEF IInv, OneFlies
<1>11. Reported' /\ Shown'
  BY <1>1, <1>2 DEF IInv, Reported, Shown
<1>12. Tracked'
  BY <1>1, <1>3, <1>4, <1>5, <1>6 DEF IInv, Tracked, Agrees, Placed, HasSlot, Available
<1>. QED  BY <1>7, <1>8, <1>9, <1>10, <1>11, <1>12 DEF IInv

LEMMA ConnectReturnsStep ==
    ASSUME IInv, ConnectReturns
    PROVE  IInv'
<1>1. /\ bridge.pc = "push" /\ call[Push].pc \in {"idle", "done"}
      /\ call' = [call EXCEPT ![Push] = NoCall] /\ UNCHANGED <<service, hal, view, raced, missed>>
  BY DEF ConnectReturns
<1>2. /\ call \in [Calls -> CallType] /\ bridge \in BridgeType /\ Push \in Calls
      /\ ~bridge.connected /\ bridge.binder \in 1..service.n /\ hal.up
      /\ service \in ServiceType
  BY <1>1 DEF IInv, TypeOK, Known, Grounded, Calls
<1>3. /\ call' \in [Calls -> CallType] /\ call'[Push] = NoCall
      /\ \A x \in Calls: x # Push => call'[x] = call[x]
  BY <1>1, <1>2, CallTyped, NoCallTyped
<1>4. \A x \in Calls: Flying(x)' <=> Flying(x)
  BY <1>1, <1>3 DEF Flying, OfHal, NoCall
<1>5. Read' <=> Read
  BY <1>3, AvailabilityConstants DEF Read, Calls, Push
<1>6. /\ bridge' \in BridgeType /\ bridge'.listener = bridge.listener
      /\ \/ /\ Alive(bridge.binder) /\ bridge'.pc = "wait" /\ bridge'.connected
            /\ bridge'.manager = bridge.binder
         \/ bridge'.pc = "check" /\ ~bridge'.connected
  <2>1. CASE Alive(bridge.binder)
    <3>1. bridge' = [bridge EXCEPT !.pc = "wait", !.connected = TRUE,
                                   !.manager = bridge.binder, !.binder = None]
      BY <2>1 DEF ConnectReturns
    <3>. QED  BY <2>1, <3>1, <1>2, Zenon DEF BridgeType
  <2>2. CASE ~Alive(bridge.binder)
    <3>1. bridge' = [bridge EXCEPT !.pc = "check", !.binder = None]
      BY <2>2 DEF ConnectReturns, ConnectFails
    <3>. QED  BY <3>1, <1>2 DEF BridgeType
  <2>. QED  BY <2>1, <2>2
<1>7. Linked' => Linked
  BY <1>1, <1>6 DEF Linked
<1>8. TypeOK'
  BY <1>1, <1>3, <1>6 DEF IInv, TypeOK
<1>9. Steps' /\ Grounded'
  BY <1>1, <1>2, <1>3, AvailabilityConstants
  DEF IInv, Steps, Grounded, OfHal, NoCall, Calls, Push, Obituary
<1>10. Known'
  BY <1>1, <1>2, <1>6 DEF IInv, Known
<1>11. Listened'
  BY <1>1, <1>6, <1>7 DEF IInv, Listened, OfHal
<1>12. OneFlies'
  BY <1>1, <1>4 DEF IInv, OneFlies
<1>13. Reported' /\ Shown'
  BY <1>1, <1>3, Zenon DEF IInv, Reported, Shown, NoCall
<1>14. Tracked'
  <2>1. \A x \in Calls: Flying(x) => call'[x] = call[x]
    BY <1>1, <1>3 DEF Flying
  <2>. QED
    BY <1>1, <1>4, <1>5, <1>7, <2>1 DEF IInv, Tracked, Agrees, Placed, HasSlot, Available
<1>. QED  BY <1>8, <1>9, <1>10, <1>11, <1>12, <1>13, <1>14 DEF IInv

LEMMA WakesStep ==
    ASSUME IInv, Wakes
    PROVE  IInv'
<1>1. TypeOK'
  <2>0. TypeOK  BY DEF IInv
  <2>1. service' \in ServiceType
    BY <2>0 DEF TypeOK, Wakes
  <2>2. call' \in [Calls -> CallType]
    BY <2>0 DEF TypeOK, Wakes
  <2>3. bridge' \in BridgeType
    BY <2>0 DEF TypeOK, BridgeType, Wakes
  <2>4. hal' \in HalType /\ view' \in ViewType /\ raced' \in BOOLEAN /\ missed' \in BOOLEAN
    BY <2>0 DEF TypeOK, Wakes
  <2>. QED  BY <2>1, <2>2, <2>3, <2>4 DEF TypeOK
<1>2. Steps'
    BY DEF IInv, Steps, TypeOK, Wakes
<1>3. Grounded'
    BY DEF IInv, Grounded, TypeOK, Wakes
<1>4. Known'
    BY DEF IInv, Known, TypeOK, Wakes
<1>5. Listened'
    BY DEF IInv, Listened, Linked, TypeOK, Wakes
<1>6. OneFlies'
    BY DEF IInv, OneFlies, Flying, OfHal, TypeOK, Wakes
<1>7. Reported'
    BY DEF IInv, Reported, TypeOK, Wakes
<1>8. Shown'
    BY DEF IInv, Shown, TypeOK, Wakes
<1>9. Tracked'
    BY DEF IInv, Tracked, Agrees, Placed, HasSlot, Available, Linked, TypeOK, Wakes
<1>. QED  BY <1>1, <1>2, <1>3, <1>4, <1>5, <1>6, <1>7, <1>8, <1>9 DEF IInv

LEMMA ObituaryArrivesStep ==
    ASSUME IInv, NEW n \in 1..MaxManagers, ObituaryArrives(n)
    PROVE  IInv'
<1>1. TypeOK'
  <2>0. TypeOK  BY DEF IInv
  <2>1. service' \in ServiceType
    BY <2>0 DEF TypeOK, ObituaryArrives
  <2>2. call' \in [Calls -> CallType]
    <3>1. call \in [Calls -> CallType] /\ Obituary \in Calls
      BY <2>0 DEF TypeOK, Calls
    <3>2. [call[Obituary] EXCEPT !.pc = "lock"] \in CallType
      BY <3>1 DEF CallType
    <3>3. call' = [call EXCEPT ![Obituary] = [call[Obituary] EXCEPT !.pc = "lock"]]
      BY <3>1 DEF ObituaryArrives
    <3>. QED  BY <3>1, <3>2, <3>3, Zenon
  <2>3. bridge' \in BridgeType
    BY <2>0 DEF TypeOK, ObituaryArrives
  <2>4. hal' \in HalType /\ view' \in ViewType /\ raced' \in BOOLEAN /\ missed' \in BOOLEAN
    BY <2>0 DEF TypeOK, ObituaryArrives
  <2>. QED  BY <2>1, <2>2, <2>3, <2>4 DEF TypeOK
<1>2. Steps'
    BY AvailabilityConstants DEF IInv, Steps, OfHal, TypeOK, ObituaryArrives, Push, Obituary
<1>3. Grounded'
    BY DEF IInv, Grounded, TypeOK, ObituaryArrives
<1>4. Known'
    BY DEF IInv, Known, TypeOK, ObituaryArrives
<1>5. Listened'
    BY DEF IInv, Listened, Linked, Alive, OfHal, TypeOK, ObituaryArrives
<1>6. OneFlies'
    BY DEF IInv, OneFlies, Flying, OfHal, TypeOK, ObituaryArrives
<1>7. Reported'
    BY DEF IInv, Reported, TypeOK, ObituaryArrives
<1>8. Shown'
    BY DEF IInv, Shown, TypeOK, ObituaryArrives
<1>9. Tracked'
    BY DEF IInv, Tracked, Agrees, Placed, HasSlot, Available, Read, Linked, Flying,
           OfHal, Alive, TypeOK, ObituaryArrives
<1>. QED  BY <1>1, <1>2, <1>3, <1>4, <1>5, <1>6, <1>7, <1>8, <1>9 DEF IInv

LEMMA OnManagerDiedStep ==
    ASSUME IInv, OnManagerDied
    PROVE  IInv'
<1>1. TypeOK'
  <2>0. TypeOK  BY DEF IInv
  <2>1. service' \in ServiceType
    BY <2>0 DEF TypeOK, OnManagerDied
  <2>2. call' \in [Calls -> CallType]
    BY <2>0, Zenon DEF TypeOK, CallType, OnManagerDied, Begin
  <2>3. bridge' \in BridgeType
    BY <2>0 DEF TypeOK, BridgeType, OnManagerDied
  <2>4. hal' \in HalType /\ view' \in ViewType /\ raced' \in BOOLEAN /\ missed' \in BOOLEAN
    BY <2>0 DEF TypeOK, OnManagerDied, Begin
  <2>. QED  BY <2>1, <2>2, <2>3, <2>4 DEF TypeOK
<1>2. Steps'
    BY DEF IInv, Steps, TypeOK, OnManagerDied, Begin, LockFree
<1>3. Grounded'
    BY DEF IInv, Grounded, TypeOK, OnManagerDied, Begin, LockFree
<1>4. Known'
    BY DEF IInv, Known, TypeOK, OnManagerDied
<1>5. Listened'
    BY DEF IInv, Listened, Linked, TypeOK, OnManagerDied, LockFree
<1>6. OneFlies'
    BY Zenon DEF IInv, OneFlies, Flying, TypeOK, HalType, OnManagerDied, Begin, InFlight
<1>7. Reported'
    BY Zenon DEF IInv, Reported, TypeOK, OnManagerDied, Begin
<1>8. Shown'
    BY DEF IInv, Shown, TypeOK, OnManagerDied, Begin
<1>9. Tracked'
    BY DEF IInv, Tracked, Agrees, Placed, HasSlot, Available, Linked, TypeOK,
           OnManagerDied, LockFree
<1>. QED  BY <1>1, <1>2, <1>3, <1>4, <1>5, <1>6, <1>7, <1>8, <1>9 DEF IInv

LEMMA NotifyThreadStep ==
    ASSUME IInv, NotifyThread
    PROVE  IInv'
<1>1. TypeOK'
  <2>0. TypeOK  BY DEF IInv
  <2>1. service' \in ServiceType
    BY <2>0 DEF TypeOK, NotifyThread
  <2>2. call' \in [Calls -> CallType]
    BY <2>0, Zenon DEF TypeOK, CallType, NotifyThread, NoCall
  <2>3. bridge' \in BridgeType
    BY <2>0 DEF TypeOK, BridgeType, NotifyThread
  <2>4. hal' \in HalType /\ view' \in ViewType /\ raced' \in BOOLEAN /\ missed' \in BOOLEAN
    BY <2>0 DEF TypeOK, NotifyThread
  <2>. QED  BY <2>1, <2>2, <2>3, <2>4 DEF TypeOK
<1>2. Steps'
    BY DEF IInv, Steps, OfHal, TypeOK, NotifyThread, NoCall
<1>3. Grounded'
    BY DEF IInv, Grounded, TypeOK, NotifyThread, NoCall
<1>4. Known'
    BY DEF IInv, Known, TypeOK, NotifyThread
<1>5. Listened'
    BY DEF IInv, Listened, Linked, Alive, OfHal, TypeOK, NotifyThread
<1>6. OneFlies'
    BY DEF IInv, OneFlies, Flying, OfHal, TypeOK, NotifyThread, NoCall
<1>7. Reported'
    BY Zenon DEF IInv, Reported, TypeOK, NotifyThread, NoCall
<1>8. Shown'
    BY DEF IInv, Shown, TypeOK, NotifyThread
<1>9. Tracked'
    BY Zenon DEF IInv, Tracked, Agrees, Placed, HasSlot, Available, Read, Linked, Flying,
           OfHal, Alive, TypeOK, BridgeType,
           NotifyThread, NoCall, Calls
<1>. QED  BY <1>1, <1>2, <1>3, <1>4, <1>5, <1>6, <1>7, <1>8, <1>9 DEF IInv

LEMMA ExchangeStep ==
    ASSUME IInv, NEW x \in Calls, Exchange(x)
    PROVE  IInv'
<1>1. TypeOK'
  <2>0. TypeOK  BY DEF IInv
  <2>1. service' \in ServiceType
    BY <2>0 DEF TypeOK, Exchange
  <2>2. call' \in [Calls -> CallType]
    <3>1. After(x) \in CallType /\ call \in [Calls -> CallType]
      BY <2>0 DEF CallType, After, TypeOK
    <3>2. CASE hal.present = call[x].value
      BY <3>1, <3>2, CallTyped DEF Exchange
    <3>3. CASE hal.present # call[x].value
      <4>1. call' = [call EXCEPT ![x].pc = "report"]
        BY <3>3 DEF Exchange
      <4>. QED  BY <3>1, <4>1, PcTyped, Zenon
    <3>. QED  BY <3>2, <3>3
  <2>3. bridge' \in BridgeType
    BY <2>0 DEF TypeOK, Exchange
  <2>4. hal' \in HalType /\ view' \in ViewType /\ raced' \in BOOLEAN /\ missed' \in BOOLEAN
    BY <2>0 DEF TypeOK, HalType, CallType, Exchange
  <2>. QED  BY <2>1, <2>2, <2>3, <2>4 DEF TypeOK
<1>2. Steps'
    BY DEF IInv, Steps, OfHal, TypeOK, CallType, Exchange, After, Calls
<1>3. Grounded'
    BY DEF IInv, Grounded, TypeOK, CallType, Exchange, After
<1>4. Known'
    BY DEF IInv, Known, TypeOK, Exchange
<1>5. Listened'
    BY DEF IInv, Listened, Linked, Alive, OfHal, TypeOK, Exchange
<1>6. OneFlies'
    BY DEF IInv, OneFlies, Flying, OfHal, TypeOK, Exchange
<1>7. Reported'
    BY DEF IInv, Reported, OneFlies, Flying, TypeOK, CallType, Exchange, After
<1>8. Shown'
    BY DEF IInv, Shown, TypeOK, CallType, Exchange
<1>9. Tracked'
    BY DEF IInv, Tracked, Agrees, Placed, HasSlot, Available, Read, Linked, Flying,
           OfHal, Alive, TypeOK, CallType, Exchange,
           After, Calls
<1>. QED  BY <1>1, <1>2, <1>3, <1>4, <1>5, <1>6, <1>7, <1>8, <1>9 DEF IInv

LEMMA ReportStep ==
    ASSUME IInv, NEW x \in Calls, Report(x)
    PROVE  IInv'
<1>1. TypeOK'
  <2>0. TypeOK  BY DEF IInv
  <2>1. service' \in ServiceType
    BY <2>0 DEF TypeOK, Report
  <2>2. call' \in [Calls -> CallType]
    BY <2>0 DEF TypeOK, CallType, Report, After
  <2>3. bridge' \in BridgeType
    BY <2>0 DEF TypeOK, Report
  <2>4. hal' \in HalType /\ view' \in ViewType /\ raced' \in BOOLEAN /\ missed' \in BOOLEAN
    BY <2>0 DEF TypeOK, ViewType, CallType, Report
  <2>. QED  BY <2>1, <2>2, <2>3, <2>4 DEF TypeOK
<1>2. Steps'
    BY DEF IInv, Steps, OfHal, TypeOK, Report, After
<1>3. Grounded'
    BY DEF IInv, Grounded, TypeOK, Report, After
<1>4. Known'
    BY DEF IInv, Known, TypeOK, Report
<1>5. Listened'
    BY DEF IInv, Listened, Linked, Alive, OfHal, TypeOK, Report
<1>6. OneFlies'
    BY DEF IInv, OneFlies, Flying, OfHal, TypeOK, Report
<1>7. Reported'
    BY Zenon DEF IInv, Reported, TypeOK, Report, After
<1>8. Shown'
    BY DEF IInv, Shown, Reported, Grounded, TypeOK, Report
<1>9. Tracked'
  <2>1. /\ call \in [Calls -> CallType] /\ call[x].pc = "report"
        /\ call' = [call EXCEPT ![x] = After(x)] /\ UNCHANGED <<service, bridge, hal, raced, missed>>
    BY DEF IInv, TypeOK, Report
  <2>2. call'[x] = After(x) /\ \A y \in Calls: y # x => call'[y] = call[y]
    BY <2>1
  <2>3. Flying(x) /\ ~Flying(x)'
    BY <2>1, <2>2 DEF Flying, After
  <2>4. Linked' <=> Linked
    BY <2>1 DEF Linked, Alive
  <2>5. Read' => Read
    BY <2>1, <2>2 DEF Read, Calls
  <2>6. ~raced => call[x].value = hal.present /\ \A y \in Calls: Flying(y) => y = x
    BY <2>1, <2>3 DEF IInv, Reported, OneFlies
  <2>7. \A y \in Calls: y # x => (Flying(y)' <=> Flying(y))
    BY <2>1, <2>2 DEF Flying, OfHal
  <2>. QED
    BY <2>1, <2>3, <2>4, <2>5, <2>6, <2>7
    DEF IInv, Tracked, Agrees, Placed, HasSlot, Available
<1>. QED  BY <1>1, <1>2, <1>3, <1>4, <1>5, <1>6, <1>7, <1>8, <1>9 DEF IInv

LEMMA SetCallbackStep ==
    ASSUME IInv, SetCallback
    PROVE  IInv'
<1>1. TypeOK'
  <2>0. TypeOK  BY DEF IInv
  <2>1. service' \in ServiceType
    BY <2>0 DEF TypeOK, SetCallback
  <2>2. call' \in [Calls -> CallType]
    BY <2>0 DEF TypeOK, SetCallback
  <2>3. bridge' \in BridgeType
    BY <2>0 DEF TypeOK, SetCallback
  <2>4. hal' \in HalType /\ view' \in ViewType /\ raced' \in BOOLEAN /\ missed' \in BOOLEAN
    BY <2>0, Zenon DEF TypeOK, HalType, SetCallback
  <2>. QED  BY <2>1, <2>2, <2>3, <2>4 DEF TypeOK
<1>2. Steps'
    BY DEF IInv, Steps, OfHal, TypeOK, SetCallback
<1>3. Grounded'
    BY DEF IInv, Grounded, TypeOK, SetCallback
<1>4. Known'
    BY DEF IInv, Known, TypeOK, SetCallback
<1>5. Listened'
    BY DEF IInv, Listened, Linked, Alive, OfHal, TypeOK, SetCallback
<1>6. OneFlies'
    BY DEF IInv, OneFlies, Flying, OfHal, TypeOK, SetCallback
<1>7. Reported'
    BY DEF IInv, Reported, TypeOK, SetCallback
<1>8. Shown'
    BY DEF IInv, Shown, TypeOK, SetCallback
<1>9. Tracked'
    BY DEF IInv, Tracked, Agrees, Placed, HasSlot, Available, Read, Linked, Flying,
           OfHal, Alive, TypeOK, SetCallback
<1>. QED  BY <1>1, <1>2, <1>3, <1>4, <1>5, <1>6, <1>7, <1>8, <1>9 DEF IInv

LEMMA GetCameraIdListStep ==
    ASSUME IInv, GetCameraIdList
    PROVE  IInv'
<1>1. TypeOK'
  <2>0. TypeOK  BY DEF IInv
  <2>1. service' \in ServiceType
    BY <2>0 DEF TypeOK, GetCameraIdList
  <2>2. call' \in [Calls -> CallType]
    BY <2>0 DEF TypeOK, GetCameraIdList
  <2>3. bridge' \in BridgeType
    BY <2>0 DEF TypeOK, GetCameraIdList
  <2>4. hal' \in HalType /\ view' \in ViewType /\ raced' \in BOOLEAN /\ missed' \in BOOLEAN
    BY <2>0 DEF TypeOK, HalType, ViewType, GetCameraIdList
  <2>. QED  BY <2>1, <2>2, <2>3, <2>4 DEF TypeOK
<1>2. Steps'
    BY DEF IInv, Steps, OfHal, TypeOK, GetCameraIdList
<1>3. Grounded'
    BY DEF IInv, Grounded, TypeOK, GetCameraIdList
<1>4. Known'
    BY DEF IInv, Known, TypeOK, GetCameraIdList
<1>5. Listened'
    BY DEF IInv, Listened, Linked, Alive, OfHal, TypeOK, GetCameraIdList
<1>6. OneFlies'
    BY DEF IInv, OneFlies, Flying, OfHal, TypeOK, GetCameraIdList
<1>7. Reported'
    BY DEF IInv, Reported, TypeOK, GetCameraIdList
<1>8. Shown'
    BY DEF IInv, Shown, TypeOK, GetCameraIdList
<1>9. Tracked'
    BY DEF IInv, Tracked, Agrees, Placed, HasSlot, Available, Read, Linked, Flying,
           OfHal, Alive, TypeOK, GetCameraIdList
<1>. QED  BY <1>1, <1>2, <1>3, <1>4, <1>5, <1>6, <1>7, <1>8, <1>9 DEF IInv

LEMMA ServiceStartsStep ==
    ASSUME IInv, ServiceStarts
    PROVE  IInv'
<1>1. TypeOK'
  <2>0. TypeOK  BY DEF IInv
  <2>1. service' \in ServiceType
    <3>1. service.n + 1 \in Nat
      BY <2>0 DEF TypeOK, ServiceType
    <3>. QED  BY <2>0, <3>1, Zenon DEF TypeOK, ServiceType, ServiceStarts
  <2>2. call' \in [Calls -> CallType]
    BY <2>0 DEF TypeOK, ServiceStarts
  <2>3. bridge' \in BridgeType
    BY <2>0 DEF TypeOK, ServiceStarts
  <2>4. hal' \in HalType /\ view' \in ViewType /\ raced' \in BOOLEAN /\ missed' \in BOOLEAN
    BY <2>0 DEF TypeOK, ServiceStarts
  <2>. QED  BY <2>1, <2>2, <2>3, <2>4 DEF TypeOK
<1>2. Steps'
    BY DEF IInv, Steps, OfHal, TypeOK, ServiceStarts
<1>3. Grounded'
    BY DEF IInv, Grounded, TypeOK, ServiceStarts
<1>4. Known'
    BY DEF IInv, Known, TypeOK, ServiceType, ServiceStarts
<1>5. Listened'
    BY DEF IInv, Listened, Linked, Known, Alive, TypeOK, ServiceType, ServiceStarts
<1>6. OneFlies'
    BY DEF IInv, OneFlies, Flying, OfHal, TypeOK, ServiceStarts
<1>7. Reported'
    BY DEF IInv, Reported, TypeOK, ServiceStarts
<1>8. Shown'
    BY DEF IInv, Shown, TypeOK, ServiceStarts
<1>9. Tracked'
    BY DEF IInv, Tracked, Agrees, Placed, HasSlot, Available, Linked, Alive, Known,
           TypeOK, ServiceType, ServiceStarts
<1>. QED  BY <1>1, <1>2, <1>3, <1>4, <1>5, <1>6, <1>7, <1>8, <1>9 DEF IInv

LEMMA ServiceDiesStep ==
    ASSUME IInv, ServiceDies
    PROVE  IInv'
<1>1. TypeOK'
  <2>0. TypeOK  BY DEF IInv
  <2>1. service' \in ServiceType
    BY <2>0, Zenon DEF TypeOK, ServiceType, ServiceDies
  <2>2. call' \in [Calls -> CallType]
    BY <2>0 DEF TypeOK, CallType, ServiceDies, NoCall
  <2>3. bridge' \in BridgeType
    BY <2>0 DEF TypeOK, ServiceDies
  <2>4. hal' \in HalType /\ view' \in ViewType /\ raced' \in BOOLEAN /\ missed' \in BOOLEAN
    BY <2>0 DEF TypeOK, ServiceDies
  <2>. QED  BY <2>1, <2>2, <2>3, <2>4 DEF TypeOK
<1>2. Steps'
    BY DEF IInv, Steps, TypeOK, ServiceDies, NoCall, Calls
<1>3. Grounded'
    BY DEF IInv, Grounded, TypeOK, ServiceDies, NoCall
<1>4. Known'
    BY DEF IInv, Known, TypeOK, ServiceDies
<1>5. Listened'
    BY DEF IInv, Listened, Linked, Alive, TypeOK, ServiceDies
<1>6. OneFlies'
    BY DEF IInv, OneFlies, Flying, OfHal, TypeOK, ServiceDies, NoCall
<1>7. Reported'
    BY Zenon DEF IInv, Reported, TypeOK, ServiceDies, NoCall
<1>8. Shown'
    BY DEF IInv, Shown, TypeOK, ServiceDies
<1>9. Tracked'
    BY DEF IInv, Tracked, Agrees, Placed, HasSlot, Available, Linked, Alive, TypeOK,
           ServiceDies
<1>. QED  BY <1>1, <1>2, <1>3, <1>4, <1>5, <1>6, <1>7, <1>8, <1>9 DEF IInv

LEMMA HalStartsStep ==
    ASSUME IInv, HalStarts
    PROVE  IInv'
<1>1. TypeOK'
  <2>0. TypeOK  BY DEF IInv
  <2>1. service' \in ServiceType
    BY <2>0 DEF TypeOK, HalStarts
  <2>2. call' \in [Calls -> CallType]
    BY <2>0 DEF TypeOK, HalStarts
  <2>3. bridge' \in BridgeType
    BY <2>0 DEF TypeOK, BridgeType, HalStarts
  <2>4. hal' \in HalType /\ view' \in ViewType /\ raced' \in BOOLEAN /\ missed' \in BOOLEAN
    <3>1. hal.n + 1 \in Nat /\ 0 \in Nat
      BY <2>0 DEF TypeOK, HalType
    <3>2. hal' \in HalType
      BY <2>0, <3>1, Zenon DEF TypeOK, HalType, HalStarts
    <3>. QED  BY <2>0, <3>2 DEF TypeOK, HalStarts
  <2>. QED  BY <2>1, <2>2, <2>3, <2>4 DEF TypeOK
<1>2. Steps'
    BY DEF IInv, Steps, Grounded, TypeOK, HalStarts
<1>3. Grounded'
    BY DEF IInv, Grounded, TypeOK, HalType, HalStarts
<1>4. Known'
    BY DEF IInv, Known, Grounded, TypeOK, HalStarts
<1>5. Listened'
    BY DEF IInv, Listened, Linked, Alive, OfHal, TypeOK, HalStarts
<1>6. OneFlies'
    BY DEF IInv, OneFlies, Flying, OfHal, Grounded, TypeOK, HalType, HalStarts
<1>7. Reported'
    BY DEF IInv, Reported, TypeOK, HalStarts
<1>8. Shown'
    BY DEF IInv, Shown, TypeOK, HalStarts
<1>9. Tracked'
    BY DEF IInv, Tracked, Agrees, Placed, HasSlot, Available, Linked, Listened, OfHal,
           Alive, TypeOK, HalStarts
<1>. QED  BY <1>1, <1>2, <1>3, <1>4, <1>5, <1>6, <1>7, <1>8, <1>9 DEF IInv

LEMMA HalDiesStep ==
    ASSUME IInv, HalDies
    PROVE  IInv'
<1>1. TypeOK'
  <2>0. TypeOK  BY DEF IInv
  <2>1. service' \in ServiceType
    BY <2>0 DEF TypeOK, HalDies
  <2>2. call' \in [Calls -> CallType]
    BY <2>0 DEF TypeOK, CallType, HalDies, NoCall
  <2>3. bridge' \in BridgeType
    BY <2>0 DEF TypeOK, BridgeType, HalDies
  <2>4. hal' \in HalType /\ view' \in ViewType /\ raced' \in BOOLEAN /\ missed' \in BOOLEAN
    BY <2>0, Zenon DEF TypeOK, HalType, ViewType, HalDies
  <2>. QED  BY <2>1, <2>2, <2>3, <2>4 DEF TypeOK
<1>2. Steps'
    BY AvailabilityConstants DEF IInv, Steps, TypeOK, HalDies, NoCall, Calls, Push, Obituary
<1>3. Grounded'
    BY DEF IInv, Grounded, TypeOK, HalDies, NoCall
<1>4. Known'
    BY DEF IInv, Known, TypeOK, HalDies
<1>5. Listened'
    BY DEF IInv, Listened, Linked, TypeOK, HalDies
<1>6. OneFlies'
    BY DEF IInv, OneFlies, Flying, OfHal, TypeOK, HalDies, NoCall
<1>7. Reported'
    BY DEF IInv, Reported, TypeOK, HalDies, NoCall
<1>8. Shown'
    BY DEF IInv, Shown, TypeOK, HalDies
<1>9. Tracked'
    BY DEF IInv, Tracked, Agrees, Placed, HasSlot, Available, Linked, TypeOK, HalDies
<1>. QED  BY <1>1, <1>2, <1>3, <1>4, <1>5, <1>6, <1>7, <1>8, <1>9 DEF IInv

-----------------------------------------------------------------------------
LEMMA Stutters ==
    ASSUME IInv, UNCHANGED vars
    PROVE  IInv'
<1>1. UNCHANGED <<service, call, bridge, hal, view, raced, missed>>
  BY DEF vars
<1>2. TypeOK' /\ Steps' /\ Grounded' /\ Known'
  BY <1>1 DEF IInv, TypeOK, Steps, Grounded, Known, OfHal
<1>3. Listened' /\ OneFlies' /\ Reported' /\ Shown' /\ Tracked'
  BY <1>1 DEF IInv, Listened, OneFlies, Reported, Shown, Tracked, Linked, Alive, Read,
              Flying, OfHal, Agrees, Placed, HasSlot, Available
<1>. QED  BY <1>2, <1>3 DEF IInv

LEMMA InitHolds == Init => IInv
<1>. SUFFICES ASSUME Init PROVE IInv
  OBVIOUS
<1>1. TypeOK
  <2>1. call \in [Calls -> CallType]
    BY NoCallTyped DEF Init
  <2>. QED  BY <2>1, Zenon DEF Init, TypeOK, ServiceType, BridgeType, HalType, ViewType
<1>2. \A x \in Calls: call[x].pc = "idle"
  BY DEF Init, NoCall
<1>3. Push \in Calls /\ Obituary \in Calls /\ Threads \subseteq Calls
  BY DEF Calls
<1>4. Steps /\ Grounded /\ Known
  BY <1>2, <1>3 DEF Init, Steps, Grounded, Known
<1>5. ~Linked
  BY DEF Init, Linked
<1>6. \A x \in Calls: ~Flying(x)
  BY <1>2 DEF Flying
<1>. QED
  BY <1>1, <1>2, <1>4, <1>5, <1>6, Zenon
  DEF Init, IInv, Listened, OneFlies, Reported, Shown, Tracked

(***************************************************************************)
(* The inductive invariant is kept by every step of the service, the       *)
(* bridge, the provider and by the deaths and restarts of both processes.  *)
(***************************************************************************)
THEOREM Inductive == Spec => []IInv
<1>1. IInv /\ [Next]_vars => IInv'
  <2>. SUFFICES ASSUME IInv, [Next]_vars PROVE IInv'
    OBVIOUS
  <2>1. CASE UNCHANGED vars
    BY <2>1, Stutters
  <2>2. CASE \E t \in Threads, c \in Cameras:
               RemoveCamera(t, c) \/ \E max \in 1..NumSlots: RegisterCamera(t, c, max)
    BY <2>2, RegisterCameraStep, RemoveCameraStep
  <2>10. CASE \E s \in Slots: FinishClose(s)
    BY <2>10, FinishCloseStep
  <2>3. CASE \E t \in Threads: Service(t)
    BY <2>3, RefuseRegistrationStep, NotifyHalAvailabilityStep, SendAvailabilityStep DEF Service
  <2>4. CASE \E l \in service.linked: ListenerDied(l)
    BY <2>4, ListenerDiedStep
  <2>5. CASE Thread
    BY <2>5, CheckServiceStep, LinkToDeathStep, SetHalListenerStep, SendPushStep,
       ConnectReturnsStep DEF Thread
  <2>6. CASE Death
    BY <2>6, ObituaryArrivesStep, OnManagerDiedStep, NotifyThreadStep DEF Death
  <2>7. CASE \E x \in Calls: Deliver(x)
    BY <2>7, ExchangeStep, ReportStep DEF Deliver
  <2>8. CASE Wakes \/ SetCallback \/ GetCameraIdList
    BY <2>8, WakesStep, SetCallbackStep, GetCameraIdListStep
  <2>9. CASE ServiceStarts \/ ServiceDies \/ HalStarts \/ HalDies
    BY <2>9, ServiceStartsStep, ServiceDiesStep, HalStartsStep, HalDiesStep
  <2>. QED
    BY <2>1, <2>2, <2>3, <2>4, <2>5, <2>6, <2>7, <2>8, <2>9, <2>10 DEF Next
<1>. QED  BY InitHolds, <1>1, PTL DEF Spec

(***************************************************************************)
(* While the bridge counts itself connected to a living manager, no death  *)
(* recipient and no failed call of an earlier listener has taken this      *)
(* connection's listener away (VirtualCameraService.java:361-365,422-427). *)
(***************************************************************************)
THEOREM BridgeStaysListened == Spec => []ConnectedIsListened
<1>1. IInv => ConnectedIsListened
  BY DEF IInv, Listened, Linked, OfHal, ConnectedIsListened
<1>. QED  BY Inductive, <1>1, PTL

\* Nobody else's slot or refusal is disturbed by a step of the registry.
LEMMA AllAccounted == Spec => []Accounted
<1>1. Init => Accounted
  BY DEF Init, Accounted
<1>2. IInv /\ Accounted /\ [Next]_vars => Accounted'
  <2>. SUFFICES ASSUME IInv, Accounted, [Next]_vars PROVE Accounted'
    OBVIOUS
  <2>0. service \in ServiceType /\ None \notin Cameras
    BY AvailabilityConstants DEF IInv, TypeOK
  <2>1. CASE UNCHANGED <<service.cameras, service.slots, service.unplaced>>
    BY <2>1 DEF Accounted, HasSlot
  <2>2. ASSUME NEW t \in Threads, NEW c \in Cameras, NEW max \in 1..NumSlots,
               RegisterCamera(t, c, max)
        PROVE  Accounted'
    <3>1. CASE \E s \in Slots:
                 /\ service.slots[s] = None
                 /\ service' = [service EXCEPT !.cameras = @ \cup {c}, !.slots[s] = c]
      <4>1. PICK s \in Slots:
              /\ service.slots[s] = None
              /\ service' = [service EXCEPT !.cameras = @ \cup {c}, !.slots[s] = c]
        BY <3>1
      <4>2. /\ service'.cameras = service.cameras \cup {c}
            /\ service'.unplaced = service.unplaced
            /\ service'.slots = [service.slots EXCEPT ![s] = c]
        BY <2>0, <4>1 DEF ServiceType
      <4>3. /\ service.slots \in [Slots -> Cameras \cup {None}]
            /\ service.cameras \subseteq Cameras
        BY <2>0 DEF ServiceType
      <4>4. service'.slots[s] = c /\ \A r \in Slots: r # s => service'.slots[r] = service.slots[r]
        BY <4>2, <4>3
      <4>. QED  BY <2>0, <4>1, <4>2, <4>3, <4>4 DEF Accounted, HasSlot
    <3>2. CASE service' = [service EXCEPT !.cameras = @ \cup {c}, !.unplaced[t] = c]
      <4>1. /\ service'.cameras = service.cameras \cup {c} /\ service'.slots = service.slots
            /\ service'.unplaced = [service.unplaced EXCEPT ![t] = c]
            /\ service.unplaced \in [Threads -> Cameras \cup {None}]
            /\ service.cameras \subseteq Cameras /\ service.unplaced[t] = None
        BY <2>0, <2>2, <3>2 DEF ServiceType, RegisterCamera
      <4>2. /\ service'.unplaced[t] = c
            /\ \A u \in Threads: u # t => service'.unplaced[u] = service.unplaced[u]
        BY <4>1
      <4>. QED  BY <2>0, <4>1, <4>2 DEF Accounted, HasSlot
    <3>. QED  BY <2>2, <3>1, <3>2, Zenon DEF RegisterCamera
  <2>3. ASSUME NEW t \in Threads, NEW c \in Cameras, RemoveCamera(t, c)
        PROVE  Accounted'
    <3>1. /\ service'.cameras = service.cameras \ {c} /\ service'.slots = service.slots
          /\ service'.unplaced = service.unplaced
      BY <2>0, <2>3 DEF RemoveCamera, ServiceType
    <3>. QED  BY <3>1 DEF Accounted, HasSlot
  <2>4. ASSUME NEW t \in Threads, RefuseRegistration(t)
        PROVE  Accounted'
    <3>1. /\ service'.cameras = service.cameras \ {service.unplaced[t]}
          /\ service'.slots = service.slots
          /\ service'.unplaced = [service.unplaced EXCEPT ![t] = None]
          /\ service.unplaced \in [Threads -> Cameras \cup {None}]
      BY <2>0, <2>4 DEF RefuseRegistration, ServiceType
    <3>2. \A u \in Threads: u # t => service'.unplaced[u] = service.unplaced[u]
      BY <3>1
    <3>. QED  BY <3>1, <3>2 DEF Accounted, HasSlot
  <2>5. ASSUME NEW s \in Slots, FinishClose(s)
        PROVE  Accounted'
    <3>1. /\ service'.cameras = service.cameras /\ service'.unplaced = service.unplaced
          /\ service'.slots = [service.slots EXCEPT ![s] = None]
          /\ service.slots[s] \notin service.cameras
          /\ service.slots \in [Slots -> Cameras \cup {None}]
      BY <2>0, <2>5 DEF FinishClose, ServiceType
    <3>2. \A r \in Slots: r # s => service'.slots[r] = service.slots[r]
      BY <3>1
    <3>. QED  BY <3>1, <3>2 DEF Accounted, HasSlot
  <2>6. CASE ServiceDies
    <3>1. service'.cameras = {}
      BY <2>0, <2>6 DEF ServiceDies, ServiceType
    <3>. QED  BY <3>1 DEF Accounted
  <2>7. CASE \/ \E t \in Threads: NotifyHalAvailability(t) \/ SendAvailability(t)
             \/ \E l \in service.linked: ListenerDied(l)
             \/ SetHalListener \/ ServiceStarts
    <3>1. UNCHANGED <<service.cameras, service.slots, service.unplaced>>
      BY <2>0, <2>7, Zenon
      DEF ServiceType, NotifyHalAvailability, SendAvailability, ListenerDied, Dropped,
          SetHalListener, ServiceStarts
    <3>. QED  BY <2>1, <3>1
  <2>8. CASE \/ UNCHANGED vars \/ CheckService \/ LinkToDeath \/ SendPush \/ ConnectReturns
             \/ Wakes \/ Death \/ (\E x \in Calls: Deliver(x))
             \/ SetCallback \/ GetCameraIdList \/ HalStarts \/ HalDies
    <3>1. UNCHANGED service
      BY <2>8, Zenon
      DEF vars, CheckService, LinkToDeath, SendPush, ConnectReturns, Wakes, Death,
          ObituaryArrives, OnManagerDied, NotifyThread, Deliver, Exchange, Report, SetCallback,
          GetCameraIdList, HalStarts, HalDies
    <3>. QED  BY <2>1, <3>1
  <2>. QED
    BY <2>2, <2>3, <2>4, <2>5, <2>6, <2>7, <2>8, Zenon DEF Next, Service, Thread
<1>. QED  BY Inductive, <1>1, <1>2, PTL DEF Spec

(***************************************************************************)
(* A connected and quiet framework shows no camera that is not registered, *)
(* and shows one when a camera is registered - unless one value was read   *)
(* while another was on its way to setSlotPresent, or, for the second      *)
(* half, a camera was registered among cameras without a slot and nobody   *)
(* was told since (VirtualCameraService.java:221-233, 331-344).            *)
(***************************************************************************)
THEOREM QuietViewIsTrue == Spec => []SettledViewAgrees
<1>1. IInv /\ Accounted => SettledViewAgrees
  <2>. SUFFICES ASSUME IInv, Accounted, Settled, ~raced
       PROVE  Agrees(view.present) /\ (Available(service.cameras) => Placed)
    BY DEF SettledViewAgrees, Agrees
  <2>1. Linked /\ view.listed /\ \A x \in Calls: call[x].pc = "idle"
    BY DEF Settled, Linked
  <2>2. Read /\ \A x \in Calls: ~Flying(x)
    BY <2>1 DEF Read, Flying, Calls
  <2>3. Agrees(hal.present)
    BY <2>1, <2>2 DEF IInv, Tracked
  <2>4. view.present = hal.present
    BY <2>1 DEF IInv, Shown
  <2>5. Available(service.cameras) => Placed
    <3>1. None \notin service.cameras
      BY AvailabilityConstants DEF IInv, TypeOK, ServiceType
    <3>. QED  BY <3>1 DEF Settled, Accounted, Available, Placed
  <2>. QED  BY <2>3, <2>4, <2>5
<1>. QED  BY Inductive, AllAccounted, <1>1, PTL

=============================================================================
