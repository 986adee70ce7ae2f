---------------------------- MODULE RelayJni_proofs ----------------------------
(***************************************************************************)
(* What TLAPS proves of RelayJni, for any number of slots, threads, HAL    *)
(* processes, tokens and callbacks.                                        *)
(*                                                                         *)
(* ConnectionInv is about hal() and onHalDiedCb: which connections there   *)
(* are, who makes them, and what the HAL knows of them.  On it rest        *)
(* QueueInv, about what connections leave behind in a slot, and            *)
(* RegistrationInv, about what a slot's thread knows of the HAL.           *)
(***************************************************************************)
EXTENDS RelayJni, TLAPS

Connecting == {"link", "setCallback", "ready"}

\* Epoch 0 goes with no HAL.
EpochOfHal ==
    /\ gHal = 0 <=> gConnectionEpoch = 0
    /\ gConnectionReady => gHal # 0

\* The HAL that runs has a callback only from the relay's current connection.
HalConnected ==
    halCallback # 0 => life # 0 /\ gHal = life /\ gConnectionEpoch = halCallback

\* A HAL without a callback has no producer, and without a producer it has no
\* configuration.
ProducerConnected ==
    \A s \in Slots : /\ halProducer[s] # None => halCallback # 0
                     /\ halToken[s] # 0 => halProducer[s] # None

\* The death recipient of the current connection watches its process.
LinkOfHal == \A k \in links : k.epoch = gConnectionEpoch => k.life = gHal

\* Thread t is between the publication of a connection and the end of hal().
Connector(t) ==
    LET n == native[t]
    IN /\ gConnectLock = t
       /\ n.h # 0 /\ n.epoch # 0 /\ n.epoch = gNextConnectionEpoch
       /\ ~gConnectionReady
       /\ gConnectionEpoch \in {0, n.epoch}
       /\ life = n.h => gConnectionEpoch = n.epoch
       /\ gConnectionEpoch = n.epoch => gHal = n.h
       /\ n.at # "link" /\ gConnectionEpoch = n.epoch => [epoch |-> n.epoch, life |-> n.h] \in links
       /\ n.at # "ready" => halCallback = 0
       /\ n.at = "ready" /\ life = n.h => halCallback = n.epoch

Connectors ==
    /\ \A t \in Threads : native[t].at \in Connecting => Connector(t)
    /\ gConnectLock # None => native[gConnectLock].at \in Connecting

\* A connection is ready, or has its connector.
Established ==
    /\ Connected => /\ [epoch |-> gConnectionEpoch, life |-> gHal] \in links
                    /\ gHal = life => halCallback = gConnectionEpoch
    /\ gHal # 0 /\ ~gConnectionReady => gConnectLock # None

\* Each HAL process has been connected to once at most.
Fresh ==
    life # 0 => \/ gNextConnectionEpoch < lives
                \/ halCallback # 0
                \/ \E t \in Threads : native[t].at \in Connecting /\ native[t].h = life

\* A thread that has passed hal() has a process, and calls it on a connection.
Calling ==
    \A t \in Threads :
        /\ native[t].at = "lock" => native[t].h # 0
        /\ native[t].at \in {"rpc", "restore"}
              /\ native[t].method \in {"registerProducer", "removeProducer"}
              => native[t].h # 0 /\ native[t].epoch # 0

ConnectionInv ==
    /\ RelayTypeOK
    /\ EpochOfHal /\ HalConnected /\ ProducerConnected /\ LinkOfHal
    /\ Connectors /\ Established /\ Fresh
    /\ Calling
----------------------------------------------------------------------------
(***************************************************************************)
(* Types.                                                                  *)
(***************************************************************************)

NativeType ==
    [at : Steps, method : Methods, slot : Slots, camera : Registration,
     connection : 0 .. gNextConnectionEpoch, token : 0 .. MaxTokens, flag : BOOLEAN,
     h : 0 .. lives, epoch : 0 .. gNextConnectionEpoch, previous : Registration, ok : BOOLEAN]

\* RelayTypeOK without the threads.
GlobalType ==
    /\ life \in 0 .. lives /\ lives \in 0 .. MaxLives
    /\ halCallback \in 0 .. gNextConnectionEpoch
    /\ halProducer \in [Slots -> Registration]
    /\ halToken \in [Slots -> 0 .. MaxTokens]
    /\ halNextToken \in 0 .. MaxTokens
    /\ calls \subseteq Calls
    /\ links \subseteq [epoch : 1 .. gNextConnectionEpoch, life : 1 .. lives]
    /\ gHal \in 0 .. lives
    /\ gNextConnectionEpoch \in 0 .. lives
    /\ gConnectionEpoch \in 0 .. gNextConnectionEpoch
    /\ gConnectionReady \in BOOLEAN
    /\ gRegistrations \in [Slots -> Registration]
    /\ gConfigurations \in [Slots -> [token : 0 .. MaxTokens, closed : BOOLEAN]]
    /\ gSlots \in [Slots -> [connection : 0 .. gNextConnectionEpoch, token : 0 .. MaxTokens]]
    /\ gConnectLock \in Threads \cup {None}
    /\ gSlotGates \in [Slots -> Threads \cup {None}]
    /\ deaths \subseteq [epoch : 1 .. gNextConnectionEpoch, slots : SUBSET Slots]

LEMMA TypeSplit == RelayTypeOK <=> GlobalType /\ native \in [Threads -> NativeType]
  BY DEF RelayTypeOK, GlobalType, NativeType

LEMMA TypeSplitNext == RelayTypeOK' <=> GlobalType' /\ native' \in [Threads -> NativeType']
  BY DEF RelayTypeOK, GlobalType, NativeType

LEMMA Bounds ==
    /\ 0 \in Slots /\ Slots \subseteq Nat
    /\ MaxLives \in Nat /\ MaxTokens \in Nat
    /\ None \notin Threads /\ None \notin Cameras
    /\ Slots \subseteq Threads
  BY RelayAssumption DEF Slots, Threads

\* HAL processes and connections are numbered.
LEMMA Numbered ==
    ASSUME RelayTypeOK
    PROVE  lives \in Nat /\ gNextConnectionEpoch \in Nat
<1>1. lives \in 0 .. MaxLives /\ gNextConnectionEpoch \in 0 .. lives
  BY Zenon DEF RelayTypeOK
<1> QED
  BY <1>1, Bounds

\* One thread moves; connections and processes only increase.
LEMMA NativeUpdate ==
    ASSUME native \in [Threads -> NativeType], NEW t \in Threads, NEW x \in NativeType',
           NativeType \subseteq NativeType', native' = [native EXCEPT ![t] = x]
    PROVE  native' \in [Threads -> NativeType']
  OBVIOUS

LEMMA NativeSame ==
    ASSUME UNCHANGED <<lives, gNextConnectionEpoch>>
    PROVE  NativeType' = NativeType
  BY DEF NativeType

LEMMA ReturnedType ==
    ASSUME GlobalType, NEW ok \in BOOLEAN
    PROVE  Returned(ok) \in NativeType
  BY Bounds DEF Returned, NativeType, GlobalType, Steps, Methods, Registration

LEMMA LocksNext ==
    ASSUME NEW r \in NativeType, NEW h \in 0 .. lives
    PROVE  [r EXCEPT !.at = "lock", !.h = h] \in NativeType
  BY DEF NativeType, Steps

LEMMA AfterHalType ==
    ASSUME RelayTypeOK, NEW t \in Threads, NEW h \in 0 .. lives, AfterHal(t, h),
           UNCHANGED <<lives, gNextConnectionEpoch>>
    PROVE  native' \in [Threads -> NativeType']
<1>1. GlobalType /\ native \in [Threads -> NativeType]
  BY TypeSplit
<1>2. Returned(FALSE) \in NativeType /\ Returned(TRUE) \in NativeType
  BY <1>1, ReturnedType, Zenon
<1>3. [native[t] EXCEPT !.at = "lock", !.h = h] \in NativeType
  <2>1. native[t] \in NativeType
    BY <1>1
  <2> QED
    BY <2>1, LocksNext
<1>4. PICK n \in NativeType : native' = [native EXCEPT ![t] = n]
  BY <1>2, <1>3, Zenon DEF AfterHal
<1> QED
  BY <1>1, <1>4, NativeSame, Zenon

LEMMA CallType ==
    ASSUME GlobalType, ProducerConnected, NEW s \in Slots, NEW token \in 1 .. MaxTokens,
           NEW closed \in BOOLEAN, halProducer[s] # None \/ halToken[s] # 0
    PROVE  Call(s, token, closed) \in Calls
<1>1. halCallback \in 1 .. MaxLives
  BY Bounds DEF GlobalType, ProducerConnected
<1>2. halProducer[s] \in Cameras
  BY DEF GlobalType, Registration, ProducerConnected
<1> QED
  BY <1>1, <1>2 DEF Call, Calls

LEMMA HalType == ConnectionInv /\ Hal => RelayTypeOK'
<1> SUFFICES ASSUME ConnectionInv, Hal PROVE RelayTypeOK'
  OBVIOUS
<1>1. GlobalType /\ native \in [Threads -> NativeType] /\ ProducerConnected
  BY TypeSplit DEF ConnectionInv
<1>2. CASE HalStart
  <2>1. lives \in Nat /\ lives' = lives + 1 /\ lives' \in 0 .. MaxLives /\ life' \in 0 .. lives'
    BY <1>1, <1>2, Bounds DEF HalStart, GlobalType
  <2>2. GlobalType'
    BY <1>1, <1>2, <2>1
       DEF HalStart, GlobalType, connection, admission, queues
  <2>3. native' = native /\ NativeType \subseteq NativeType'
    BY <1>2, <2>1 DEF HalStart, NativeType, connection
  <2> QED
    BY <1>1, <2>2, <2>3, TypeSplitNext
<1>3. CASE HalCrash
  <2>1. GlobalType'
    BY <1>1, <1>3, Bounds
       DEF HalCrash, GlobalType, connection, admission, queues, Registration
  <2>2. native' = native /\ NativeType' = NativeType
    BY <1>3 DEF HalCrash, NativeType, connection
  <2> QED
    BY <1>1, <2>1, <2>2, TypeSplitNext
<1>4. ASSUME NEW s \in Slots, HalConfigure(s)
      PROVE  RelayTypeOK'
  <2>1. halNextToken + 1 \in 1 .. MaxTokens
    BY <1>1, <1>4, Bounds DEF HalConfigure, GlobalType
  <2>2. Call(s, halNextToken + 1, FALSE) \in Calls
    BY <1>1, <1>4, <2>1, CallType, Zenon DEF HalConfigure
  <2>3. GlobalType'
    <3>1. calls' \subseteq Calls /\ halToken' \in [Slots -> 0 .. MaxTokens]
          /\ halNextToken' \in 0 .. MaxTokens
      <4>1. halNextToken + 1 \in 0 .. MaxTokens
        BY <2>1, Bounds
      <4> QED
        BY <1>1, <1>4, <2>2, <4>1, Zenon DEF HalConfigure, GlobalType
    <3> QED
      BY <1>1, <1>4, <3>1, Zenon DEF HalConfigure, GlobalType, connection, admission, queues
  <2>4. native' = native /\ NativeType' = NativeType
    BY <1>4 DEF HalConfigure, NativeType, connection
  <2> QED
    BY <1>1, <2>3, <2>4, TypeSplitNext
<1>5. ASSUME NEW s \in Slots, HalClose(s)
      PROVE  RelayTypeOK'
  <2>1. halToken[s] \in 1 .. MaxTokens /\ 0 \in 0 .. MaxTokens
    BY <1>1, <1>5, Bounds DEF HalClose, GlobalType
  <2>2. Call(s, halToken[s], TRUE) \in Calls
    BY <1>1, <1>5, <2>1, CallType, Zenon DEF HalClose
  <2>3. GlobalType'
    <3>1. calls' \subseteq Calls /\ halToken' \in [Slots -> 0 .. MaxTokens]
          /\ halNextToken' \in 0 .. MaxTokens
      BY <1>1, <1>5, <2>1, <2>2, Zenon DEF HalClose, GlobalType
    <3> QED
      BY <1>1, <1>5, <3>1, Zenon DEF HalClose, GlobalType, connection, admission, queues
  <2>4. native' = native /\ NativeType' = NativeType
    BY <1>5 DEF HalClose, NativeType, connection
  <2> QED
    BY <1>1, <2>3, <2>4, TypeSplitNext
<1> QED
  BY <1>2, <1>3, <1>4, <1>5 DEF Hal

LEMMA QueueReleasedType ==
    ASSUME GlobalType, NEW s \in Slots, NEW epoch, NEW token, QueueReleased(s, epoch, token)
    PROVE  gSlots' \in [Slots -> [connection : 0 .. gNextConnectionEpoch, token : 0 .. MaxTokens]]
<1>1. NoQueue \in [connection : 0 .. gNextConnectionEpoch, token : 0 .. MaxTokens]
  BY Bounds DEF NoQueue, GlobalType
<1> QED
  BY <1>1 DEF QueueReleased, GlobalType

\* The steps of the relay that are not a native method's.
RelayAlone ==
    \/ \E k \in calls : Admit(k)
    \/ \E k \in links : HalDied(k)
    \/ \E d \in deaths, s \in Slots : DeathReleases(d, s)
    \/ \E s \in Slots : FrameFails(s)

LEMMA RelayAloneType == ConnectionInv /\ RelayAlone => RelayTypeOK'
<1> SUFFICES ASSUME ConnectionInv, RelayAlone PROVE RelayTypeOK'
  OBVIOUS
<1>1. GlobalType /\ native \in [Threads -> NativeType]
  BY TypeSplit DEF ConnectionInv
<1>2. native' = native /\ NativeType' = NativeType
  BY Zenon DEF RelayAlone, Admit, HalDied, DeathReleases, FrameFails, NativeType, connection, hal
<1>3. ASSUME NEW k \in calls, Admit(k)
      PROVE  GlobalType'
  <2>1. k \in Calls
    BY <1>1 DEF GlobalType
  <2>2. [k EXCEPT !.at = "admitted"] \in Calls
    BY <2>1 DEF Calls
  <2>3. [token |-> k.token, closed |-> k.closed] \in [token : 0 .. MaxTokens, closed : BOOLEAN]
    BY <2>1, Bounds DEF Calls
  <2>4. calls' \subseteq Calls
    BY <1>1, <1>3, <2>2, Zenon DEF Admit, GlobalType
  <2>5. gConfigurations' \in [Slots -> [token : 0 .. MaxTokens, closed : BOOLEAN]]
    BY <1>1, <1>3, <2>3 DEF Admit, GlobalType
  <2> QED
    BY <1>1, <1>3, <2>4, <2>5 DEF Admit, GlobalType, connection, hal, queues
<1>4. ASSUME NEW k \in links, HalDied(k)
      PROVE  GlobalType'
  <2>1. k.epoch \in 1 .. gNextConnectionEpoch /\ links' \subseteq links
    BY <1>1, <1>4 DEF HalDied, GlobalType
  <2>2. [epoch |-> k.epoch, slots |-> Slots]
            \in [epoch : 1 .. gNextConnectionEpoch, slots : SUBSET Slots]
    BY <2>1
  <2>3. deaths' \subseteq [epoch : 1 .. gNextConnectionEpoch, slots : SUBSET Slots]
    BY <1>1, <1>4, <2>2 DEF HalDied, GlobalType
  <2>4. /\ gHal' \in 0 .. lives /\ gConnectionEpoch' \in 0 .. gNextConnectionEpoch
        /\ gConnectionReady' \in BOOLEAN
    <3>1. 0 \in 0 .. lives /\ 0 \in 0 .. gNextConnectionEpoch
      BY <1>1, Bounds DEF GlobalType
    <3> QED
      BY <1>1, <1>4, <3>1, Zenon DEF HalDied, GlobalType
  <2> QED
    BY <1>1, <1>4, <2>1, <2>3, <2>4 DEF HalDied, GlobalType, hal, queues, admission
<1>5. ASSUME NEW d \in deaths, NEW s \in Slots, DeathReleases(d, s)
      PROVE  GlobalType'
  <2>1. [d EXCEPT !.slots = @ \ {s}] \in [epoch : 1 .. gNextConnectionEpoch, slots : SUBSET Slots]
    BY <1>1 DEF GlobalType
  <2>2. deaths' \subseteq [epoch : 1 .. gNextConnectionEpoch, slots : SUBSET Slots]
    BY <1>1, <1>5, <2>1 DEF DeathReleases, GlobalType
  <2>3. gSlots' \in [Slots -> [connection : 0 .. gNextConnectionEpoch, token : 0 .. MaxTokens]]
    BY <1>1, <1>5, QueueReleasedType DEF DeathReleases
  <2> QED
    BY <1>1, <1>5, <2>2, <2>3 DEF DeathReleases, GlobalType, hal, connection, admission
<1>6. ASSUME NEW s \in Slots, FrameFails(s)
      PROVE  GlobalType'
  <2>1. NoQueue \in [connection : 0 .. gNextConnectionEpoch, token : 0 .. MaxTokens]
    BY <1>1, Bounds DEF NoQueue, GlobalType
  <2>2. gSlots' \in [Slots -> [connection : 0 .. gNextConnectionEpoch, token : 0 .. MaxTokens]]
    BY <1>1, <1>6, <2>1 DEF FrameFails, GlobalType
  <2> QED
    BY <1>1, <1>6, <2>2 DEF FrameFails, GlobalType, hal, connection, admission
<1> QED
  BY <1>1, <1>2, <1>3, <1>4, <1>5, <1>6, TypeSplitNext DEF RelayAlone

LEMMA ConnectFailsType ==
    ASSUME RelayTypeOK, NEW t \in Threads, ConnectFails(t), UNCHANGED lives
    PROVE  /\ native' \in [Threads -> NativeType] /\ NativeType' = NativeType
           /\ gHal' \in 0 .. lives /\ gConnectionEpoch' \in 0 .. gNextConnectionEpoch
           /\ gConnectionReady' \in BOOLEAN /\ gConnectLock' = None
           /\ gNextConnectionEpoch' = gNextConnectionEpoch
<1>1. GlobalType
  BY TypeSplit
<1>2. 0 \in 0 .. lives /\ 0 \in 0 .. gNextConnectionEpoch
  BY <1>1, Bounds DEF GlobalType
<1>3. native' \in [Threads -> NativeType]
  <2>1. UNCHANGED <<lives, gNextConnectionEpoch>> /\ AfterHal(t, 0)
    BY DEF ConnectFails
  <2> QED
    BY <1>2, <2>1, AfterHalType, NativeSame
<1> QED
  BY <1>1, <1>2, <1>3, NativeSame DEF ConnectFails, GlobalType

\* The steps of hal().
HalStep(t) ==
    HalCached(t) \/ HalAbsent(t) \/ Connect(t) \/ Link(t) \/ SetCallback(t) \/ ConnectionReady(t)

\* A connection that is made is one to a process that had none.
LEMMA ConnectFresh ==
    ASSUME ConnectionInv, NEW t \in Threads, Connect(t)
    PROVE  /\ halCallback = 0 /\ gHal = 0 /\ gConnectionEpoch = 0
           /\ gNextConnectionEpoch + 1 \in 0 .. lives
           /\ \A u \in Threads : native[u].at \notin Connecting
<1>1. GlobalType
  BY TypeSplit DEF ConnectionInv
<1>2. ~Connected /\ gConnectLock = None /\ life # 0
  BY DEF Connect
<1>3. gHal = 0 /\ gConnectionEpoch = 0
  BY <1>2 DEF ConnectionInv, Established, EpochOfHal, Connected
<1>4. halCallback = 0
  BY <1>2, <1>3 DEF ConnectionInv, HalConnected
<1>5. \A u \in Threads : native[u].at \notin Connecting
  BY <1>2, Bounds, Zenon DEF ConnectionInv, Connectors, Connector
<1>6. gNextConnectionEpoch < lives
  BY <1>2, <1>4, <1>5 DEF ConnectionInv, Fresh
<1>7. gNextConnectionEpoch + 1 \in 0 .. lives
  BY <1>1, <1>6, Bounds DEF GlobalType
<1> QED
  BY <1>3, <1>4, <1>5, <1>7

LEMMA HalStepType ==
    ASSUME ConnectionInv, NEW t \in Threads, HalStep(t)
    PROVE  RelayTypeOK'
<1>1. RelayTypeOK /\ GlobalType /\ native \in [Threads -> NativeType] /\ native[t] \in NativeType
  BY TypeSplit DEF ConnectionInv
<1>2. native[t].h \in 0 .. lives /\ native[t].epoch \in 0 .. gNextConnectionEpoch
      /\ 0 \in 0 .. lives /\ 0 \in 0 .. gNextConnectionEpoch
  BY <1>1, Bounds DEF NativeType, GlobalType
<1>3. CASE HalCached(t) \/ HalAbsent(t)
  <2>1. native' \in [Threads -> NativeType] /\ NativeType' = NativeType
    BY <1>1, <1>2, <1>3, AfterHalType, NativeSame
       DEF HalCached, HalAbsent, hal, connection, GlobalType
  <2>2. GlobalType'
    BY <1>1, <1>3 DEF HalCached, HalAbsent, GlobalType, hal, connection, admission, queues
  <2> QED
    BY <2>1, <2>2, TypeSplitNext
<1>4. CASE Connect(t)
  <2>1. gNextConnectionEpoch' = gNextConnectionEpoch + 1 /\ gNextConnectionEpoch' \in 0 .. lives
        /\ gNextConnectionEpoch \in Nat /\ gConnectionEpoch' = gNextConnectionEpoch'
    <3>1. gNextConnectionEpoch' = gNextConnectionEpoch + 1
          /\ gConnectionEpoch' = gNextConnectionEpoch + 1
      BY <1>4 DEF Connect
    <3>2. gNextConnectionEpoch + 1 \in 0 .. lives
      BY <1>4, ConnectFresh
    <3>3. gNextConnectionEpoch \in Nat
      BY <1>1 DEF GlobalType
    <3> QED
      BY <3>1, <3>2, <3>3
  <2>2. NativeType \subseteq NativeType'
    BY <1>4, <2>1 DEF NativeType, Connect, hal
  <2>3. [native[t] EXCEPT !.at = "link", !.h = life, !.epoch = gNextConnectionEpoch + 1]
            \in NativeType'
    <3>1. native[t] \in NativeType' /\ lives' = lives
      BY <1>1, <1>4, <2>2 DEF Connect, hal
    <3>2. life \in 0 .. lives' /\ gNextConnectionEpoch + 1 \in 0 .. gNextConnectionEpoch'
      BY <1>1, <2>1, <3>1 DEF GlobalType
    <3> QED
      BY <3>1, <3>2, Zenon DEF NativeType, Steps
  <2>4. native' \in [Threads -> NativeType']
    BY <1>1, <1>4, <2>2, <2>3, NativeUpdate DEF Connect
  <2>5. GlobalType'
    <3>1. /\ halCallback \in 0 .. gNextConnectionEpoch'
          /\ links \subseteq [epoch : 1 .. gNextConnectionEpoch', life : 1 .. lives]
      BY <1>1, <2>1 DEF GlobalType
    <3>2. gSlots \in [Slots -> [connection : 0 .. gNextConnectionEpoch', token : 0 .. MaxTokens]]
      BY <1>1, <2>1 DEF GlobalType
    <3>3. deaths \subseteq [epoch : 1 .. gNextConnectionEpoch', slots : SUBSET Slots]
      BY <1>1, <2>1 DEF GlobalType
    <3>4. /\ [s \in Slots |-> None] \in [Slots -> Registration]
          /\ [s \in Slots |-> NoConfiguration]
                 \in [Slots -> [token : 0 .. MaxTokens, closed : BOOLEAN]]
      BY Bounds DEF Registration, NoConfiguration
    <3>5. life \in 0 .. lives /\ gConnectionEpoch' \in 0 .. gNextConnectionEpoch'
      BY <1>1, <2>1 DEF GlobalType
    <3> QED
      BY <1>1, <1>4, <2>1, <3>1, <3>2, <3>3, <3>4, <3>5, Zenon DEF Connect, GlobalType, hal, queues
  <2> QED
    BY <2>4, <2>5, TypeSplitNext
<1>5. CASE Link(t)
  <2>1. CASE life = native[t].h
    <3>1. [native[t] EXCEPT !.at = "setCallback"] \in NativeType
      BY <1>1 DEF NativeType, Steps
    <3>2. native' \in [Threads -> NativeType] /\ NativeType' = NativeType
      BY <1>1, <1>5, <2>1, <3>1, NativeSame DEF Link, hal, connection
    <3>3. native[t].epoch \in 1 .. gNextConnectionEpoch /\ life \in 1 .. lives
      <4>1. native[t].at \in Connecting
        BY <1>5 DEF Link, Connecting
      <4>2. native[t].h # 0 /\ native[t].epoch # 0
        BY <4>1, Zenon DEF ConnectionInv, Connectors, Connector
      <4>3. lives \in Nat /\ gNextConnectionEpoch \in Nat
        BY <1>1 DEF GlobalType
      <4> QED
        BY <1>2, <2>1, <4>2, <4>3
    <3>4. links' \subseteq [epoch : 1 .. gNextConnectionEpoch, life : 1 .. lives]
      BY <1>1, <1>5, <2>1, <3>3 DEF Link, GlobalType
    <3>5. GlobalType'
      BY <1>1, <1>5, <2>1, <3>4 DEF Link, GlobalType, hal, connection, admission, queues
    <3> QED
      BY <3>2, <3>5, TypeSplitNext
  <2>2. CASE life # native[t].h
    <3>1. ConnectFails(t) /\ UNCHANGED <<hal, calls, links, admission, queues, deaths>>
      BY <1>5, <2>2 DEF Link
    <3>2. lives' = lives
      BY <3>1 DEF hal
    <3>3. GlobalType'
      BY <1>1, <3>1, <3>2, ConnectFailsType DEF GlobalType, hal, admission, queues
    <3> QED
      BY <1>1, <3>1, <3>2, <3>3, ConnectFailsType, TypeSplitNext
  <2> QED
    BY <2>1, <2>2
<1>6. CASE SetCallback(t)
  <2>1. CASE life = native[t].h
    <3>1. [native[t] EXCEPT !.at = "ready"] \in NativeType
      BY <1>1 DEF NativeType, Steps
    <3>2. native' \in [Threads -> NativeType] /\ NativeType' = NativeType
      BY <1>1, <1>6, <2>1, <3>1, NativeSame DEF SetCallback, connection
    <3>3. GlobalType'
      BY <1>1, <1>2, <1>6, <2>1 DEF SetCallback, GlobalType, connection, admission, queues
    <3> QED
      BY <3>2, <3>3, TypeSplitNext
  <2>2. CASE life # native[t].h
    <3>1. /\ ConnectFails(t) /\ links' \subseteq links
          /\ UNCHANGED <<hal, calls, admission, queues, deaths>>
      BY <1>6, <2>2 DEF SetCallback, hal
    <3>2. lives' = lives
      BY <3>1 DEF hal
    <3>3. GlobalType'
      BY <1>1, <3>1, <3>2, ConnectFailsType DEF GlobalType, hal, admission, queues
    <3> QED
      BY <1>1, <3>1, <3>2, <3>3, ConnectFailsType, TypeSplitNext
  <2> QED
    BY <2>1, <2>2
<1>7. CASE ConnectionReady(t)
  <2>1. native' \in [Threads -> NativeType] /\ NativeType' = NativeType
    <3>1. PICK h \in 0 .. lives : AfterHal(t, h)
      BY <1>2, <1>7 DEF ConnectionReady
    <3> QED
      BY <1>1, <1>7, <3>1, AfterHalType, NativeSame DEF ConnectionReady, hal
  <2>2. GlobalType'
    BY <1>1, <1>7 DEF ConnectionReady, GlobalType, hal, admission, queues
  <2> QED
    BY <2>1, <2>2, TypeSplitNext
<1> QED
  BY <1>3, <1>4, <1>5, <1>6, <1>7 DEF HalStep

\* The steps of a native method after, or without, hal().
MethodStep(t) ==
    \/ MaxCameras(t)
    \/ RegisterLock(t) \/ RegisterRpc(t) \/ RegisterRestore(t)
    \/ RemoveLock(t) \/ RemoveRpc(t)
    \/ ReadyLock(t) \/ ReadyRpc(t)
    \/ SurfaceCheck(t) \/ SurfaceAbandon(t) \/ SurfaceInstall(t)
    \/ ReleaseSurface(t)

LEMMA MethodStepNative ==
    ASSUME RelayTypeOK, NEW t \in Threads, MethodStep(t)
    PROVE  native' \in [Threads -> NativeType] /\ NativeType' = NativeType
<1>1. GlobalType /\ native \in [Threads -> NativeType] /\ native[t] \in NativeType
  BY TypeSplit
<1>2. \A ok \in BOOLEAN : Returned(ok) \in NativeType
  BY <1>1, ReturnedType
<1>3. NativeType' = NativeType
  BY NativeSame, Zenon DEF MethodStep, MaxCameras, RegisterLock, RegisterRpc, RegisterRestore, RemoveLock,
         RemoveRpc, ReadyLock, ReadyRpc, SurfaceCheck, SurfaceAbandon, SurfaceInstall,
         ReleaseSurface, hal, connection
<1>4. PICK x \in NativeType : native' = [native EXCEPT ![t] = x]
  <2>1. \A at \in Steps : [native[t] EXCEPT !.at = at] \in NativeType
    BY <1>1 DEF NativeType
  <2>2. {"rpc", "restore", "abandon", "install"} \subseteq Steps
    BY DEF Steps
  <2>3. CASE RegisterLock(t)
    <3>1. native[t].slot \in Slots
      BY <1>1 DEF NativeType
    <3>2. gRegistrations[native[t].slot] \in Registration
          /\ gConnectionEpoch \in 0 .. gNextConnectionEpoch
      BY <1>1, <3>1 DEF GlobalType
    <3>3. [native[t] EXCEPT !.at = "rpc", !.epoch = gConnectionEpoch,
                            !.previous = gRegistrations[native[t].slot]] \in NativeType
      BY <1>1, <3>2, Zenon DEF NativeType, Steps
    <3> QED
      BY <1>2, <2>3, <3>3, Zenon DEF RegisterLock
  <2>4. CASE RemoveLock(t)
    <3>1. gConnectionEpoch \in 0 .. gNextConnectionEpoch
      BY <1>1 DEF GlobalType
    <3>2. [native[t] EXCEPT !.at = "rpc", !.epoch = gConnectionEpoch] \in NativeType
      BY <1>1, <3>1, Zenon DEF NativeType, Steps
    <3> QED
      BY <1>2, <2>4, <3>2, Zenon DEF RemoveLock
  <2>5. CASE MaxCameras(t) \/ RemoveRpc(t) \/ RegisterRestore(t) \/ ReadyRpc(t) \/ ReleaseSurface(t)
    BY <1>2, <2>5, Zenon DEF MaxCameras, RemoveRpc, RegisterRestore, ReadyRpc, ReleaseSurface
  <2>6. CASE RegisterRpc(t) \/ ReadyLock(t)
    BY <1>2, <2>1, <2>2, <2>6, Zenon DEF RegisterRpc, ReadyLock
  <2>7. CASE SurfaceCheck(t) \/ SurfaceAbandon(t) \/ SurfaceInstall(t)
    BY <1>2, <2>1, <2>2, <2>7, Zenon DEF SurfaceCheck, SurfaceAbandon, SurfaceInstall
  <2> QED
    BY <2>3, <2>4, <2>5, <2>6, <2>7 DEF MethodStep
<1> QED
  BY <1>1, <1>3, <1>4

LEMMA MethodStepGlobal ==
    ASSUME RelayTypeOK, NEW t \in Threads, MethodStep(t)
    PROVE  GlobalType'
<1>1. GlobalType /\ native[t] \in NativeType
  BY TypeSplit
<1>2. native[t].slot \in Slots /\ native[t].camera \in Registration /\ native[t].previous \in Registration
      /\ native[t].connection \in 0 .. gNextConnectionEpoch /\ native[t].token \in 0 .. MaxTokens
  BY <1>1 DEF NativeType
<1>3. 0 \in 0 .. MaxTokens /\ None \in Registration
  BY Bounds DEF Registration
<1>4. CASE RegisterLock(t) \/ RegisterRestore(t) \/ RemoveLock(t)
  <2>1. gRegistrations' \in [Slots -> Registration]
    <3>1. gRegistrations \in [Slots -> Registration]
      BY <1>1, Zenon DEF GlobalType
    <3>2. CASE RegisterLock(t)
      BY <1>2, <3>1, <3>2, Zenon DEF RegisterLock, admission
    <3>3. CASE RegisterRestore(t)
      BY <1>2, <3>1, <3>3, Zenon DEF RegisterRestore
    <3>4. CASE RemoveLock(t)
      BY <1>3, <3>1, <3>4, Zenon DEF RemoveLock, admission
    <3> QED
      BY <1>4, <3>2, <3>3, <3>4
  <2>2. gConfigurations' \in [Slots -> [token : 0 .. MaxTokens, closed : BOOLEAN]]
    <3>0. gConfigurations[native[t].slot] \in [token : 0 .. MaxTokens, closed : BOOLEAN]
      BY <1>1, <1>2 DEF GlobalType
    <3>1. [gConfigurations[native[t].slot] EXCEPT !.closed = TRUE]
              \in [token : 0 .. MaxTokens, closed : BOOLEAN]
      BY <3>0
    <3> QED
      BY <1>1, <1>4, <3>1, Zenon DEF RegisterLock, RegisterRestore, RemoveLock, GlobalType, admission
  <2>3. UNCHANGED <<hal, calls, links, connection, queues, gConnectLock, deaths>>
    BY <1>4, Zenon DEF RegisterLock, RegisterRestore, RemoveLock
  <2> QED
    BY <1>1, <2>1, <2>2, <2>3 DEF GlobalType, hal, connection, queues
<1>5. CASE RegisterRpc(t) \/ RemoveRpc(t) \/ ReadyRpc(t)
  <2>1. halProducer' \in [Slots -> Registration] /\ halToken' \in [Slots -> 0 .. MaxTokens]
    BY <1>1, <1>2, <1>3, <1>5, Zenon DEF RegisterRpc, RemoveRpc, ReadyRpc, GlobalType
  <2>2. UNCHANGED <<life, lives, halCallback, halNextToken, calls, links, connection, admission,
                    queues, gConnectLock, deaths>>
    BY <1>5, Zenon DEF RegisterRpc, RemoveRpc, ReadyRpc
  <2> QED
    BY <1>1, <2>1, <2>2 DEF GlobalType, admission, connection, queues
<1>6. CASE SurfaceCheck(t) \/ SurfaceAbandon(t) \/ SurfaceInstall(t) \/ ReleaseSurface(t)
  <2>1. NoQueue \in [connection : 0 .. gNextConnectionEpoch, token : 0 .. MaxTokens]
    BY <1>1, Bounds DEF NoQueue, GlobalType
  <2>2. [connection |-> native[t].connection, token |-> native[t].token]
            \in [connection : 0 .. gNextConnectionEpoch, token : 0 .. MaxTokens]
    BY <1>2
  <2>3. gSlots' \in [Slots -> [connection : 0 .. gNextConnectionEpoch, token : 0 .. MaxTokens]]
    <3>1. CASE ReleaseSurface(t)
      BY <1>1, <1>2, <3>1, QueueReleasedType DEF ReleaseSurface
    <3>2. CASE SurfaceCheck(t) \/ SurfaceAbandon(t) \/ SurfaceInstall(t)
      BY <1>1, <1>2, <2>1, <2>2, <3>2, Zenon DEF SurfaceCheck, SurfaceAbandon, SurfaceInstall, GlobalType
    <3> QED
      BY <1>6, <3>1, <3>2
  <2>4. gSlotGates' \in [Slots -> Threads \cup {None}]
    BY <1>1, <1>2, <1>6, Zenon
       DEF SurfaceCheck, SurfaceAbandon, SurfaceInstall, ReleaseSurface, GlobalType
  <2>5. UNCHANGED <<hal, calls, links, connection, admission, gConnectLock, deaths>>
    BY <1>6, Zenon DEF SurfaceCheck, SurfaceAbandon, SurfaceInstall, ReleaseSurface
  <2> QED
    BY <1>1, <2>3, <2>4, <2>5 DEF GlobalType, hal, connection, admission
<1>7. CASE MaxCameras(t) \/ ReadyLock(t)
  BY <1>1, <1>7, Zenon DEF MaxCameras, ReadyLock, GlobalType, hal, connection, admission, queues
<1> QED
  BY <1>4, <1>5, <1>6, <1>7 DEF MethodStep

LEMMA MethodStepType ==
    ASSUME RelayTypeOK, NEW t \in Threads, MethodStep(t)
    PROVE  RelayTypeOK'
  BY MethodStepNative, MethodStepGlobal, TypeSplitNext

\* Java enters a native method or looks at what one returned.
JavaCalls ==
    /\ \/ \E s \in Slots : SlotCalls(s)
       \/ \E t \in Clients : ClientCalls(t)
       \/ \E t \in Threads : Consume(t)
    /\ UNCHANGED <<hal, calls, links, connection, admission, queues, gConnectLock, deaths>>

JavaDelivers ==
    /\ Delivered
    /\ UNCHANGED <<hal, links, connection, admission, queues, gConnectLock, native>>

LEMMA EnterNative ==
    ASSUME RelayTypeOK, NEW t \in Threads, NEW method \in Methods,
           NEW at \in {"hal", "check", "release"}, NEW slot \in Slots, NEW camera \in Registration,
           NEW conn \in 0 .. gNextConnectionEpoch, NEW token \in 0 .. MaxTokens,
           NEW flag \in BOOLEAN, Enter(t, method, at, slot, camera, conn, token, flag)
    PROVE  \E x \in NativeType : /\ native[t].at = "java" /\ native' = [native EXCEPT ![t] = x]
                                 /\ x.at = at
<1>1. Returned(FALSE) \in NativeType
  BY TypeSplit, ReturnedType, Zenon
<1>2. at \in Steps
  BY DEF Steps
<1> DEFINE x == [Returned(FALSE) EXCEPT !.at = at, !.method = method, !.slot = slot,
                                       !.camera = camera, !.connection = conn, !.token = token,
                                       !.flag = flag]
<1>3. x \in NativeType /\ x.at = at
  BY <1>1, <1>2, Zenon DEF NativeType
<1>4. native[t].at = "java" /\ native' = [native EXCEPT ![t] = x]
  BY DEF Enter
<1> QED
  BY <1>3, <1>4, Zenon

LEMMA JavaCallsNative ==
    ASSUME RelayTypeOK, JavaCalls
    PROVE  \E t \in Threads, x \in NativeType :
               /\ native[t].at = "java" /\ native' = [native EXCEPT ![t] = x]
               /\ x.at \in {"java", "hal", "check", "release"}
<1>1. GlobalType
  BY TypeSplit
<1>2. /\ 0 \in Slots /\ None \in Registration /\ Cameras \subseteq Registration
      /\ 0 \in 0 .. gNextConnectionEpoch /\ 0 \in 0 .. MaxTokens /\ FALSE \in BOOLEAN
      /\ 1 .. gNextConnectionEpoch \subseteq 0 .. gNextConnectionEpoch
      /\ 1 .. MaxTokens \subseteq 0 .. MaxTokens
  BY <1>1, Bounds DEF Registration, GlobalType
<1>3. {"isHalUp", "getMaxCameras", "registerProducer", "removeProducer",
       "setConfigurationReady", "createSurface", "releaseSurface"} \subseteq Methods
  BY DEF Methods
<1>4. Slots \subseteq Threads /\ Clients \subseteq Threads
  BY DEF Threads
<1>5. ASSUME NEW s \in Slots, SlotCalls(s)
      PROVE  \E x \in NativeType : /\ native[s].at = "java" /\ native' = [native EXCEPT ![s] = x]
                                   /\ x.at \in {"hal", "check", "release"}
  <2>1. s \in Threads
    BY <1>4
  <2>2. CASE IsHalUp(s)
    BY <1>2, <1>3, <2>1, <2>2, EnterNative, Zenon DEF IsHalUp
  <2>3. ASSUME NEW c \in Cameras, RegisterProducer(s, s, c) \/ RemoveProducer(s, s, c)
        PROVE  \E x \in NativeType : /\ native[s].at = "java" /\ native' = [native EXCEPT ![s] = x]
                                     /\ x.at = "hal"
    <3>1. c \in Registration
      BY <1>2
    <3> QED
      BY <1>2, <1>3, <2>1, <2>3, <3>1, EnterNative, Zenon DEF RegisterProducer, RemoveProducer
  <2>4. ASSUME NEW e \in 1 .. gNextConnectionEpoch, NEW k \in 1 .. MaxTokens,
               CreateSurface(s, s, e, k)
        PROVE  \E x \in NativeType : /\ native[s].at = "java" /\ native' = [native EXCEPT ![s] = x]
                                     /\ x.at = "check"
    <3>1. e \in 0 .. gNextConnectionEpoch /\ k \in 0 .. MaxTokens
      BY <1>2
    <3> QED
      BY <1>2, <1>3, <2>1, <2>4, <3>1, EnterNative DEF CreateSurface
  <2>5. ASSUME NEW e \in 0 .. gNextConnectionEpoch, NEW k \in 0 .. MaxTokens,
               ReleaseSurfaceOf(s, s, e, k)
        PROVE  \E x \in NativeType : /\ native[s].at = "java" /\ native' = [native EXCEPT ![s] = x]
                                     /\ x.at = "release"
    BY <1>2, <1>3, <2>1, <2>5, EnterNative, Zenon DEF ReleaseSurfaceOf
  <2> QED
    BY <1>5, <2>2, <2>3, <2>4, <2>5 DEF SlotCalls
<1>6. ASSUME NEW t \in Clients, ClientCalls(t)
      PROVE  \E x \in NativeType : /\ native[t].at = "java" /\ native' = [native EXCEPT ![t] = x]
                                   /\ x.at = "hal"
  <2>1. t \in Threads
    BY <1>4
  <2>2. CASE IsHalUp(t)
    BY <1>2, <1>3, <2>1, <2>2, EnterNative DEF IsHalUp
  <2>3. CASE GetMaxCameras(t)
    BY <1>2, <1>3, <2>1, <2>3, EnterNative, Zenon DEF GetMaxCameras
  <2>4. ASSUME NEW s \in Slots, NEW e \in 1 .. gNextConnectionEpoch, NEW k \in 1 .. MaxTokens,
               NEW ready \in BOOLEAN, SetConfigurationReady(t, s, e, k, ready)
        PROVE  \E x \in NativeType : /\ native[t].at = "java" /\ native' = [native EXCEPT ![t] = x]
                                     /\ x.at = "hal"
    <3>1. e \in 0 .. gNextConnectionEpoch /\ k \in 0 .. MaxTokens
      BY <1>2
    <3> QED
      BY <1>2, <1>3, <2>1, <2>4, <3>1, EnterNative DEF SetConfigurationReady
  <2> QED
    BY <1>6, <2>2, <2>3, <2>4 DEF ClientCalls
<1>7. ASSUME NEW t \in Threads, Consume(t)
      PROVE  \E x \in NativeType : /\ native[t].at = "java" /\ native' = [native EXCEPT ![t] = x]
                                   /\ x.at = "java"
  <2>1. Returned(FALSE) \in NativeType /\ Returned(FALSE).at = "java"
    BY <1>1, ReturnedType, Zenon DEF Returned
  <2> QED
    BY <1>7, <2>1, Zenon DEF Consume
<1> QED
  BY <1>4, <1>5, <1>6, <1>7 DEF JavaCalls

LEMMA JavaType ==
    ASSUME RelayTypeOK, AnyJava
    PROVE  RelayTypeOK'
<1>1. GlobalType /\ native \in [Threads -> NativeType]
  BY TypeSplit
<1>2. CASE JavaCalls
  <2>1. PICK t \in Threads, x \in NativeType : native' = [native EXCEPT ![t] = x]
    BY <1>2, JavaCallsNative
  <2>2. GlobalType' /\ NativeType' = NativeType
    BY <1>1, <1>2
       DEF JavaCalls, GlobalType, NativeType, hal, connection, admission, queues
  <2> QED
    BY <1>1, <2>1, <2>2, TypeSplitNext
<1>3. CASE JavaDelivers
  <2>1. native' = native /\ NativeType' = NativeType
    BY <1>3 DEF JavaDelivers, NativeType, hal, connection
  <2>2. calls' \subseteq Calls
    <3>1. \A k \in calls : k \in Calls /\ [k EXCEPT !.at = "accepted"] \in Calls
      BY <1>1 DEF GlobalType, Calls
    <3> QED
      BY <1>1, <1>3, <3>1 DEF JavaDelivers, Delivered, Dropped, Accepted, GlobalType
  <2>3. deaths' \subseteq deaths
    BY <1>3 DEF JavaDelivers, Delivered
  <2>4. GlobalType'
    BY <1>1, <1>3, <2>2, <2>3
       DEF JavaDelivers, GlobalType, hal, connection, admission, queues
  <2> QED
    BY <1>1, <2>1, <2>4, TypeSplitNext
<1> QED
  BY <1>2, <1>3 DEF AnyJava, JavaCalls, JavaDelivers

LEMMA StepCases ==
    ASSUME Next
    PROVE  \/ Hal \/ RelayAlone \/ JavaCalls \/ JavaDelivers
           \/ \E t \in Threads : HalStep(t) \/ MethodStep(t)
  BY DEF Next, RelayNext, Relay, RelayAlone, NativeStep, HalStep, MethodStep, AnyJava, JavaCalls,
         JavaDelivers

LEMMA NextType == ConnectionInv /\ Next => RelayTypeOK'
<1> SUFFICES ASSUME ConnectionInv, Next PROVE RelayTypeOK'
  OBVIOUS
<1>1. RelayTypeOK
  BY DEF ConnectionInv
<1>2. JavaCalls \/ JavaDelivers => AnyJava
  BY DEF AnyJava, JavaCalls, JavaDelivers
<1> QED
  BY <1>1, <1>2, StepCases, HalType, RelayAloneType, JavaType, HalStepType, MethodStepType

----------------------------------------------------------------------------
(***************************************************************************)
(* Connections.                                                            *)
(***************************************************************************)

ConnectionCore ==
    EpochOfHal /\ HalConnected /\ LinkOfHal /\ Connectors /\ Established /\ Fresh

\* A step that leaves alone the connection, the threads that make it and the
\* HAL's part of it.
HalQuiet ==
    /\ UNCHANGED <<life, lives, halCallback, connection, links, gConnectLock>>
    /\ \A u \in Threads :
           native[u].at \in Connecting \/ native'[u].at \in Connecting => native'[u] = native[u]

LEMMA QuietCore ==
    ASSUME ConnectionInv, HalQuiet
    PROVE  ConnectionCore'
<1>1. gConnectLock \in Threads \cup {None}
  BY DEF ConnectionInv, RelayTypeOK
<1>2. EpochOfHal' /\ HalConnected' /\ LinkOfHal' /\ Established'
  BY DEF ConnectionInv, HalQuiet, EpochOfHal, HalConnected, LinkOfHal, Established, Connected, connection
<1>3. \A u \in Threads : native'[u].at \in Connecting => Connector(u)'
  BY DEF ConnectionInv, HalQuiet, Connectors, Connector, connection
<1>4. gConnectLock' # None => native'[gConnectLock'].at \in Connecting
  BY <1>1 DEF ConnectionInv, HalQuiet, Connectors
<1>5. Fresh'
  BY DEF ConnectionInv, HalQuiet, Fresh, connection
<1> QED
  BY <1>2, <1>3, <1>4, <1>5 DEF ConnectionCore, Connectors

\* One thread at most makes a connection.
LEMMA OneConnector ==
    ASSUME ConnectionInv, NEW t \in Threads, native[t].at \in Connecting
    PROVE  /\ Connector(t)
           /\ \A u \in Threads \ {t} : native[u].at \notin Connecting
  BY Zenon DEF ConnectionInv, Connectors, Connector

LEMMA HalStartCore ==
    ASSUME ConnectionInv, HalStart
    PROVE  ConnectionCore'
<1>1. GlobalType /\ native \in [Threads -> NativeType]
  BY TypeSplit DEF ConnectionInv
<1>2. lives \in Nat /\ life' = lives + 1 /\ lives' = lives + 1 /\ halCallback = 0
      /\ UNCHANGED <<halCallback, links, connection, gConnectLock, native>>
  BY <1>1, Bounds DEF HalStart, GlobalType, ConnectionInv, HalConnected
<1>3. gHal # life' /\ gNextConnectionEpoch < lives' /\ \A t \in Threads : native[t].h # life'
  BY <1>1, <1>2 DEF GlobalType, NativeType
<1>4. EpochOfHal' /\ HalConnected' /\ LinkOfHal' /\ Established'
  BY <1>2, <1>3 DEF ConnectionInv, EpochOfHal, HalConnected, LinkOfHal, Established, Connected, connection
<1>5. Connectors'
  BY <1>2, <1>3 DEF ConnectionInv, Connectors, Connector, connection
<1>6. Fresh'
  BY <1>2, <1>3 DEF Fresh, connection
<1> QED
  BY <1>4, <1>5, <1>6 DEF ConnectionCore

LEMMA HalCrashCore ==
    ASSUME ConnectionInv, HalCrash
    PROVE  ConnectionCore'
<1>1. life' = 0 /\ halCallback' = 0
      /\ UNCHANGED <<lives, links, connection, gConnectLock, native>>
  BY DEF HalCrash
<1>2. EpochOfHal' /\ HalConnected' /\ LinkOfHal' /\ Established'
  BY <1>1 DEF ConnectionInv, EpochOfHal, HalConnected, LinkOfHal, Established, Connected, connection
<1>3. Connectors'
  BY <1>1 DEF ConnectionInv, Connectors, Connector, connection
<1> QED
  BY <1>1, <1>2, <1>3 DEF ConnectionCore, Fresh

LEMMA HalDiedCore ==
    ASSUME ConnectionInv, NEW k \in links, HalDied(k)
    PROVE  ConnectionCore'
<1>1. GlobalType
  BY TypeSplit DEF ConnectionInv
<1>2. \A l \in links : l.epoch \in 1 .. gNextConnectionEpoch /\ l.epoch # 0
  BY <1>1 DEF GlobalType
<1>3. /\ links' = links \ {k} /\ life # k.life
      /\ UNCHANGED <<life, lives, halCallback, gNextConnectionEpoch, gConnectLock, native>>
  BY DEF HalDied, hal
<1>4. CASE gHal # 0 /\ gConnectionEpoch = k.epoch
  <2>1. gHal' = 0 /\ gConnectionEpoch' = 0 /\ gConnectionReady' = FALSE
    BY <1>4 DEF HalDied
  <2>2. life # gHal /\ halCallback = 0
    BY <1>3, <1>4 DEF ConnectionInv, LinkOfHal, HalConnected
  <2>3. EpochOfHal' /\ HalConnected' /\ Established'
    BY <1>3, <2>1, <2>2 DEF EpochOfHal, HalConnected, Established, Connected
  <2>4. LinkOfHal'
    BY <1>2, <1>3, <2>1 DEF LinkOfHal
  <2>5. \A t \in Threads : native[t].at \in Connecting => Connector(t)'
    <3> SUFFICES ASSUME NEW t \in Threads, native[t].at \in Connecting PROVE Connector(t)'
      OBVIOUS
    <3>1. Connector(t)
      BY OneConnector
    <3>2. life # native[t].h
      BY <2>2, <3>1 DEF Connector
    <3> QED
      BY <1>3, <2>1, <2>2, <3>1, <3>2 DEF Connector
  <2>6. Connectors' /\ Fresh'
    BY <1>3, <2>5 DEF ConnectionInv, Connectors, Fresh
  <2> QED
    BY <2>3, <2>4, <2>6 DEF ConnectionCore
<1>5. CASE ~(gHal # 0 /\ gConnectionEpoch = k.epoch)
  <2>1. UNCHANGED <<gHal, gConnectionEpoch, gConnectionReady>>
    BY <1>5 DEF HalDied
  <2>2. gConnectionEpoch # k.epoch
    BY <1>2, <1>5 DEF ConnectionInv, EpochOfHal
  <2>3. EpochOfHal' /\ HalConnected' /\ LinkOfHal' /\ Fresh'
    BY <1>3, <2>1 DEF ConnectionInv, EpochOfHal, HalConnected, LinkOfHal, Fresh
  <2>4. Established'
    BY <1>3, <2>1, <2>2 DEF ConnectionInv, Established, Connected
  <2>5. \A t \in Threads : native[t].at \in Connecting => Connector(t)'
    <3> SUFFICES ASSUME NEW t \in Threads, native[t].at \in Connecting PROVE Connector(t)'
      OBVIOUS
    <3>1. Connector(t)
      BY OneConnector
    <3> QED
      BY <1>3, <2>1, <2>2, <3>1 DEF Connector
  <2>6. Connectors'
    BY <1>3, <2>5 DEF ConnectionInv, Connectors
  <2> QED
    BY <2>3, <2>4, <2>6 DEF ConnectionCore
<1> QED
  BY <1>4, <1>5

LEMMA ConnectCore ==
    ASSUME ConnectionInv, NEW t \in Threads, Connect(t)
    PROVE  ConnectionCore'
<1>1. GlobalType /\ native \in [Threads -> NativeType]
  BY TypeSplit DEF ConnectionInv
<1>2. /\ halCallback = 0 /\ \A u \in Threads : native[u].at \notin Connecting
      /\ gNextConnectionEpoch \in Nat
  BY <1>1, ConnectFresh DEF GlobalType
<1>3. /\ gConnectLock' = t /\ gHal' = life /\ life # 0 /\ gConnectionReady' = FALSE
      /\ gConnectionEpoch' = gNextConnectionEpoch + 1
      /\ gNextConnectionEpoch' = gNextConnectionEpoch + 1
      /\ UNCHANGED <<life, lives, halCallback, links>>
  BY DEF Connect, hal
<1>4. /\ native'[t].at = "link" /\ native'[t].h = life
      /\ native'[t].epoch = gNextConnectionEpoch + 1
      /\ \A u \in Threads \ {t} : native'[u] = native[u]
  BY <1>1 DEF Connect, NativeType
<1>5. \A l \in links : l.epoch # gConnectionEpoch'
  BY <1>1, <1>2, <1>3 DEF GlobalType
<1>6. EpochOfHal' /\ HalConnected' /\ LinkOfHal' /\ Established'
  BY <1>2, <1>3, <1>5, Bounds DEF EpochOfHal, HalConnected, LinkOfHal, Established, Connected
<1>7. Connector(t)'
  BY <1>2, <1>3, <1>4 DEF Connector
<1>8. Connectors'
  BY <1>2, <1>3, <1>4, <1>7 DEF Connectors, Connecting
<1>9. Fresh'
  BY <1>3, <1>4 DEF Fresh, Connecting
<1> QED
  BY <1>6, <1>8, <1>9 DEF ConnectionCore

\* A connection that fails is taken back, and leaves nothing behind.
LEMMA ConnectFailsCore ==
    ASSUME ConnectionInv, NEW t \in Threads, native[t].at \in {"link", "setCallback"},
           life # native[t].h, ConnectFails(t), links' \subseteq links,
           UNCHANGED <<life, lives, halCallback>>
    PROVE  ConnectionCore'
<1>1. GlobalType /\ native \in [Threads -> NativeType]
  BY TypeSplit DEF ConnectionInv
<1>2. Connector(t) /\ \A u \in Threads \ {t} : native[u].at \notin Connecting
  BY OneConnector DEF Connecting
<1>3. gHal' = 0 /\ gConnectionEpoch' = 0 /\ gConnectionReady' = FALSE
  <2>1. CASE gConnectionEpoch = native[t].epoch
    BY <2>1 DEF ConnectFails
  <2>2. CASE gConnectionEpoch # native[t].epoch
    BY <1>2, <2>2 DEF ConnectFails, Connector, ConnectionInv, EpochOfHal
  <2> QED
    BY <2>1, <2>2, Zenon
<1>4. halCallback = 0
  BY <1>2 DEF Connector
<1>5. /\ native'[t] = Returned(FALSE) /\ \A u \in Threads \ {t} : native'[u] = native[u]
      /\ gConnectLock' = None /\ gNextConnectionEpoch' = gNextConnectionEpoch
  BY <1>1 DEF ConnectFails, AfterHal
<1>6. \A u \in Threads : native'[u].at \notin Connecting
  BY <1>2, <1>5 DEF Returned, Connecting
<1>7. \A l \in links : l.epoch # 0
  BY <1>1 DEF GlobalType
<1>8. EpochOfHal' /\ HalConnected' /\ LinkOfHal' /\ Established' /\ Connectors'
  BY <1>3, <1>4, <1>5, <1>6, <1>7
     DEF EpochOfHal, HalConnected, LinkOfHal, Established, Connected, Connectors
<1>9. Fresh'
  BY <1>2, <1>4, <1>5 DEF ConnectionInv, Fresh
<1> QED
  BY <1>8, <1>9 DEF ConnectionCore

LEMMA LinkCore ==
    ASSUME ConnectionInv, NEW t \in Threads, Link(t)
    PROVE  ConnectionCore'
<1>1. GlobalType /\ native \in [Threads -> NativeType]
  BY TypeSplit DEF ConnectionInv
<1>2. native[t].at = "link" /\ UNCHANGED <<life, lives, halCallback>>
  BY DEF Link, hal
<1>3. Connector(t) /\ \A u \in Threads \ {t} : native[u].at \notin Connecting
  BY <1>2, OneConnector DEF Connecting
<1>4. CASE life = native[t].h
  <2> DEFINE k == [epoch |-> native[t].epoch, life |-> life]
  <2>1. links' = links \cup {k} /\ UNCHANGED <<connection, gConnectLock>>
    BY <1>4 DEF Link
  <2>2. /\ native'[t].at = "setCallback" /\ native'[t].h = native[t].h
        /\ native'[t].epoch = native[t].epoch
        /\ \A u \in Threads \ {t} : native'[u] = native[u]
    BY <1>1, <1>4 DEF Link, NativeType
  <2>3. EpochOfHal' /\ HalConnected' /\ LinkOfHal'
    BY <1>2, <1>3, <1>4, <2>1
       DEF ConnectionInv, EpochOfHal, HalConnected, LinkOfHal, Connector, connection
  <2>4. Established'
    BY <1>2, <2>1 DEF ConnectionInv, Established, Connected, connection
  <2>5. Connector(t)'
    BY <1>2, <1>3, <1>4, <2>1, <2>2 DEF Connector, connection
  <2>6. Connectors'
    BY <1>3, <2>1, <2>2, <2>5 DEF ConnectionInv, Connectors, Connecting, Connector
  <2>7. Fresh'
    <3>1. \A u \in Threads : native[u].at \in Connecting
                                 => native'[u].at \in Connecting /\ native'[u].h = native[u].h
      BY <2>2 DEF Connecting
    <3> QED
      BY <1>2, <2>1, <3>1 DEF ConnectionInv, Fresh, connection
  <2> QED
    BY <2>3, <2>4, <2>6, <2>7 DEF ConnectionCore
<1>5. CASE life # native[t].h
  BY <1>2, <1>5, ConnectFailsCore DEF Link
<1> QED
  BY <1>4, <1>5

LEMMA SetCallbackCore ==
    ASSUME ConnectionInv, NEW t \in Threads, SetCallback(t)
    PROVE  ConnectionCore'
<1>1. GlobalType /\ native \in [Threads -> NativeType]
  BY TypeSplit DEF ConnectionInv
<1>2. native[t].at = "setCallback" /\ UNCHANGED <<life, lives>>
  BY DEF SetCallback
<1>3. Connector(t) /\ \A u \in Threads \ {t} : native[u].at \notin Connecting
  BY <1>2, OneConnector DEF Connecting
<1>4. CASE life = native[t].h
  <2>1. halCallback' = native[t].epoch /\ UNCHANGED <<links, connection, gConnectLock>>
    BY <1>4 DEF SetCallback
  <2>2. /\ native'[t].at = "ready" /\ native'[t].h = native[t].h
        /\ native'[t].epoch = native[t].epoch
        /\ \A u \in Threads \ {t} : native'[u] = native[u]
    BY <1>1, <1>4 DEF SetCallback, NativeType
  <2>3. EpochOfHal' /\ HalConnected' /\ LinkOfHal'
    BY <1>2, <1>3, <1>4, <2>1
       DEF ConnectionInv, EpochOfHal, HalConnected, LinkOfHal, Connector, connection
  <2>4. Established'
    BY <1>2, <1>3, <1>4, <2>1
       DEF ConnectionInv, Established, Connected, Connector, connection
  <2>5. Connector(t)'
    BY <1>2, <1>3, <1>4, <2>1, <2>2 DEF Connector, connection
  <2>6. Connectors'
    BY <1>3, <2>1, <2>2, <2>5 DEF ConnectionInv, Connectors, Connecting, Connector
  <2>7. Fresh'
    BY <1>3, <2>1 DEF Fresh, Connector
  <2> QED
    BY <2>3, <2>4, <2>6, <2>7 DEF ConnectionCore
<1>5. CASE life # native[t].h
  <2>1. ConnectFails(t) /\ links' \subseteq links /\ UNCHANGED halCallback
    BY <1>5 DEF SetCallback
  <2> QED
    BY <1>2, <1>5, <2>1, ConnectFailsCore
<1> QED
  BY <1>4, <1>5

LEMMA ConnectionReadyCore ==
    ASSUME ConnectionInv, NEW t \in Threads, ConnectionReady(t)
    PROVE  ConnectionCore'
<1>1. GlobalType /\ native \in [Threads -> NativeType]
  BY TypeSplit DEF ConnectionInv
<1>2. /\ native[t].at = "ready" /\ gConnectLock' = None
      /\ UNCHANGED <<life, lives, halCallback, links, gHal, gConnectionEpoch, gNextConnectionEpoch>>
  BY DEF ConnectionReady, hal
<1>3. Connector(t) /\ \A u \in Threads \ {t} : native[u].at \notin Connecting
  BY <1>2, OneConnector DEF Connecting
<1>4. gConnectionReady' = (gConnectionEpoch = native[t].epoch)
  BY <1>1, <1>3 DEF ConnectionReady, Connector, GlobalType
<1>5. \A u \in Threads : native'[u].at \notin Connecting
  BY <1>1, <1>3 DEF ConnectionReady, AfterHal, Returned, NativeType, Connecting
<1>6. EpochOfHal' /\ HalConnected' /\ LinkOfHal'
  BY <1>2, <1>3, <1>4, Zenon DEF ConnectionInv, EpochOfHal, HalConnected, LinkOfHal, Connector
<1>7. Established'
  <2>1. CASE gConnectionEpoch = native[t].epoch
    BY <1>2, <1>3, <1>4, <2>1, Zenon DEF Established, Connected, Connector
  <2>2. CASE gConnectionEpoch # native[t].epoch
    BY <1>2, <1>3, <1>4, <2>2 DEF ConnectionInv, EpochOfHal, Established, Connected, Connector
  <2> QED
    BY <2>1, <2>2
<1>8. Connectors'
  BY <1>2, <1>5 DEF Connectors
<1>9. Fresh'
  BY <1>2, <1>3 DEF ConnectionInv, Fresh, Connector
<1> QED
  BY <1>6, <1>7, <1>8, <1>9 DEF ConnectionCore

\* What a native method after hal() does to its thread.
LEMMA MethodStepThread ==
    ASSUME ConnectionInv, NEW t \in Threads, MethodStep(t)
    PROVE  /\ native[t].at \notin Connecting /\ native'[t].at \notin Connecting
           /\ \A u \in Threads \ {t} : native'[u] = native[u]
           /\ native'[t].at # "lock"
           /\ native'[t].at \in {"rpc", "restore"}
                 /\ native'[t].method \in {"registerProducer", "removeProducer"}
                 => native'[t].h # 0 /\ native'[t].epoch # 0
<1>1. native \in [Threads -> NativeType] /\ native[t] \in NativeType /\ Calling /\ EpochOfHal
  BY TypeSplit DEF ConnectionInv
<1>2. CASE MaxCameras(t) \/ ReadyLock(t) \/ ReadyRpc(t) \/ RemoveRpc(t)
  BY <1>1, <1>2 DEF MaxCameras, ReadyLock, ReadyRpc, RemoveRpc, NativeType, Returned, Connecting
<1>3. CASE RegisterLock(t) \/ RemoveLock(t)
  <2>1. native[t].at = "lock" /\ native[t].h # 0
    BY <1>1, <1>3, Zenon DEF RegisterLock, RemoveLock, Calling
  <2>2. gHal = native[t].h => gConnectionEpoch # 0
    BY <1>1, <2>1 DEF EpochOfHal
  <2>3. \A u \in Threads \ {t} : native'[u] = native[u]
    BY <1>1, <1>3, Zenon DEF RegisterLock, RemoveLock
  <2>4. \/ native'[t] = Returned(FALSE)
        \/ /\ gHal = native[t].h
           /\ native'[t] = [native[t] EXCEPT !.at = "rpc", !.epoch = gConnectionEpoch,
                                             !.previous = gRegistrations[native[t].slot]]
        \/ /\ gHal = native[t].h
           /\ native'[t] = [native[t] EXCEPT !.at = "rpc", !.epoch = gConnectionEpoch]
    BY <1>1, <1>3, Zenon DEF RegisterLock, RemoveLock
  <2> DEFINE n == [native[t] EXCEPT !.at = "rpc", !.epoch = gConnectionEpoch]
             p == [native[t] EXCEPT !.at = "rpc", !.epoch = gConnectionEpoch,
                                    !.previous = gRegistrations[native[t].slot]]
  <2>5. /\ Returned(FALSE).at = "java"
        /\ n.at = "rpc" /\ n.h = native[t].h /\ n.epoch = gConnectionEpoch
        /\ p.at = "rpc" /\ p.h = native[t].h /\ p.epoch = gConnectionEpoch
    BY <1>1 DEF NativeType, Returned
  <2>6. \/ native'[t].at = "java"
        \/ /\ native'[t].at = "rpc" /\ native'[t].h = native[t].h
           /\ native'[t].epoch = gConnectionEpoch /\ gHal = native[t].h
    BY <2>4, <2>5, Zenon
  <2> QED
    BY <2>1, <2>2, <2>3, <2>6 DEF Connecting
<1>4. CASE RegisterRpc(t) \/ RegisterRestore(t)
  <2>1. CASE RegisterRpc(t)
    <3>1. /\ native[t].at = "rpc" /\ native[t].h # 0 /\ native[t].epoch # 0
          /\ \A u \in Threads \ {t} : native'[u] = native[u]
      BY <1>1, <2>1, Zenon DEF RegisterRpc, Calling, NativeType
    <3>2. \/ native'[t] = Returned(TRUE)
          \/ native'[t] = [native[t] EXCEPT !.at = "restore"]
      BY <1>1, <2>1 DEF RegisterRpc
    <3> QED
      BY <1>1, <3>1, <3>2 DEF NativeType, Returned, Connecting
  <2>2. CASE RegisterRestore(t)
    BY <1>1, <2>2 DEF RegisterRestore, NativeType, Returned, Connecting
  <2> QED
    BY <1>4, <2>1, <2>2
<1>5. CASE SurfaceCheck(t) \/ SurfaceAbandon(t) \/ SurfaceInstall(t) \/ ReleaseSurface(t)
  BY <1>1, <1>5
     DEF SurfaceCheck, SurfaceAbandon, SurfaceInstall, ReleaseSurface, NativeType, Returned,
         Connecting
<1> QED
  BY <1>2, <1>3, <1>4, <1>5 DEF MethodStep

LEMMA MethodStepCore ==
    ASSUME ConnectionInv, NEW t \in Threads, MethodStep(t)
    PROVE  ConnectionCore'
<1>1. UNCHANGED <<life, lives, halCallback, connection, links, gConnectLock>>
  BY Zenon DEF MethodStep, MaxCameras, RegisterLock, RegisterRpc, RegisterRestore, RemoveLock, RemoveRpc,
         ReadyLock, ReadyRpc, SurfaceCheck, SurfaceAbandon, SurfaceInstall, ReleaseSurface, hal
<1> QED
  BY <1>1, MethodStepThread, QuietCore DEF HalQuiet

\* hal() with a connection, or without a HAL.
LEMMA HalCachedCore ==
    ASSUME ConnectionInv, NEW t \in Threads, HalCached(t) \/ HalAbsent(t)
    PROVE  ConnectionCore'
<1>1. UNCHANGED <<life, lives, halCallback, connection, links, gConnectLock>>
  BY DEF HalCached, HalAbsent, hal
<1>2. native \in [Threads -> NativeType] /\ native[t] \in NativeType
  BY TypeSplit DEF ConnectionInv
<1>3. native[t].at = "hal" /\ native'[t].at \in {"java", "lock"}
      /\ \A u \in Threads \ {t} : native'[u] = native[u]
  <2>1. PICK h : native[t].at = "hal" /\ AfterHal(t, h)
    BY DEF HalCached, HalAbsent
  <2>2. /\ \A u \in Threads \ {t} : native'[u] = native[u]
        /\ \/ native'[t] = Returned(FALSE) \/ native'[t] = Returned(TRUE)
           \/ native'[t] = [native[t] EXCEPT !.at = "lock", !.h = h]
    BY <1>2, <2>1, Zenon DEF AfterHal
  <2>3. /\ Returned(FALSE).at = "java" /\ Returned(TRUE).at = "java"
        /\ [native[t] EXCEPT !.at = "lock", !.h = h].at = "lock"
    BY <1>2 DEF NativeType, Returned
  <2> QED
    BY <2>1, <2>2, <2>3
<1> QED
  BY <1>1, <1>3, QuietCore DEF HalQuiet, Connecting

LEMMA JavaCallsCore ==
    ASSUME ConnectionInv, JavaCalls
    PROVE  ConnectionCore'
<1>1. PICK t \in Threads, x \in NativeType :
          /\ native[t].at = "java" /\ native' = [native EXCEPT ![t] = x]
          /\ x.at \in {"java", "hal", "check", "release"}
  BY JavaCallsNative DEF ConnectionInv
<1>2. native \in [Threads -> NativeType]
  BY TypeSplit DEF ConnectionInv
<1> QED
  BY <1>1, <1>2, QuietCore DEF HalQuiet, Connecting, JavaCalls, hal

LEMMA NextCore ==
    ASSUME ConnectionInv, Next
    PROVE  ConnectionCore'
<1>1. CASE Hal
  <2>1. ASSUME NEW s \in Slots, HalConfigure(s) \/ HalClose(s)
        PROVE  ConnectionCore'
    BY <2>1, QuietCore, Zenon DEF HalConfigure, HalClose, HalQuiet
  <2> QED
    BY <1>1, <2>1, HalStartCore, HalCrashCore DEF Hal
<1>2. CASE RelayAlone
  <2>1. ASSUME NEW k \in calls, Admit(k)
        PROVE  ConnectionCore'
    BY <2>1, QuietCore DEF Admit, HalQuiet, hal
  <2>2. ASSUME NEW d \in deaths, NEW s \in Slots, DeathReleases(d, s)
        PROVE  ConnectionCore'
    BY <2>2, QuietCore DEF DeathReleases, HalQuiet, hal
  <2>3. ASSUME NEW s \in Slots, FrameFails(s)
        PROVE  ConnectionCore'
    BY <2>3, QuietCore DEF FrameFails, HalQuiet, hal
  <2> QED
    BY <1>2, <2>1, <2>2, <2>3, HalDiedCore DEF RelayAlone
<1>3. CASE JavaDelivers
  BY <1>3, QuietCore DEF JavaDelivers, HalQuiet, hal
<1>4. ASSUME NEW t \in Threads, HalStep(t)
      PROVE  ConnectionCore'
  BY <1>4, HalCachedCore, ConnectCore, LinkCore, SetCallbackCore, ConnectionReadyCore DEF HalStep
<1> QED
  BY <1>1, <1>2, <1>3, <1>4, StepCases, JavaCallsCore, MethodStepCore

LEMMA NextCalling ==
    ASSUME ConnectionInv, Next
    PROVE  Calling'
<1>1. native \in [Threads -> NativeType] /\ Calling
  BY TypeSplit DEF ConnectionInv
<1>2. CASE native' = native
  BY <1>1, <1>2 DEF Calling
<1>3. ASSUME NEW t \in Threads, NEW x \in NativeType, native' = [native EXCEPT ![t] = x],
             x.at \notin {"lock", "rpc", "restore"}
      PROVE  Calling'
  BY <1>1, <1>3 DEF Calling
<1>4. ASSUME NEW t \in Threads, NEW h, AfterHal(t, h)
      PROVE  Calling'
  <2>1. /\ \A u \in Threads \ {t} : native'[u] = native[u]
        /\ native'[t].at \notin {"rpc", "restore"}
        /\ native'[t].at = "lock" => native'[t].h # 0
    BY <1>1, <1>4 DEF AfterHal, Returned, NativeType
  <2> QED
    BY <1>1, <2>1 DEF Calling
<1>5. ASSUME NEW t \in Threads, HalStep(t)
      PROVE  Calling'
  <2>1. CASE HalCached(t) \/ HalAbsent(t) \/ ConnectionReady(t)
    BY <1>4, <2>1 DEF HalCached, HalAbsent, ConnectionReady
  <2>2. CASE Connect(t)
    <3>1. native'[t].at = "link" /\ \A u \in Threads \ {t} : native'[u] = native[u]
      BY <1>1, <2>2 DEF Connect, NativeType
    <3> QED
      BY <1>1, <3>1 DEF Calling
  <2>3. CASE Link(t) \/ SetCallback(t)
    <3>1. CASE life = native[t].h
      <4>1. native'[t].at \in Connecting /\ \A u \in Threads \ {t} : native'[u] = native[u]
        BY <1>1, <2>3, <3>1 DEF Link, SetCallback, NativeType, Connecting
      <4> QED
        BY <1>1, <4>1 DEF Calling, Connecting
    <3>2. CASE life # native[t].h
      BY <1>4, <2>3, <3>2 DEF Link, SetCallback, ConnectFails
    <3> QED
      BY <3>1, <3>2
  <2> QED
    BY <1>5, <2>1, <2>2, <2>3 DEF HalStep
<1>6. ASSUME NEW t \in Threads, MethodStep(t)
      PROVE  Calling'
  <2>1. \A u \in Threads \ {t} : native'[u] = native[u]
    BY <1>6, MethodStepThread
  <2>2. /\ native'[t].at # "lock"
        /\ native'[t].at \in {"rpc", "restore"}
              /\ native'[t].method \in {"registerProducer", "removeProducer"}
              => native'[t].h # 0 /\ native'[t].epoch # 0
    BY <1>6, MethodStepThread
  <2> QED
    BY <1>1, <2>1, <2>2 DEF Calling
<1>7. CASE JavaCalls
  BY <1>3, <1>7, JavaCallsNative DEF ConnectionInv
<1>8. CASE Hal \/ RelayAlone \/ JavaDelivers
  BY <1>2, <1>8, Zenon
     DEF Hal, HalStart, HalCrash, HalConfigure, HalClose, RelayAlone, Admit, HalDied, DeathReleases,
         FrameFails, JavaDelivers
<1> QED
  BY <1>5, <1>6, <1>7, <1>8, StepCases

LEMMA NextProducer ==
    ASSUME ConnectionInv, Next
    PROVE  ProducerConnected'
<1>1. GlobalType /\ ProducerConnected /\ native \in [Threads -> NativeType]
  BY TypeSplit DEF ConnectionInv
<1>2. CASE UNCHANGED <<halCallback, halProducer, halToken>>
  BY <1>1, <1>2 DEF ProducerConnected
<1>3. CASE Hal
  <2>1. ASSUME NEW s \in Slots, HalConfigure(s) \/ HalClose(s)
        PROVE  ProducerConnected'
    BY <1>1, <2>1, Zenon DEF HalConfigure, HalClose, ProducerConnected, GlobalType
  <2>2. CASE HalCrash
    BY <2>2 DEF HalCrash, ProducerConnected
  <2>3. CASE HalStart
    BY <1>2, <2>3 DEF HalStart
  <2> QED
    BY <1>3, <2>1, <2>2, <2>3 DEF Hal
<1>4. CASE RelayAlone \/ JavaCalls \/ JavaDelivers
  BY <1>2, <1>4, Zenon
     DEF RelayAlone, Admit, HalDied, DeathReleases, FrameFails, JavaCalls, JavaDelivers, hal
<1>5. ASSUME NEW t \in Threads, HalStep(t)
      PROVE  ProducerConnected'
  <2>1. CASE SetCallback(t) /\ life = native[t].h
    <3>1. native[t].epoch # 0
      BY <2>1, OneConnector, Zenon DEF SetCallback, Connecting, Connector
    <3> QED
      BY <1>1, <2>1, <3>1 DEF SetCallback, ProducerConnected
  <2>2. CASE ~(SetCallback(t) /\ life = native[t].h)
    BY <1>2, <1>5, <2>2
       DEF HalStep, HalCached, HalAbsent, Connect, Link, SetCallback, ConnectionReady, hal
  <2> QED
    BY <2>1, <2>2
<1>6. ASSUME NEW t \in Threads, MethodStep(t)
      PROVE  ProducerConnected'
  <2>1. native[t].slot \in Slots
    BY <1>1 DEF NativeType
  <2>2. CASE RegisterRpc(t)
    <3>1. native[t].epoch # 0
      BY <2>2 DEF RegisterRpc, ConnectionInv, Calling
    <3>2. UNCHANGED halCallback
      BY <2>2 DEF RegisterRpc
    <3> QED
      BY <1>1, <2>1, <2>2, <3>1, <3>2, Zenon DEF RegisterRpc, ProducerConnected, GlobalType
  <2>3. CASE RemoveRpc(t)
    BY <1>1, <2>1, <2>3 DEF RemoveRpc, ProducerConnected, GlobalType
  <2>4. CASE ReadyRpc(t)
    BY <1>1, <2>1, <2>4 DEF ReadyRpc, ProducerConnected, GlobalType
  <2>5. CASE ~RegisterRpc(t) /\ ~RemoveRpc(t) /\ ~ReadyRpc(t)
    BY <1>2, <1>6, <2>5, Zenon
       DEF MethodStep, MaxCameras, RegisterLock, RegisterRestore, RemoveLock, ReadyLock,
           SurfaceCheck, SurfaceAbandon, SurfaceInstall, ReleaseSurface, hal
  <2> QED
    BY <2>2, <2>3, <2>4, <2>5
<1> QED
  BY <1>3, <1>4, <1>5, <1>6, StepCases

LEMMA InitConnection == RelayInit => ConnectionInv
<1> SUFFICES ASSUME RelayInit PROVE ConnectionInv
  OBVIOUS
<1>1. GlobalType
  <2>1. 0 \in 0 .. 0 /\ 0 \in 0 .. MaxLives /\ 0 \in 0 .. MaxTokens
    BY Bounds
  <2>2. /\ [s \in Slots |-> NoConfiguration] \in [Slots -> [token : 0 .. MaxTokens, closed : BOOLEAN]]
        /\ [s \in Slots |-> NoQueue] \in [Slots -> [connection : 0 .. 0, token : 0 .. MaxTokens]]
    BY <2>1 DEF NoConfiguration, NoQueue
  <2>3. /\ [s \in Slots |-> None] \in [Slots -> Registration]
        /\ [s \in Slots |-> None] \in [Slots -> Threads \cup {None}]
        /\ [s \in Slots |-> 0] \in [Slots -> 0 .. MaxTokens]
    BY <2>1 DEF Registration
  <2> QED
    BY <2>1, <2>2, <2>3, Zenon DEF RelayInit, GlobalType
<1>2. native \in [Threads -> NativeType]
  BY <1>1, ReturnedType, Zenon DEF RelayInit
<1>3. \A t \in Threads : native[t].at = "java"
  BY DEF RelayInit, Returned
<1>4. EpochOfHal /\ HalConnected /\ ProducerConnected /\ LinkOfHal /\ Established /\ Fresh
  BY DEF RelayInit, EpochOfHal, HalConnected, ProducerConnected, LinkOfHal, Established, Connected,
         Fresh
<1>5. Connectors /\ Calling
  BY <1>3, Zenon DEF RelayInit, Connectors, Connecting, Calling
<1> QED
  BY <1>1, <1>2, <1>4, <1>5, TypeSplit DEF ConnectionInv

LEMMA StutterConnection == ConnectionInv /\ UNCHANGED relayVars => ConnectionInv'
  BY DEF ConnectionInv, relayVars, hal, connection, admission, queues, RelayTypeOK, EpochOfHal,
         HalConnected, ProducerConnected, LinkOfHal, Connectors, Connector, Established, Connected,
         Fresh, Calling

LEMMA NextConnection == ConnectionInv /\ [Next]_relayVars => ConnectionInv'
<1> SUFFICES ASSUME ConnectionInv, Next PROVE ConnectionInv'
  BY StutterConnection
<1> QED
  BY NextType, NextCore, NextCalling, NextProducer DEF ConnectionInv, ConnectionCore

\* What ConnectionInv says of the relay holds in every state.
THEOREM ConnectionCorrect == Spec => []ConnectionInv
  BY InitConnection, NextConnection, PTL DEF Spec

\* VirtualCameraRelayJni.cpp keeps its globals, and the arguments and results of
\* its native methods, within their ranges; each HAL process gets one connection
\* at most, so that epochs are not reused.
THEOREM RelayTypeCorrect == Spec => []RelayTypeOK
<1>1. ConnectionInv => RelayTypeOK
  BY DEF ConnectionInv
<1> QED
  BY <1>1, ConnectionCorrect, PTL

\* hal() publishes a connection before it is ready: whatever fails or dies
\* before gConnectionReady is set, a thread is still there to complete the
\* connection or to undo it, and one that is complete has its death recipient
\* and its callback.
THEOREM ConnectionOwnedCorrect == Spec => []ConnectionOwned
<1>1. ConnectionInv => ConnectionOwned
  <2> SUFFICES ASSUME ConnectionInv PROVE ConnectionOwned
    OBVIOUS
  <2>1. gConnectLock # None => gConnectLock \in Threads /\ native[gConnectLock].at \in Connecting
    BY DEF ConnectionInv, RelayTypeOK, Connectors
  <2>2. ASSUME gHal # 0, ~gConnectionReady
        PROVE  /\ gConnectLock # None /\ native[gConnectLock].at \in Connecting
               /\ native[gConnectLock].epoch = gConnectionEpoch
    <3>1. gConnectLock # None /\ gConnectionEpoch # 0
      BY <2>2 DEF ConnectionInv, Established, EpochOfHal
    <3>2. Connector(gConnectLock)
      BY <2>1, <3>1 DEF ConnectionInv, Connectors
    <3> QED
      BY <2>1, <3>1, <3>2 DEF Connector
  <2> QED
    BY <2>2 DEF ConnectionInv, Established, ConnectionOwned, Connecting
<1> QED
  BY <1>1, ConnectionCorrect, PTL

----------------------------------------------------------------------------
(***************************************************************************)
(* Queues.                                                                 *)
(***************************************************************************)

\* Callbacks come from connections that have been made.
CallsOfConnections == \A k \in calls : k.epoch <= gNextConnectionEpoch

QueuesConnected == \A s \in Slots : gSlots[s] # NoQueue => gSlots[s].connection # 0

\* A connection that may still be taken back has announced no configuration,
\* and so has no queue.
Starting(t) == native[t].at \in {"link", "setCallback"}

Unannounced ==
    \A t \in Threads :
        Starting(t) => /\ \A k \in calls : k.epoch # native[t].epoch
                       /\ \A s \in Slots : /\ gConfigurations[s].token = 0
                                           /\ gSlots[s].connection # native[t].epoch

QueueInv == CallsOfConnections /\ QueuesConnected /\ Unannounced /\ QueueOfConnection

\* Only Connect begins a connection.
NoStart ==
    \A t \in Threads : Starting(t)' => Starting(t) /\ native'[t].epoch = native[t].epoch

LEMMA NoStartUnless ==
    ASSUME ConnectionInv, Next, \A t \in Threads : ~Connect(t)
    PROVE  NoStart
<1>1. native \in [Threads -> NativeType]
  BY TypeSplit DEF ConnectionInv
<1>2. CASE native' = native
  BY <1>2 DEF NoStart, Starting
<1>3. ASSUME NEW t \in Threads, NEW h, AfterHal(t, h)
      PROVE  NoStart
  <2>1. /\ \A u \in Threads \ {t} : native'[u] = native[u]
        /\ native'[t].at \in {"java", "lock"}
    BY <1>1, <1>3 DEF AfterHal, Returned, NativeType
  <2> QED
    BY <2>1 DEF NoStart, Starting
<1>4. ASSUME NEW t \in Threads, HalStep(t)
      PROVE  NoStart
  <2>1. CASE HalCached(t) \/ HalAbsent(t) \/ ConnectionReady(t)
    BY <1>3, <2>1 DEF HalCached, HalAbsent, ConnectionReady
  <2>2. CASE (Link(t) \/ SetCallback(t)) /\ life # native[t].h
    BY <1>3, <2>2 DEF Link, SetCallback, ConnectFails
  <2>3. CASE (Link(t) \/ SetCallback(t)) /\ life = native[t].h
    <3>1. /\ native[t].at \in {"link", "setCallback"}
          /\ native'[t].epoch = native[t].epoch
          /\ \A u \in Threads \ {t} : native'[u] = native[u]
      BY <1>1, <2>3 DEF Link, SetCallback, NativeType
    <3> QED
      BY <3>1 DEF NoStart, Starting
  <2> QED
    BY <1>4, <2>1, <2>2, <2>3 DEF HalStep
<1>5. ASSUME NEW t \in Threads, MethodStep(t)
      PROVE  NoStart
  BY <1>5, MethodStepThread DEF NoStart, Starting, Connecting
<1>6. CASE JavaCalls
  <2>1. PICK t \in Threads, x \in NativeType :
            native' = [native EXCEPT ![t] = x] /\ x.at \in {"java", "hal", "check", "release"}
    BY <1>6, JavaCallsNative DEF ConnectionInv
  <2> QED
    BY <1>1, <2>1 DEF NoStart, Starting
<1>7. CASE Hal \/ RelayAlone \/ JavaDelivers
  BY <1>2, <1>7, Zenon
     DEF Hal, HalStart, HalCrash, HalConfigure, HalClose, RelayAlone, Admit, HalDied, DeathReleases,
         FrameFails, JavaDelivers
<1> QED
  BY <1>4, <1>5, <1>6, <1>7, StepCases

\* Steps that add no callback, no configuration and no queue, and keep the
\* connection and the deaths under way.
LEMMA QueueKept ==
    ASSUME ConnectionInv, QueueInv, NoStart,
           UNCHANGED <<gConnectionEpoch, gNextConnectionEpoch>>,
           \A k \in calls' : \E l \in calls : k.epoch = l.epoch,
           \A s \in Slots : gConfigurations'[s].token = gConfigurations[s].token,
           \A s \in Slots : gSlots'[s] = gSlots[s] \/ gSlots'[s] = NoQueue,
           \A d \in deaths : d.slots # {} => d \in deaths'
    PROVE  QueueInv'
<1>1. CallsOfConnections' /\ QueuesConnected'
  BY DEF QueueInv, CallsOfConnections, QueuesConnected
<1>2. Unannounced'
  <2> SUFFICES ASSUME NEW t \in Threads, Starting(t)'
               PROVE  /\ \A k \in calls' : k.epoch # native'[t].epoch
                      /\ \A s \in Slots : /\ gConfigurations'[s].token = 0
                                          /\ gSlots'[s].connection # native'[t].epoch
    BY DEF Unannounced
  <2>1. Starting(t) /\ native'[t].epoch = native[t].epoch
    BY DEF NoStart
  <2>2. native[t].epoch # 0
    BY <2>1, OneConnector, Zenon DEF Starting, Connecting, Connector
  <2> QED
    BY <2>1, <2>2 DEF QueueInv, Unannounced, NoQueue
<1>3. QueueOfConnection'
  BY DEF QueueInv, QueueOfConnection
<1> QED
  BY <1>1, <1>2, <1>3 DEF QueueInv

LEMMA MethodStepQueue ==
    ASSUME ConnectionInv, QueueInv, NEW t \in Threads, MethodStep(t), NoStart
    PROVE  QueueInv'
<1>1. GlobalType /\ native[t] \in NativeType
  BY TypeSplit DEF ConnectionInv
<1>2. native[t].slot \in Slots
  BY <1>1 DEF NativeType
<1>3. UNCHANGED <<gConnectionEpoch, gNextConnectionEpoch, calls, deaths>>
  BY Zenon DEF MethodStep, MaxCameras, RegisterLock, RegisterRpc, RegisterRestore, RemoveLock, RemoveRpc,
         ReadyLock, ReadyRpc, SurfaceCheck, SurfaceAbandon, SurfaceInstall, ReleaseSurface, hal,
         connection
<1>4. CASE ~SurfaceInstall(t)
  <2>1. \A s \in Slots : gConfigurations'[s].token = gConfigurations[s].token
    <3>1. CASE RemoveLock(t)
      <4> DEFINE slot == native[t].slot
                 c == [gConfigurations[slot] EXCEPT !.closed = TRUE]
      <4>1. c.token = gConfigurations[slot].token
        BY <1>1, <1>2 DEF GlobalType
      <4>2. gConfigurations' = gConfigurations \/ gConfigurations' = [gConfigurations EXCEPT ![slot] = c]
        BY <3>1, Zenon DEF RemoveLock, admission
      <4> QED
        BY <1>1, <1>2, <4>1, <4>2, Zenon DEF GlobalType
    <3>2. CASE ~RemoveLock(t)
      BY <1>4, <3>2, Zenon
         DEF MethodStep, MaxCameras, RegisterLock, RegisterRpc, RegisterRestore, RemoveRpc,
             ReadyLock, ReadyRpc, SurfaceCheck, SurfaceAbandon, ReleaseSurface, admission
    <3> QED
      BY <3>1, <3>2
  <2>2. \A s \in Slots : gSlots'[s] = gSlots[s] \/ gSlots'[s] = NoQueue
    <3>1. CASE SurfaceAbandon(t) \/ ReleaseSurface(t)
      BY <1>1, <3>1, Zenon DEF SurfaceAbandon, ReleaseSurface, QueueReleased, GlobalType
    <3>2. CASE ~SurfaceAbandon(t) /\ ~ReleaseSurface(t)
      BY <1>4, <3>2, Zenon
         DEF MethodStep, MaxCameras, RegisterLock, RegisterRpc, RegisterRestore, RemoveLock,
             RemoveRpc, ReadyLock, ReadyRpc, SurfaceCheck, queues
    <3> QED
      BY <3>1, <3>2
  <2> QED
    BY <1>3, <2>1, <2>2, QueueKept
<1>5. CASE SurfaceInstall(t)
  <2>1. UNCHANGED gConfigurations
    BY <1>5 DEF SurfaceInstall, admission
  <2>2. CASE ~InForce(native[t].slot, native[t].connection, native[t].token)
    BY <1>3, <1>5, <2>1, <2>2, QueueKept DEF SurfaceInstall
  <2>3. CASE InForce(native[t].slot, native[t].connection, native[t].token)
    <3> DEFINE q == [connection |-> native[t].connection, token |-> native[t].token]
    <3>1. gSlots' = [gSlots EXCEPT ![native[t].slot] = q]
      BY <1>5, <2>3 DEF SurfaceInstall
    <3>2. /\ q.connection # 0 /\ gConnectionEpoch = q.connection
          /\ gConfigurations[native[t].slot].token > 0
      BY <2>3 DEF InForce
    <3>3. CallsOfConnections' /\ QueuesConnected'
      BY <1>1, <1>3, <3>1, <3>2
         DEF QueueInv, CallsOfConnections, QueuesConnected, GlobalType
    <3>4. QueueOfConnection'
      BY <1>1, <1>3, <3>1, <3>2 DEF QueueInv, QueueOfConnection, GlobalType
    <3>5. \A u \in Threads : ~Starting(u)
      BY <1>2, <3>2 DEF QueueInv, Unannounced
    <3>6. Unannounced'
      BY <3>5 DEF Unannounced, NoStart
    <3> QED
      BY <3>3, <3>4, <3>6 DEF QueueInv
  <2> QED
    BY <2>2, <2>3
<1> QED
  BY <1>4, <1>5

\* The death of the current connection hands its queues to the cleanup.
LEMMA HalDiedQueue ==
    ASSUME ConnectionInv, QueueInv, NEW k \in links, HalDied(k), NoStart
    PROVE  QueueInv'
<1>1. UNCHANGED <<gNextConnectionEpoch, calls, gConfigurations, gSlots>>
  BY DEF HalDied, admission, queues
<1>2. CASE gHal # 0 /\ gConnectionEpoch = k.epoch
  <2>1. deaths' = deaths \cup {[epoch |-> gConnectionEpoch, slots |-> Slots]}
    BY <1>2 DEF HalDied
  <2>2. CallsOfConnections' /\ QueuesConnected'
    BY <1>1 DEF QueueInv, CallsOfConnections, QueuesConnected
  <2>3. QueueOfConnection'
    <3> SUFFICES ASSUME NEW s \in Slots, gSlots[s] # NoQueue
                 PROVE  \E d \in deaths' : d.epoch = gSlots[s].connection /\ s \in d.slots
      BY <1>1 DEF QueueOfConnection
    <3>1. CASE gConnectionEpoch = gSlots[s].connection
      <4> DEFINE d == [epoch |-> gConnectionEpoch, slots |-> Slots]
      <4>1. d \in deaths' /\ d.epoch = gSlots[s].connection /\ s \in d.slots
        BY <2>1, <3>1
      <4> QED
        BY <4>1
    <3>2. CASE gConnectionEpoch # gSlots[s].connection
      BY <2>1, <3>2 DEF QueueInv, QueueOfConnection
    <3> QED
      BY <3>1, <3>2
  <2>4. Unannounced'
    BY <1>1 DEF QueueInv, Unannounced, NoStart
  <2> QED
    BY <2>2, <2>3, <2>4 DEF QueueInv
<1>3. CASE ~(gHal # 0 /\ gConnectionEpoch = k.epoch)
  BY <1>1, <1>3, QueueKept DEF HalDied
<1> QED
  BY <1>2, <1>3

\* The cleanup passes a slot only by releasing its queue of that connection.
LEMMA DeathReleasesQueue ==
    ASSUME ConnectionInv, QueueInv, NEW d \in deaths, NEW s \in Slots, DeathReleases(d, s), NoStart
    PROVE  QueueInv'
<1>1. GlobalType
  BY TypeSplit DEF ConnectionInv
<1>2. UNCHANGED <<gConnectionEpoch, gNextConnectionEpoch, calls, gConfigurations>>
  BY DEF DeathReleases, admission, connection
<1> DEFINE e == [d EXCEPT !.slots = @ \ {s}]
<1>3. /\ deaths' = (deaths \ {d}) \cup {e}
      /\ d.epoch # 0 /\ e.epoch = d.epoch /\ e.slots = d.slots \ {s}
  BY <1>1 DEF DeathReleases, GlobalType
<1>4. /\ \A r \in Slots : gSlots'[r] = gSlots[r] \/ gSlots'[r] = NoQueue
      /\ gSlots'[s] # NoQueue => gSlots'[s] = gSlots[s] /\ gSlots[s].connection # d.epoch
  BY <1>1, <1>3 DEF DeathReleases, QueueReleased, GlobalType
<1>5. CallsOfConnections' /\ QueuesConnected'
  BY <1>2, <1>4 DEF QueueInv, CallsOfConnections, QueuesConnected
<1>6. QueueOfConnection'
  <2> SUFFICES ASSUME NEW r \in Slots, gSlots'[r] # NoQueue, gConnectionEpoch # gSlots'[r].connection
               PROVE  \E f \in deaths' : f.epoch = gSlots'[r].connection /\ r \in f.slots
    BY <1>2 DEF QueueOfConnection
  <2>1. gSlots'[r] = gSlots[r]
    BY <1>4
  <2>2. PICK f \in deaths : f.epoch = gSlots[r].connection /\ r \in f.slots
    BY <2>1 DEF QueueInv, QueueOfConnection
  <2>3. CASE f = d
    BY <1>3, <1>4, <2>1, <2>2, <2>3, Zenon
  <2>4. CASE f # d
    BY <1>3, <2>1, <2>2, <2>4
  <2> QED
    BY <2>3, <2>4
<1>7. Unannounced'
  <2> SUFFICES ASSUME NEW t \in Threads, Starting(t), native'[t].epoch = native[t].epoch
               PROVE  \A r \in Slots : gSlots'[r].connection # native[t].epoch
    BY <1>2 DEF QueueInv, Unannounced, NoStart
  <2>1. native[t].epoch # 0
    BY OneConnector, Zenon DEF Starting, Connecting, Connector
  <2> QED
    BY <1>4, <2>1 DEF QueueInv, Unannounced, NoQueue
<1> QED
  BY <1>5, <1>6, <1>7 DEF QueueInv

LEMMA ConnectQueue ==
    ASSUME ConnectionInv, QueueInv, NEW t \in Threads, Connect(t)
    PROVE  QueueInv'
<1>1. GlobalType /\ native \in [Threads -> NativeType]
  BY TypeSplit DEF ConnectionInv
<1>2. /\ gConnectionEpoch = 0 /\ gNextConnectionEpoch \in Nat
      /\ \A u \in Threads : native[u].at \notin Connecting
  BY <1>1, ConnectFresh DEF GlobalType
<1>3. /\ gNextConnectionEpoch' = gNextConnectionEpoch + 1
      /\ gConfigurations' = [s \in Slots |-> NoConfiguration]
      /\ UNCHANGED <<calls, gSlots, deaths>>
  BY DEF Connect, queues
<1>4. /\ native'[t].epoch = gNextConnectionEpoch + 1
      /\ \A u \in Threads \ {t} : native'[u] = native[u]
  BY <1>1 DEF Connect, NativeType
<1>5. \A k \in calls : k.epoch \in Nat /\ k.epoch <= gNextConnectionEpoch
  BY <1>1 DEF QueueInv, CallsOfConnections, GlobalType, Calls
<1>6. \A s \in Slots : gSlots[s].connection \in 0 .. gNextConnectionEpoch
  BY <1>1 DEF GlobalType
<1>7. CallsOfConnections' /\ QueuesConnected'
  BY <1>2, <1>3, <1>5 DEF QueueInv, CallsOfConnections, QueuesConnected
<1>8. QueueOfConnection'
  BY <1>2, <1>3 DEF QueueInv, QueueOfConnection, QueuesConnected
<1>9. Unannounced'
  <2> SUFFICES ASSUME NEW u \in Threads, Starting(u)'
               PROVE  /\ \A k \in calls' : k.epoch # native'[u].epoch
                      /\ \A s \in Slots : /\ gConfigurations'[s].token = 0
                                          /\ gSlots'[s].connection # native'[u].epoch
    BY DEF Unannounced
  <2>1. u = t
    BY <1>2, <1>4 DEF Starting, Connecting
  <2>2. \A k \in calls : k.epoch # gNextConnectionEpoch + 1
    BY <1>2, <1>5
  <2>3. \A s \in Slots : gSlots[s].connection # gNextConnectionEpoch + 1
    BY <1>2, <1>6
  <2> QED
    BY <1>3, <1>4, <2>1, <2>2, <2>3 DEF NoConfiguration
<1> QED
  BY <1>7, <1>8, <1>9 DEF QueueInv

LEMMA ConnectFailsQueue ==
    ASSUME ConnectionInv, QueueInv, NEW t \in Threads, Starting(t), ConnectFails(t), NoStart,
           UNCHANGED <<calls, gConfigurations, gSlots, deaths>>
    PROVE  QueueInv'
<1>1. UNCHANGED gNextConnectionEpoch
  BY DEF ConnectFails
<1>2. CallsOfConnections' /\ QueuesConnected' /\ Unannounced'
  BY <1>1 DEF QueueInv, CallsOfConnections, QueuesConnected, Unannounced, NoStart
<1>3. QueueOfConnection'
  <2>1. \A s \in Slots : gSlots[s].connection # native[t].epoch
    BY DEF QueueInv, Unannounced
  <2> QED
    BY <2>1 DEF QueueInv, QueueOfConnection, ConnectFails
<1> QED
  BY <1>2, <1>3 DEF QueueInv

LEMMA HalStepQueue ==
    ASSUME ConnectionInv, QueueInv, NEW t \in Threads, HalStep(t), NoStart \/ Connect(t)
    PROVE  QueueInv'
<1>1. CASE Connect(t)
  BY <1>1, ConnectQueue
<1>2. CASE NoStart /\ (HalCached(t) \/ HalAbsent(t) \/ ConnectionReady(t))
  <2>1. UNCHANGED <<gConnectionEpoch, gNextConnectionEpoch, calls, gConfigurations, gSlots, deaths>>
    BY <1>2 DEF HalCached, HalAbsent, ConnectionReady, connection, admission, queues
  <2> QED
    BY <1>2, <2>1, QueueKept
<1>3. CASE NoStart /\ (Link(t) \/ SetCallback(t)) /\ life = native[t].h
  <2>1. UNCHANGED <<gConnectionEpoch, gNextConnectionEpoch, calls, gConfigurations, gSlots, deaths>>
    BY <1>3 DEF Link, SetCallback, connection, admission, queues
  <2> QED
    BY <1>3, <2>1, QueueKept
<1>4. CASE NoStart /\ (Link(t) \/ SetCallback(t)) /\ life # native[t].h
  BY <1>4, ConnectFailsQueue DEF Link, SetCallback, Starting, admission, queues
<1> QED
  BY <1>1, <1>2, <1>3, <1>4 DEF HalStep

\* A configuration is announced on the connection whose callback the HAL holds.
LEMMA HalQueue ==
    ASSUME ConnectionInv, QueueInv, Hal, NoStart
    PROVE  QueueInv'
<1>1. UNCHANGED <<gConnectionEpoch, gNextConnectionEpoch, gConfigurations, gSlots, deaths>>
  BY Zenon DEF Hal, HalStart, HalCrash, HalConfigure, HalClose, connection, admission, queues
<1>2. CASE HalStart \/ HalCrash
  BY <1>1, <1>2, QueueKept DEF HalStart, HalCrash
<1>3. ASSUME NEW s \in Slots, HalConfigure(s) \/ HalClose(s)
      PROVE  QueueInv'
  <2>1. PICK k : calls' = calls \cup {k} /\ k.epoch = halCallback /\ halProducer[s] # None
    <3>1. halProducer[s] # None
      BY <1>3, Zenon DEF HalConfigure, HalClose, ConnectionInv, ProducerConnected
    <3>2. \A token, closed : Call(s, token, closed).epoch = halCallback
      BY DEF Call
    <3>3. \/ calls' = calls \cup {Call(s, halNextToken + 1, FALSE)}
          \/ calls' = calls \cup {Call(s, halToken[s], TRUE)}
      BY <1>3, Zenon DEF HalConfigure, HalClose
    <3> QED
      BY <3>1, <3>2, <3>3, Zenon
  <2>2. halCallback # 0 /\ halCallback <= gNextConnectionEpoch
    BY <2>1 DEF ConnectionInv, ProducerConnected, RelayTypeOK
  <2>3. CallsOfConnections' /\ QueuesConnected' /\ QueueOfConnection'
    BY <1>1, <2>1, <2>2
       DEF QueueInv, CallsOfConnections, QueuesConnected, QueueOfConnection
  <2>4. \A t \in Threads : ~Starting(t)
    BY <2>2, OneConnector, Zenon DEF Starting, Connecting, Connector
  <2> QED
    BY <2>3, <2>4 DEF QueueInv, Unannounced, NoStart
<1> QED
  BY <1>2, <1>3 DEF Hal

LEMMA AdmitQueue ==
    ASSUME ConnectionInv, QueueInv, NEW k \in calls, Admit(k), NoStart
    PROVE  QueueInv'
<1>1. GlobalType
  BY TypeSplit DEF ConnectionInv
<1>2. UNCHANGED <<gConnectionEpoch, gNextConnectionEpoch, gSlots, deaths>>
  BY DEF Admit, connection, queues
<1>3. CASE ~Admissible(k)
  BY <1>2, <1>3, QueueKept DEF Admit
<1>4. CASE Admissible(k)
  <2>1. \A l \in calls' : \E m \in calls : l.epoch = m.epoch
    BY <1>1, <1>4 DEF Admit, GlobalType, Calls
  <2>2. CallsOfConnections' /\ QueuesConnected' /\ QueueOfConnection'
    BY <1>2, <2>1 DEF QueueInv, CallsOfConnections, QueuesConnected, QueueOfConnection
  <2>3. \A t \in Threads : ~Starting(t)
    <3> SUFFICES ASSUME NEW t \in Threads, Starting(t) PROVE FALSE
      OBVIOUS
    <3>1. Connector(t)
      BY OneConnector DEF Starting, Connecting
    <3>2. gConnectionEpoch = k.epoch /\ gConnectionEpoch # 0
      BY <1>4 DEF Admissible, ConnectionInv, EpochOfHal
    <3>3. k.epoch = native[t].epoch
      BY <3>1, <3>2 DEF Connector
    <3> QED
      BY <3>3 DEF QueueInv, Unannounced
  <2> QED
    BY <2>2, <2>3 DEF QueueInv, Unannounced, NoStart
<1> QED
  BY <1>3, <1>4

LEMMA RelayAloneQueue ==
    ASSUME ConnectionInv, QueueInv, RelayAlone, NoStart
    PROVE  QueueInv'
<1>1. ASSUME NEW s \in Slots, FrameFails(s)
      PROVE  QueueInv'
  <2>1. gSlots \in [Slots -> [connection : 0 .. gNextConnectionEpoch, token : 0 .. MaxTokens]]
    BY DEF ConnectionInv, RelayTypeOK
  <2> QED
    BY <1>1, <2>1, QueueKept DEF FrameFails, connection, admission
<1> QED
  BY <1>1, AdmitQueue, HalDiedQueue, DeathReleasesQueue DEF RelayAlone

LEMMA JavaQueue ==
    ASSUME ConnectionInv, QueueInv, JavaCalls \/ JavaDelivers, NoStart
    PROVE  QueueInv'
<1>1. UNCHANGED <<gConnectionEpoch, gNextConnectionEpoch, gConfigurations, gSlots>>
  BY DEF JavaCalls, JavaDelivers, connection, admission, queues
<1>2. calls \subseteq Calls
  BY DEF ConnectionInv, RelayTypeOK
<1>3. \A k \in calls' : \E l \in calls : k.epoch = l.epoch
  BY <1>2 DEF JavaCalls, JavaDelivers, Delivered, Dropped, Accepted, Calls
<1>4. \A d \in deaths : d.slots # {} => d \in deaths'
  BY DEF JavaCalls, JavaDelivers, Delivered
<1> QED
  BY <1>1, <1>3, <1>4, QueueKept

LEMMA NextQueue == ConnectionInv /\ QueueInv /\ [Next]_relayVars => QueueInv'
<1> SUFFICES ASSUME ConnectionInv, QueueInv, [Next]_relayVars PROVE QueueInv'
  OBVIOUS
<1>1. CASE UNCHANGED relayVars
  BY <1>1
     DEF QueueInv, CallsOfConnections, QueuesConnected, Unannounced, Starting, QueueOfConnection,
         relayVars, connection, admission, queues
<1>2. CASE Next
  <2>1. CASE \E t \in Threads : Connect(t)
    BY <2>1, ConnectQueue
  <2>2. CASE \A t \in Threads : ~Connect(t)
    <3>1. NoStart
      BY <1>2, <2>2, NoStartUnless
    <3>2. CASE Hal \/ RelayAlone \/ JavaCalls \/ JavaDelivers
      BY <3>1, <3>2, HalQueue, RelayAloneQueue, JavaQueue
    <3>3. ASSUME NEW t \in Threads, HalStep(t) \/ MethodStep(t)
          PROVE  QueueInv'
      BY <3>1, <3>3, HalStepQueue, MethodStepQueue
    <3> QED
      BY <1>2, <3>2, <3>3, StepCases
  <2> QED
    BY <2>1, <2>2
<1> QED
  BY <1>1, <1>2

LEMMA InitQueue == RelayInit => QueueInv
  BY DEF RelayInit, QueueInv, CallsOfConnections, QueuesConnected, Unannounced, Starting,
         QueueOfConnection, Returned

\* VirtualCameraRelayJni.cpp:374, "linearize installation against connection
\* death": a queue is never left behind by the end of its connection, neither
\* by a death reported while createRelayQueue runs nor by a connection that
\* fails in hal().
THEOREM QueueCorrect == Spec => []QueueOfConnection
<1>1. RelayInit => QueueInv
  BY InitQueue
<1>2. QueueInv => QueueOfConnection
  BY DEF QueueInv
<1> QED
  BY <1>1, <1>2, NextQueue, ConnectionCorrect, PTL DEF Spec

----------------------------------------------------------------------------
(***************************************************************************)
(* Registrations.                                                          *)
(***************************************************************************)

\* A slot's registrations are made and removed by the slot's own thread.
OwnThread ==
    \A t \in Threads :
        /\ native[t].method \in {"registerProducer", "removeProducer"} => native[t].slot = t
        /\ native[t].at = "restore" => native[t].method = "registerProducer"

Registering(s) == native[s].method = "registerProducer" /\ native[s].at \in {"rpc", "restore"}
Removing(s) == native[s].method = "removeProducer" /\ native[s].at = "rpc"

\* The admitted registration is the one being registered, unless the connection
\* it belongs to is gone.
Admitted ==
    \A s \in Slots : Registering(s) /\ gConnectionEpoch = native[s].epoch
                         => gRegistrations[s] = native[s].camera

\* A thread that is at it knows the registration the HAL has, and can reach it.
HalRegistration ==
    \A s \in Slots :
        life # 0 /\ gHal = life /\ halProducer[s] # None
            => /\ Registering(s) => native[s].previous = halProducer[s]
               /\ Removing(s) => native[s].camera = halProducer[s]
               /\ Registering(s) \/ Removing(s)
                      => native[s].h = gHal /\ native[s].epoch = gConnectionEpoch
               /\ ~Registering(s) /\ ~Removing(s) => gRegistrations[s] = halProducer[s]

RegistrationInv == OwnThread /\ Admitted /\ HalRegistration

\* The steps that are about a registration.
RegistrationStep(t) ==
    RegisterLock(t) \/ RegisterRpc(t) \/ RegisterRestore(t) \/ RemoveLock(t) \/ RemoveRpc(t)

Bystanders ==
    \A s \in Slots : Registering(s) \/ Removing(s) \/ Registering(s)' \/ Removing(s)'
                         => native'[s] = native[s]

\* A thread keeps its method and slot until it returns.
LEMMA MoveOwn ==
    ASSUME ConnectionInv, OwnThread, NEW t \in Threads,
           \A u \in Threads \ {t} : native'[u] = native[u],
           \/ native'[t].method = "none" /\ native'[t].at = "java"
           \/ /\ native'[t].method = native[t].method /\ native'[t].slot = native[t].slot
              /\ native'[t].at = "restore" => native'[t].method = "registerProducer"
    PROVE  OwnThread'
  BY DEF OwnThread

LEMMA AfterHalMove ==
    ASSUME ConnectionInv, NEW t \in Threads, NEW h, AfterHal(t, h)
    PROVE  /\ \A u \in Threads \ {t} : native'[u] = native[u]
           /\ \/ native'[t].method = "none" /\ native'[t].at = "java"
              \/ /\ native'[t].method = native[t].method /\ native'[t].slot = native[t].slot
                 /\ native'[t].camera = native[t].camera
                 /\ native'[t].at = "lock"
<1>1. native \in [Threads -> NativeType] /\ native[t] \in NativeType
  BY TypeSplit DEF ConnectionInv
<1> DEFINE n == [native[t] EXCEPT !.at = "lock", !.h = h]
<1>2. /\ n.at = "lock" /\ n.method = native[t].method /\ n.slot = native[t].slot
      /\ n.camera = native[t].camera
  BY <1>1 DEF NativeType
<1>3. /\ Returned(FALSE).method = "none" /\ Returned(FALSE).at = "java"
      /\ Returned(TRUE).method = "none" /\ Returned(TRUE).at = "java"
  BY DEF Returned
<1>4. native'[t] \in {Returned(FALSE), Returned(TRUE), n}
  BY <1>1 DEF AfterHal
<1> QED
  BY <1>1, <1>2, <1>3, <1>4, Zenon DEF AfterHal

LEMMA HalStepMove ==
    ASSUME ConnectionInv, NEW t \in Threads, HalStep(t)
    PROVE  /\ native[t].at \in {"hal", "link", "setCallback", "ready"}
           /\ \A u \in Threads \ {t} : native'[u] = native[u]
           /\ \/ native'[t].method = "none" /\ native'[t].at = "java"
              \/ /\ native'[t].method = native[t].method /\ native'[t].slot = native[t].slot
                 /\ native'[t].camera = native[t].camera
                 /\ native'[t].at \in {"link", "setCallback", "ready", "lock"}
<1>1. native \in [Threads -> NativeType] /\ native[t] \in NativeType
  BY TypeSplit DEF ConnectionInv
<1>2. CASE HalCached(t) \/ HalAbsent(t) \/ ConnectionReady(t)
  BY <1>2, AfterHalMove DEF HalCached, HalAbsent, ConnectionReady
<1>3. CASE (Link(t) \/ SetCallback(t)) /\ life # native[t].h
  BY <1>3, AfterHalMove DEF Link, SetCallback, ConnectFails
<1>4. CASE (Link(t) \/ SetCallback(t)) /\ life = native[t].h
  BY <1>1, <1>4 DEF Link, SetCallback, NativeType
<1>5. CASE Connect(t)
  <2> DEFINE n == [native[t] EXCEPT !.at = "link", !.h = life, !.epoch = gNextConnectionEpoch + 1]
  <2>1. /\ n.at = "link" /\ n.method = native[t].method /\ n.slot = native[t].slot
        /\ n.camera = native[t].camera
    BY <1>1 DEF NativeType
  <2>2. native' = [native EXCEPT ![t] = n] /\ native[t].at = "hal"
    BY <1>5 DEF Connect
  <2> QED
    BY <1>1, <2>1, <2>2
<1> QED
  BY <1>2, <1>3, <1>4, <1>5 DEF HalStep

\* What a native method after hal() leaves of its thread.
LEMMA MethodStepMove ==
    ASSUME ConnectionInv, NEW t \in Threads, MethodStep(t)
    PROVE  /\ \A u \in Threads \ {t} : native'[u] = native[u]
           /\ \/ native'[t].method = "none" /\ native'[t].at = "java"
              \/ /\ native'[t].method = native[t].method /\ native'[t].slot = native[t].slot
                 /\ native'[t].camera = native[t].camera
                 /\ native'[t].at # "java"
                 /\ native'[t].at = "restore" => native'[t].method = "registerProducer"
<1>1. native \in [Threads -> NativeType] /\ native[t] \in NativeType
  BY TypeSplit DEF ConnectionInv
<1>2. \A ok : Returned(ok).method = "none" /\ Returned(ok).at = "java"
  BY DEF Returned
<1>3. CASE MaxCameras(t) \/ RemoveRpc(t) \/ RegisterRestore(t) \/ ReadyRpc(t) \/ ReleaseSurface(t)
  <2>1. PICK ok : native' = [native EXCEPT ![t] = Returned(ok)]
    BY <1>3, Zenon DEF MaxCameras, RemoveRpc, RegisterRestore, ReadyRpc, ReleaseSurface
  <2> QED
    BY <1>1, <1>2, <2>1
<1>4. CASE RegisterLock(t)
  <2> DEFINE n == [native[t] EXCEPT !.at = "rpc", !.epoch = gConnectionEpoch,
                                    !.previous = gRegistrations[native[t].slot]]
  <2>1. /\ n.at = "rpc" /\ n.method = native[t].method /\ n.slot = native[t].slot
        /\ n.camera = native[t].camera
    BY <1>1 DEF NativeType
  <2>2. PICK m : native' = [native EXCEPT ![t] = m] /\ m \in {n, Returned(FALSE)}
    BY <1>4, Zenon DEF RegisterLock
  <2>3. native'[t] = m /\ \A u \in Threads \ {t} : native'[u] = native[u]
    BY <1>1, <2>2
  <2> HIDE DEF n
  <2>4. CASE m = n
    BY <2>1, <2>3, <2>4, Zenon
  <2>5. CASE m = Returned(FALSE)
    BY <1>2, <2>3, <2>5, Zenon
  <2> QED
    BY <2>2, <2>4, <2>5, Zenon
<1>5. CASE RemoveLock(t)
  <2> DEFINE n == [native[t] EXCEPT !.at = "rpc", !.epoch = gConnectionEpoch]
  <2>1. /\ n.at = "rpc" /\ n.method = native[t].method /\ n.slot = native[t].slot
        /\ n.camera = native[t].camera
    BY <1>1 DEF NativeType
  <2>2. PICK m : native' = [native EXCEPT ![t] = m] /\ m \in {n, Returned(FALSE)}
    BY <1>5, Zenon DEF RemoveLock
  <2>3. native'[t] = m /\ \A u \in Threads \ {t} : native'[u] = native[u]
    BY <1>1, <2>2
  <2> HIDE DEF n
  <2>4. CASE m = n
    BY <2>1, <2>3, <2>4, Zenon
  <2>5. CASE m = Returned(FALSE)
    BY <1>2, <2>3, <2>5, Zenon
  <2> QED
    BY <2>2, <2>4, <2>5, Zenon
<1>6. CASE RegisterRpc(t) \/ ReadyLock(t) \/ SurfaceCheck(t) \/ SurfaceAbandon(t) \/ SurfaceInstall(t)
  <2> DEFINE n(at) == [native[t] EXCEPT !.at = at]
  <2>1. \A at \in {"restore", "rpc", "abandon", "install"} :
            /\ n(at).at = at /\ n(at).method = native[t].method
            /\ n(at).slot = native[t].slot /\ n(at).camera = native[t].camera
    BY <1>1 DEF NativeType
  <2>2. \/ native' = [native EXCEPT ![t] = n("restore")] /\ native[t].method = "registerProducer"
        \/ \E at \in {"rpc", "abandon", "install"} : native' = [native EXCEPT ![t] = n(at)]
        \/ \E ok \in BOOLEAN : native' = [native EXCEPT ![t] = Returned(ok)]
    BY <1>6, Zenon DEF RegisterRpc, ReadyLock, SurfaceCheck, SurfaceAbandon, SurfaceInstall
  <2>3. \/ native'[t] = n("restore") /\ native[t].method = "registerProducer"
        \/ \E at \in {"rpc", "abandon", "install"} : native'[t] = n(at)
        \/ \E ok \in BOOLEAN : native'[t] = Returned(ok)
    BY <1>1, <2>2
  <2>4. \A u \in Threads \ {t} : native'[u] = native[u]
    BY <1>1, <2>2
  <2> HIDE DEF n
  <2> QED
    BY <1>2, <2>1, <2>3, <2>4
<1> QED
  BY <1>3, <1>4, <1>5, <1>6 DEF MethodStep

\* Java gives a slot's own thread the slot's registrations to make.
LEMMA JavaCallsMove ==
    ASSUME JavaCalls, native \in [Threads -> NativeType]
    PROVE  \E t \in Threads :
               /\ native[t].at = "java" /\ native'[t].at \in {"java", "hal", "check", "release"}
               /\ \A u \in Threads \ {t} : native'[u] = native[u]
               /\ native'[t].method \in {"registerProducer", "removeProducer"}
                      => native'[t].slot = t
<1>1. ASSUME NEW t \in Threads, NEW method, NEW at, NEW slot, NEW camera, NEW conn, NEW token,
             NEW flag, Enter(t, method, at, slot, camera, conn, token, flag)
      PROVE  /\ native[t].at = "java" /\ native'[t].at = at
             /\ \A u \in Threads \ {t} : native'[u] = native[u]
             /\ native'[t].method = method /\ native'[t].slot = slot
  BY <1>1 DEF Enter, Returned
<1>2. Slots \subseteq Threads /\ Clients \subseteq Threads
  BY DEF Threads
<1>3. ASSUME NEW s \in Slots, SlotCalls(s)
      PROVE  /\ native[s].at = "java" /\ native'[s].at \in {"hal", "check", "release"}
             /\ \A u \in Threads \ {s} : native'[u] = native[u]
             /\ native'[s].method \in {"registerProducer", "removeProducer"} => native'[s].slot = s
  <2>1. CASE IsHalUp(s)
    BY <1>1, <1>2, <2>1, Zenon DEF IsHalUp
  <2>2. CASE \E c \in Cameras : RegisterProducer(s, s, c) \/ RemoveProducer(s, s, c)
    <3>1. PICK c \in Cameras, method \in {"registerProducer", "removeProducer"} :
                  Enter(s, method, "hal", s, c, 0, 0, FALSE)
      BY <2>2, Zenon DEF RegisterProducer, RemoveProducer
    <3>2. s \in Threads
      BY <1>2
    <3>3. /\ native[s].at = "java" /\ native'[s].at = "hal" /\ native'[s].slot = s
          /\ \A u \in Threads \ {s} : native'[u] = native[u]
      BY <3>1, <3>2 DEF Enter, Returned
    <3> QED
      BY <3>3
  <2>3. CASE \E e \in 1 .. gNextConnectionEpoch, k \in 1 .. MaxTokens : CreateSurface(s, s, e, k)
    BY <1>1, <1>2, <2>3, Zenon DEF CreateSurface
  <2>4. CASE \E e \in 0 .. gNextConnectionEpoch, k \in 0 .. MaxTokens : ReleaseSurfaceOf(s, s, e, k)
    BY <1>1, <1>2, <2>4, Zenon DEF ReleaseSurfaceOf
  <2> QED
    BY <1>3, <2>1, <2>2, <2>3, <2>4 DEF SlotCalls
<1>4. ASSUME NEW t \in Clients, ClientCalls(t)
      PROVE  /\ native[t].at = "java" /\ native'[t].at = "hal"
             /\ \A u \in Threads \ {t} : native'[u] = native[u]
             /\ native'[t].method \notin {"registerProducer", "removeProducer"}
  <2> DEFINE Moved == /\ native[t].at = "java" /\ native'[t].at = "hal"
                      /\ \A u \in Threads \ {t} : native'[u] = native[u]
                      /\ native'[t].method \notin {"registerProducer", "removeProducer"}
  <2>1. t \in Threads
    BY <1>2
  <2>2. IsHalUp(t) => Moved
    BY <2>1 DEF IsHalUp, Enter, Returned
  <2>3. GetMaxCameras(t) => Moved
    BY <2>1 DEF GetMaxCameras, Enter, Returned
  <2>4. ASSUME NEW s \in Slots, NEW e, NEW k, NEW ready, SetConfigurationReady(t, s, e, k, ready)
        PROVE  Moved
    BY <2>1, <2>4 DEF SetConfigurationReady, Enter, Returned
  <2> HIDE DEF Moved
  <2>5. Moved
    BY <1>4, <2>2, <2>3, <2>4, Zenon DEF ClientCalls
  <2> QED
    BY <2>5 DEF Moved
<1>5. ASSUME NEW t \in Threads, Consume(t)
      PROVE  /\ native[t].at = "java" /\ native'[t].at = "java"
             /\ \A u \in Threads \ {t} : native'[u] = native[u]
             /\ native'[t].method \notin {"registerProducer", "removeProducer"}
  BY <1>5 DEF Consume, Returned
<1> QED
  BY <1>2, <1>3, <1>4, <1>5 DEF JavaCalls

LEMMA NextOwn ==
    ASSUME ConnectionInv, OwnThread, Next
    PROVE  OwnThread'
<1>1. ASSUME NEW t \in Threads, HalStep(t) \/ MethodStep(t)
      PROVE  OwnThread'
  BY <1>1, MoveOwn, HalStepMove, MethodStepMove
<1>2. CASE JavaCalls
  BY <1>2, JavaCallsMove, TypeSplit DEF ConnectionInv, OwnThread
<1>3. CASE Hal \/ RelayAlone \/ JavaDelivers
  <2>1. native' = native
    BY <1>3, Zenon
       DEF Hal, HalStart, HalCrash, HalConfigure, HalClose, RelayAlone, Admit, HalDied,
           DeathReleases, FrameFails, JavaDelivers
  <2> QED
    BY <2>1 DEF OwnThread
<1> QED
  BY <1>1, <1>2, <1>3, StepCases

LEMMA NextBystanders ==
    ASSUME ConnectionInv, OwnThread, Next, \A t \in Threads : ~RegistrationStep(t)
    PROVE  Bystanders
<1>1. Slots \subseteq Threads /\ native \in [Threads -> NativeType]
  BY Bounds, TypeSplit DEF ConnectionInv
<1>2. ASSUME NEW t \in Threads, HalStep(t)
      PROVE  Bystanders
  BY <1>1, <1>2, HalStepMove DEF Bystanders, Registering, Removing
<1>3. ASSUME NEW t \in Threads, MethodStep(t)
      PROVE  Bystanders
  <2>1. /\ native[t].at = "rpc" => native[t].method = "setConfigurationReady"
        /\ native[t].at # "restore"
        /\ native'[t].at = "rpc" => native[t].method = "setConfigurationReady"
        /\ native'[t].at # "restore"
    BY <1>1, <1>3
       DEF MethodStep, RegistrationStep, MaxCameras, ReadyLock, ReadyRpc, SurfaceCheck,
           SurfaceAbandon, SurfaceInstall, ReleaseSurface, Returned, NativeType
  <2> QED
    BY <1>1, <1>3, <2>1, MethodStepMove DEF Bystanders, Registering, Removing
<1>4. CASE JavaCalls
  BY <1>1, <1>4, JavaCallsMove DEF Bystanders, Registering, Removing
<1>5. CASE Hal \/ RelayAlone \/ JavaDelivers
  BY <1>5, Zenon
     DEF Hal, HalStart, HalCrash, HalConfigure, HalClose, RelayAlone, Admit, HalDied, DeathReleases,
         FrameFails, JavaDelivers, Bystanders
<1> QED
  BY <1>2, <1>3, <1>4, <1>5, StepCases

\* Steps about no registration, that register and connect nothing.
LEMMA RegistrationKept ==
    ASSUME ConnectionInv, RegistrationInv, Bystanders, OwnThread',
           UNCHANGED gRegistrations,
           gConnectionEpoch' \in {0, gConnectionEpoch},
           \A s \in Slots : halProducer'[s] \in {None, halProducer[s]},
           life' # 0 /\ gHal' = life' => UNCHANGED <<life, gHal, gConnectionEpoch>>
    PROVE  RegistrationInv'
<1>1. Admitted'
  <2> SUFFICES ASSUME NEW s \in Slots, Registering(s)', gConnectionEpoch' = native'[s].epoch
               PROVE  gRegistrations[s] = native'[s].camera
    BY DEF Admitted
  <2>1. native'[s] = native[s] /\ Registering(s) /\ s \in Threads
    BY Bounds DEF Bystanders, Registering
  <2>2. native[s].epoch # 0
    BY <2>1 DEF ConnectionInv, Calling, Registering
  <2> QED
    BY <2>1, <2>2 DEF RegistrationInv, Admitted
<1>2. HalRegistration'
  <2> SUFFICES ASSUME NEW s \in Slots, life' # 0, gHal' = life', halProducer'[s] # None
               PROVE  /\ Registering(s)' => native'[s].previous = halProducer'[s]
                      /\ Removing(s)' => native'[s].camera = halProducer'[s]
                      /\ Registering(s)' \/ Removing(s)'
                             => native'[s].h = gHal' /\ native'[s].epoch = gConnectionEpoch'
                      /\ ~Registering(s)' /\ ~Removing(s)' => gRegistrations'[s] = halProducer'[s]
    BY DEF HalRegistration
  <2>1. halProducer'[s] = halProducer[s] /\ UNCHANGED <<life, gHal, gConnectionEpoch>>
    OBVIOUS
  <2>2. CASE native'[s] = native[s]
    BY <2>1, <2>2 DEF RegistrationInv, HalRegistration, Registering, Removing
  <2>3. CASE native'[s] # native[s]
    BY <2>1, <2>3 DEF Bystanders, RegistrationInv, HalRegistration
  <2> QED
    BY <2>2, <2>3
<1> QED
  BY <1>1, <1>2 DEF RegistrationInv

LEMMA ConnectRegistration ==
    ASSUME ConnectionInv, RegistrationInv, Bystanders, OwnThread', NEW t \in Threads, Connect(t)
    PROVE  RegistrationInv'
<1>1. GlobalType /\ native \in [Threads -> NativeType] /\ Slots \subseteq Threads
  BY TypeSplit, Bounds DEF ConnectionInv
<1>2. halCallback = 0 /\ gConnectionEpoch' = gNextConnectionEpoch + 1 /\ UNCHANGED halProducer
  BY ConnectFresh, Zenon DEF Connect, hal
<1>3. \A s \in Slots : halProducer'[s] = None
  BY <1>2 DEF ConnectionInv, ProducerConnected
<1>4. \A s \in Slots : native[s].epoch # gNextConnectionEpoch + 1
  BY <1>1 DEF GlobalType, NativeType
<1>5. Admitted'
  BY <1>2, <1>4 DEF Admitted, Bystanders
<1> QED
  BY <1>3, <1>5 DEF RegistrationInv, HalRegistration

LEMMA OtherRegistration ==
    ASSUME ConnectionInv, RegistrationInv, Next, \A t \in Threads : ~RegistrationStep(t)
    PROVE  RegistrationInv'
<1>1. Bystanders /\ OwnThread'
  BY NextBystanders, NextOwn DEF RegistrationInv
<1>2. GlobalType
  BY TypeSplit DEF ConnectionInv
<1>3. CASE UNCHANGED <<gRegistrations, gConnectionEpoch, halProducer, life, gHal>>
  BY <1>1, <1>3, RegistrationKept
<1>4. CASE Hal
  <2>1. CASE HalStart
    <3>1. gHal # life'
      BY <1>2, <2>1, Bounds DEF HalStart, GlobalType
    <3> QED
      BY <1>1, <2>1, <3>1, RegistrationKept DEF HalStart, connection, admission
  <2>2. CASE HalCrash
    BY <1>1, <2>2, RegistrationKept DEF HalCrash, connection, admission
  <2>3. ASSUME NEW s \in Slots, HalConfigure(s) \/ HalClose(s)
        PROVE  RegistrationInv'
    BY <1>3, <2>3, Zenon DEF HalConfigure, HalClose, connection, admission
  <2> QED
    BY <1>4, <2>1, <2>2, <2>3 DEF Hal
<1>5. CASE RelayAlone
  <2>1. ASSUME NEW k \in links, HalDied(k)
        PROVE  RegistrationInv'
    BY <1>1, <2>1, RegistrationKept DEF HalDied, hal, admission
  <2>2. CASE ~(\E k \in links : HalDied(k))
    BY <1>3, <1>5, <2>2, Zenon
       DEF RelayAlone, Admit, DeathReleases, FrameFails, hal, connection, admission
  <2> QED
    BY <2>1, <2>2
<1>6. CASE JavaCalls \/ JavaDelivers
  BY <1>3, <1>6 DEF JavaCalls, JavaDelivers, hal, connection, admission
<1>7. ASSUME NEW t \in Threads, HalStep(t)
      PROVE  RegistrationInv'
  <2>1. CASE Connect(t)
    BY <1>1, <2>1, ConnectRegistration
  <2>2. CASE (Link(t) \/ SetCallback(t)) /\ life # native[t].h
    <3>1. ConnectFails(t) /\ UNCHANGED <<gRegistrations, halProducer, life>>
      BY <2>2 DEF Link, SetCallback, hal, admission
    <3> QED
      BY <1>1, <3>1, RegistrationKept DEF ConnectFails
  <2>3. CASE (Link(t) \/ SetCallback(t)) /\ life = native[t].h
    BY <1>3, <2>3 DEF Link, SetCallback, hal, connection, admission
  <2>4. CASE HalCached(t) \/ HalAbsent(t) \/ ConnectionReady(t)
    BY <1>3, <2>4 DEF HalCached, HalAbsent, ConnectionReady, hal, connection, admission
  <2> QED
    BY <1>7, <2>1, <2>2, <2>3, <2>4 DEF HalStep
<1>8. ASSUME NEW t \in Threads, MethodStep(t)
      PROVE  RegistrationInv'
  BY <1>3, <1>8, Zenon
     DEF MethodStep, RegistrationStep, MaxCameras, ReadyLock, ReadyRpc, SurfaceCheck,
         SurfaceAbandon, SurfaceInstall, ReleaseSurface, hal, connection, admission
<1> QED
  BY <1>4, <1>5, <1>6, <1>7, <1>8, StepCases

\* A step about the registration of slot t: the other slots see nothing of it.
LEMMA RegistrationAtSlot ==
    ASSUME ConnectionInv, RegistrationInv, OwnThread', NEW t \in Threads,
           UNCHANGED <<life, gHal, gConnectionEpoch>>,
           \A u \in Threads \ {t} : native'[u] = native[u],
           \A r \in Slots \ {t} : /\ gRegistrations'[r] = gRegistrations[r]
                                  /\ halProducer'[r] = halProducer[r],
           Registering(t)' /\ gConnectionEpoch = native'[t].epoch
               => gRegistrations'[t] = native'[t].camera,
           life # 0 /\ gHal = life /\ halProducer'[t] # None
               => /\ Registering(t)' => native'[t].previous = halProducer'[t]
                  /\ Removing(t)' => native'[t].camera = halProducer'[t]
                  /\ Registering(t)' \/ Removing(t)'
                         => native'[t].h = gHal /\ native'[t].epoch = gConnectionEpoch
                  /\ ~Registering(t)' /\ ~Removing(t)' => gRegistrations'[t] = halProducer'[t]
    PROVE  RegistrationInv'
<1>1. \A r \in Slots \ {t} : native'[r] = native[r]
  BY Bounds
<1>2. Admitted'
  BY <1>1 DEF RegistrationInv, Admitted, Registering
<1>3. HalRegistration'
  BY <1>1 DEF RegistrationInv, HalRegistration, Registering, Removing
<1> QED
  BY <1>2, <1>3 DEF RegistrationInv

\* What the HAL is told of belongs to the connection the HAL has.
LEMMA ProducerOfConnection ==
    ASSUME ConnectionInv, NEW s \in Slots, halProducer[s] # None
    PROVE  halCallback # 0 /\ life # 0 /\ gHal = life /\ gConnectionEpoch = halCallback
  BY DEF ConnectionInv, ProducerConnected, HalConnected

LEMMA RegistrationStepSlot ==
    ASSUME ConnectionInv, OwnThread, NEW t \in Threads, RegistrationStep(t)
    PROVE  /\ native[t].slot = t /\ t \in Slots
           /\ \A u \in Threads \ {t} : native'[u] = native[u]
           /\ UNCHANGED <<life, gHal, gConnectionEpoch, halCallback>>
<1>1. native[t].method \in {"registerProducer", "removeProducer"}
  BY Zenon DEF RegistrationStep, RegisterLock, RegisterRpc, RegisterRestore, RemoveLock, RemoveRpc,
         OwnThread
<1>2. native[t].slot = t /\ native[t].slot \in Slots
  BY <1>1, TypeSplit DEF ConnectionInv, OwnThread, NativeType
<1>3. \A u \in Threads \ {t} : native'[u] = native[u]
  BY MethodStepMove DEF RegistrationStep, MethodStep
<1> QED
  BY <1>2, <1>3, Zenon
     DEF RegistrationStep, RegisterLock, RegisterRpc, RegisterRestore, RemoveLock, RemoveRpc, hal,
         connection

LEMMA RegisterLockRegistration ==
    ASSUME ConnectionInv, RegistrationInv, OwnThread', NEW t \in Threads, RegisterLock(t)
    PROVE  RegistrationInv'
<1>1. GlobalType /\ native \in [Threads -> NativeType] /\ native[t] \in NativeType
  BY TypeSplit DEF ConnectionInv
<1>2. /\ native[t].slot = t /\ t \in Slots
      /\ \A u \in Threads \ {t} : native'[u] = native[u]
      /\ UNCHANGED <<life, gHal, gConnectionEpoch>>
  BY RegistrationStepSlot DEF RegistrationInv, RegistrationStep
<1>3. native[t].at = "lock" /\ native[t].method = "registerProducer" /\ UNCHANGED halProducer
  BY DEF RegisterLock, hal
<1>4. CASE gHal = native[t].h
  <2> DEFINE n == [native[t] EXCEPT !.at = "rpc", !.epoch = gConnectionEpoch,
                                    !.previous = gRegistrations[t]]
  <2>1. /\ native' = [native EXCEPT ![t] = n]
        /\ gRegistrations' = [gRegistrations EXCEPT ![t] = native[t].camera]
    BY <1>2, <1>4 DEF RegisterLock
  <2>2. /\ n.method = native[t].method /\ n.at = "rpc" /\ n.h = native[t].h
        /\ n.epoch = gConnectionEpoch /\ n.previous = gRegistrations[t]
        /\ n.camera = native[t].camera
    BY <1>1 DEF NativeType
  <2>3. native'[t] = n
    BY <1>1, <2>1
  <2>4. Registering(t)' /\ ~Removing(t)'
    BY <1>3, <2>2, <2>3 DEF Registering, Removing
  <2>5. gRegistrations'[t] = native'[t].camera
        /\ \A r \in Slots \ {t} : gRegistrations'[r] = gRegistrations[r]
    BY <1>1, <1>2, <2>1, <2>2, <2>3 DEF GlobalType
  <2>6. life # 0 /\ gHal = life /\ halProducer[t] # None => gRegistrations[t] = halProducer[t]
    BY <1>2, <1>3 DEF RegistrationInv, HalRegistration, Registering, Removing
  <2> HIDE DEF n
  <2> QED
    BY <1>2, <1>3, <1>4, <2>2, <2>3, <2>4, <2>5, <2>6, RegistrationAtSlot
<1>5. CASE gHal # native[t].h
  <2>1. native'[t] = Returned(FALSE) /\ UNCHANGED gRegistrations
    BY <1>1, <1>5 DEF RegisterLock
  <2>2. ~Registering(t)' /\ ~Removing(t)' /\ ~Registering(t) /\ ~Removing(t)
    BY <1>3, <2>1 DEF Registering, Removing, Returned
  <2> QED
    BY <1>2, <1>3, <2>1, <2>2, RegistrationAtSlot DEF RegistrationInv, HalRegistration
<1> QED
  BY <1>4, <1>5

\* The HAL takes the registration only on the connection it was admitted for.
LEMMA RegisterRpcRegistration ==
    ASSUME ConnectionInv, RegistrationInv, OwnThread', NEW t \in Threads, RegisterRpc(t)
    PROVE  RegistrationInv'
<1>1. GlobalType /\ native \in [Threads -> NativeType] /\ native[t] \in NativeType
  BY TypeSplit DEF ConnectionInv
<1>2. /\ native[t].slot = t /\ t \in Slots
      /\ \A u \in Threads \ {t} : native'[u] = native[u]
      /\ UNCHANGED <<life, gHal, gConnectionEpoch>>
  BY RegistrationStepSlot DEF RegistrationInv, RegistrationStep
<1>3. Registering(t) /\ ~Removing(t) /\ native[t].epoch # 0 /\ UNCHANGED gRegistrations
  BY DEF RegisterRpc, Registering, Removing, ConnectionInv, Calling, admission
<1>4. gConnectionEpoch = native[t].epoch => gRegistrations[t] = native[t].camera
  BY <1>2, <1>3 DEF RegistrationInv, Admitted
<1>5. CASE native'[t] = Returned(TRUE)
  <2>1. /\ life = native[t].h /\ halCallback = native[t].epoch
        /\ halProducer' = [halProducer EXCEPT ![t] = native[t].camera]
    BY <1>1, <1>2, <1>5 DEF RegisterRpc, Returned, NativeType
  <2>2. gConnectionEpoch = native[t].epoch
    BY <1>3, <2>1 DEF ConnectionInv, HalConnected
  <2>3. ~Registering(t)' /\ ~Removing(t)'
    BY <1>5 DEF Registering, Removing, Returned
  <2>4. halProducer'[t] = native[t].camera
        /\ \A r \in Slots \ {t} : halProducer'[r] = halProducer[r]
    BY <1>1, <1>2, <2>1 DEF GlobalType
  <2> QED
    BY <1>2, <1>3, <1>4, <2>2, <2>3, <2>4, RegistrationAtSlot
<1>6. CASE native'[t] # Returned(TRUE)
  <2> DEFINE n == [native[t] EXCEPT !.at = "restore"]
  <2>1. native' = [native EXCEPT ![t] = n] /\ UNCHANGED halProducer
    BY <1>1, <1>6, Zenon DEF RegisterRpc
  <2>2. /\ n.method = native[t].method /\ n.at = "restore" /\ n.h = native[t].h
        /\ n.epoch = native[t].epoch /\ n.previous = native[t].previous
        /\ n.camera = native[t].camera
    BY <1>1 DEF NativeType
  <2>3. native'[t] = n
    BY <1>1, <2>1
  <2>4. Registering(t)' /\ ~Removing(t)'
    BY <1>3, <2>2, <2>3 DEF Registering, Removing
  <2>5. life # 0 /\ gHal = life /\ halProducer[t] # None
            => /\ native[t].previous = halProducer[t] /\ native[t].h = gHal
               /\ native[t].epoch = gConnectionEpoch
    BY <1>2, <1>3 DEF RegistrationInv, HalRegistration
  <2> HIDE DEF n
  <2> QED
    BY <1>2, <1>3, <1>4, <2>1, <2>2, <2>3, <2>4, <2>5, RegistrationAtSlot
<1> QED
  BY <1>5, <1>6, Zenon

LEMMA RegisterRestoreRegistration ==
    ASSUME ConnectionInv, RegistrationInv, OwnThread', NEW t \in Threads, RegisterRestore(t)
    PROVE  RegistrationInv'
<1>1. GlobalType /\ native \in [Threads -> NativeType]
  BY TypeSplit DEF ConnectionInv
<1>2. /\ native[t].slot = t /\ t \in Slots
      /\ \A u \in Threads \ {t} : native'[u] = native[u]
      /\ UNCHANGED <<life, gHal, gConnectionEpoch>>
  BY RegistrationStepSlot DEF RegistrationInv, RegistrationStep
<1>3. Registering(t) /\ UNCHANGED halProducer
  BY DEF RegisterRestore, RegistrationInv, OwnThread, Registering, hal
<1>4. ~Registering(t)' /\ ~Removing(t)'
  BY <1>1 DEF RegisterRestore, Returned, Registering, Removing
<1>5. \A r \in Slots \ {t} : gRegistrations'[r] = gRegistrations[r]
  BY <1>1, <1>2 DEF RegisterRestore, GlobalType
<1>6. ASSUME life # 0, gHal = life, halProducer[t] # None
      PROVE  gRegistrations'[t] = halProducer[t]
  <2>1. /\ native[t].previous = halProducer[t] /\ native[t].h = gHal
        /\ native[t].epoch = gConnectionEpoch
    BY <1>2, <1>3, <1>6 DEF RegistrationInv, HalRegistration
  <2>2. gRegistrations[t] = native[t].camera
    BY <1>2, <1>3, <2>1 DEF RegistrationInv, Admitted
  <2> QED
    BY <1>1, <1>2, <2>1, <2>2 DEF RegisterRestore, GlobalType
<1> QED
  BY <1>2, <1>3, <1>4, <1>5, <1>6, RegistrationAtSlot

LEMMA RemoveLockRegistration ==
    ASSUME ConnectionInv, RegistrationInv, OwnThread', NEW t \in Threads, RemoveLock(t)
    PROVE  RegistrationInv'
<1>1. GlobalType /\ native \in [Threads -> NativeType] /\ native[t] \in NativeType
  BY TypeSplit DEF ConnectionInv
<1>2. /\ native[t].slot = t /\ t \in Slots
      /\ \A u \in Threads \ {t} : native'[u] = native[u]
      /\ UNCHANGED <<life, gHal, gConnectionEpoch>>
  BY RegistrationStepSlot DEF RegistrationInv, RegistrationStep
<1>3. /\ native[t].at = "lock" /\ native[t].method = "removeProducer" /\ UNCHANGED halProducer
      /\ ~Registering(t) /\ ~Removing(t)
  BY DEF RemoveLock, Registering, Removing, hal
<1>4. life # 0 /\ gHal = life /\ halProducer[t] # None => gRegistrations[t] = halProducer[t]
  BY <1>2, <1>3 DEF RegistrationInv, HalRegistration
<1>5. CASE gHal = native[t].h /\ gRegistrations[t] = native[t].camera
  <2> DEFINE n == [native[t] EXCEPT !.at = "rpc", !.epoch = gConnectionEpoch]
  <2>1. /\ native' = [native EXCEPT ![t] = n]
        /\ gRegistrations' = [gRegistrations EXCEPT ![t] = None]
    BY <1>2, <1>5 DEF RemoveLock
  <2>2. /\ n.method = native[t].method /\ n.at = "rpc" /\ n.h = native[t].h
        /\ n.epoch = gConnectionEpoch /\ n.camera = native[t].camera
    BY <1>1 DEF NativeType
  <2>3. native'[t] = n
    BY <1>1, <2>1
  <2>4. ~Registering(t)' /\ Removing(t)'
    BY <1>3, <2>2, <2>3 DEF Registering, Removing
  <2>5. \A r \in Slots \ {t} : gRegistrations'[r] = gRegistrations[r]
    BY <1>1, <2>1 DEF GlobalType
  <2> HIDE DEF n
  <2> QED
    BY <1>2, <1>3, <1>4, <1>5, <2>2, <2>3, <2>4, <2>5, RegistrationAtSlot
<1>6. CASE ~(gHal = native[t].h /\ gRegistrations[t] = native[t].camera)
  <2>1. native'[t] = Returned(FALSE) /\ UNCHANGED gRegistrations
    BY <1>1, <1>2, <1>6 DEF RemoveLock, admission
  <2>2. ~Registering(t)' /\ ~Removing(t)'
    BY <2>1 DEF Registering, Removing, Returned
  <2> QED
    BY <1>2, <1>3, <1>4, <2>1, <2>2, RegistrationAtSlot
<1> QED
  BY <1>5, <1>6

LEMMA RemoveRpcRegistration ==
    ASSUME ConnectionInv, RegistrationInv, OwnThread', NEW t \in Threads, RemoveRpc(t)
    PROVE  RegistrationInv'
<1>1. GlobalType /\ native \in [Threads -> NativeType]
  BY TypeSplit DEF ConnectionInv
<1>2. /\ native[t].slot = t /\ t \in Slots
      /\ \A u \in Threads \ {t} : native'[u] = native[u]
      /\ UNCHANGED <<life, gHal, gConnectionEpoch>>
  BY RegistrationStepSlot DEF RegistrationInv, RegistrationStep
<1>3. Removing(t) /\ UNCHANGED gRegistrations
  BY DEF RemoveRpc, Removing, admission
<1>4. ~Registering(t)' /\ ~Removing(t)'
  BY <1>1 DEF RemoveRpc, Returned, Registering, Removing
<1>5. \A r \in Slots \ {t} : halProducer'[r] = halProducer[r]
  BY <1>1, <1>2 DEF RemoveRpc, GlobalType
<1>6. ASSUME life # 0, gHal = life, halProducer'[t] # None
      PROVE  FALSE
  <2>1. halProducer[t] # None
    BY <1>1, <1>2, <1>6 DEF RemoveRpc, GlobalType
  <2>2. /\ native[t].camera = halProducer[t] /\ native[t].h = gHal
        /\ native[t].epoch = gConnectionEpoch
    BY <1>2, <1>3, <1>6, <2>1 DEF RegistrationInv, HalRegistration
  <2>3. halCallback = native[t].epoch
    BY <1>2, <2>1, <2>2, ProducerOfConnection
  <2> QED
    BY <1>1, <1>2, <1>6, <2>2, <2>3 DEF RemoveRpc, GlobalType
<1> QED
  BY <1>2, <1>3, <1>4, <1>5, <1>6, RegistrationAtSlot

LEMMA NextRegistration == ConnectionInv /\ RegistrationInv /\ [Next]_relayVars => RegistrationInv'
<1> SUFFICES ASSUME ConnectionInv, RegistrationInv, [Next]_relayVars PROVE RegistrationInv'
  OBVIOUS
<1>1. CASE UNCHANGED relayVars
  BY <1>1
     DEF RegistrationInv, OwnThread, Admitted, HalRegistration, Registering, Removing, relayVars, hal,
         connection, admission
<1>2. CASE Next
  <2>1. OwnThread'
    BY <1>2, NextOwn DEF RegistrationInv
  <2>2. ASSUME NEW t \in Threads, RegistrationStep(t)
        PROVE  RegistrationInv'
    BY <2>1, <2>2, RegisterLockRegistration, RegisterRpcRegistration, RegisterRestoreRegistration,
       RemoveLockRegistration, RemoveRpcRegistration DEF RegistrationStep
  <2> QED
    BY <1>2, <2>2, OtherRegistration
<1> QED
  BY <1>1, <1>2

LEMMA InitRegistration == RelayInit => RegistrationInv
<1> SUFFICES ASSUME RelayInit PROVE RegistrationInv
  OBVIOUS
<1>1. \A t \in Threads : native[t].method = "none" /\ native[t].at = "java"
  BY DEF RelayInit, Returned
<1>2. OwnThread
  BY <1>1 DEF OwnThread
<1>3. Admitted
  BY <1>1, Bounds DEF Admitted, Registering
<1>4. HalRegistration
  BY DEF RelayInit, HalRegistration
<1> QED
  BY <1>2, <1>3, <1>4 DEF RegistrationInv

\* nativeRegisterProducer and nativeRemoveProducer change gRegistrations before
\* they call the HAL, and undo the change when the call fails: whatever dies or
\* reconnects between the two, the relay never turns away the callbacks of the
\* producer that the HAL of its connection has.
THEOREM RegistrationCorrect == Spec => []RegistrationAgrees
<1>1. RelayInit => RegistrationInv
  BY InitRegistration
<1>2. RegistrationInv => RegistrationAgrees
  <2> SUFFICES ASSUME RegistrationInv, NEW s \in Slots,
                      life # 0, gHal = life, halProducer[s] # None
               PROVE  \/ gRegistrations[s] = halProducer[s]
                      \/ Registering(s) /\ native[s].previous = halProducer[s]
                      \/ Removing(s) /\ native[s].camera = halProducer[s]
    BY DEF RegistrationAgrees, Registering, Removing
  <2> QED
    BY DEF RegistrationInv, HalRegistration
<1> QED
  BY <1>1, <1>2, NextRegistration, ConnectionCorrect, PTL DEF Spec
=============================================================================
