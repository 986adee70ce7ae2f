------------------------- MODULE StableHal_proofs -------------------------
(***************************************************************************)
(* What TLAPS proves of StableHal, for any number of slots, sessions,      *)
(* threads, buffers and GPU jobs.                                          *)
(*                                                                         *)
(* The types first, with the lemmas on the operators.  Then the control    *)
(* plane: ControlInv says why the two critical sections of                 *)
(* configureStreams cannot be separated by a removal.  PresenceInv is      *)
(* about mPresenceLock, FrameOfConfiguration rests on ControlInv.  The     *)
(* data plane, a frame is kept while it is read (ReadersInv), and a read   *)
(* is a dependency of somebody until the GPU is done with it (TrackedInv), *)
(* does not depend on the control plane at all.                            *)
(***************************************************************************)
EXTENDS StableHal, FiniteSetTheorems, TLAPS

(***************************************************************************)
(* Operators on fences and frames.                                         *)
(***************************************************************************)

\* pruneReadFences keeps descriptors it was given.
LEMMA PruneType ==
    ASSUME NEW fences \in SUBSET Fence
    PROVE  Prune(fences) \in SUBSET Fence
BY DEF Prune

\* consolidateReadFences yields descriptors that stand for sets of jobs.
LEMMA ConsolidationsType ==
    ASSUME NEW fences \in SUBSET Fence, NEW result \in Consolidations(fences)
    PROVE  result \in SUBSET Fence
<1> DEFINE live == Prune(fences)
<1>1. live \in SUBSET Fence
  BY PruneType
<1>2. ASSUME NEW merged \in SUBSET live
      PROVE  (live \ merged) \cup {UNION merged} \in SUBSET Fence
  <2>1. UNION merged \in Fence
    BY <1>1, <1>2 DEF Fence
  <2> QED
    BY <1>1, <2>1, Zenon
<1>3. \/ result = live
      \/ \E merged \in SUBSET live : result = (live \ merged) \cup {UNION merged}
  BY DEF Consolidations
<1> HIDE DEF live
<1> QED
  BY <1>1, <1>2, <1>3

\* No job is lost: what has not signalled is still a dependency.
LEMMA ConsolidationsKeepJobs ==
    ASSUME NEW fences, NEW result \in Consolidations(fences)
    PROVE  UNION result = UNION Prune(fences)
<1> DEFINE live == Prune(fences)
<1>1. ASSUME NEW merged \in SUBSET live
      PROVE  UNION ((live \ merged) \cup {UNION merged}) = UNION live
  OBVIOUS
<1>2. \/ result = live
      \/ \E merged \in SUBSET live : result = (live \ merged) \cup {UNION merged}
  BY DEF Consolidations
<1> HIDE DEF live
<1>3. UNION result = UNION live
  BY <1>1, <1>2, Zenon
<1> QED
  BY <1>3 DEF live

\* Every pending job a set of fences stands for survives the prune.
LEMMA PruneKeepsPending ==
    ASSUME NEW fences, NEW j \in pending, j \in UNION fences
    PROVE  j \in UNION Prune(fences)
BY DEF Prune, Signalled

LEMMA NoFrameType == NoFrame \in Frame
BY DEF NoFrame, Frame, Fence

\* reapRetiringLocked.
LEMMA ReapedType ==
    ASSUME NEW frame \in Frame
    PROVE  Reaped(frame) \in Frame
<1>1. Prune(frame.readFences) \in SUBSET Fence
  BY PruneType DEF Frame
<1> DEFINE live == Prune(frame.readFences)
<1>2. [frame EXCEPT !.readFences = live] \in Frame
  BY <1>1 DEF Frame
<1>3. Reaped(frame) \in {frame, NoFrame, [frame EXCEPT !.readFences = live]}
  BY DEF Reaped
<1> QED
  BY <1>2, <1>3, NoFrameType

\* dropLatestLocked.
LEMMA DroppedType ==
    ASSUME NEW frame \in Frame
    PROVE  Dropped(frame) \in Frame
<1>1. [frame EXCEPT !.retiring = TRUE] \in Frame
  BY Zenon DEF Frame
<1> QED
  BY <1>1, ReapedType DEF Dropped

\* A dropped frame is retiring, or gone, and keeps everything but the read
\* fences that have signalled.
LEMMA DroppedFrame ==
    ASSUME NEW frame \in Frame
    PROVE  \/ Dropped(frame) = NoFrame /\ frame.inflight = 0 /\ Prune(frame.readFences) = {}
           \/ Dropped(frame) = [frame EXCEPT !.retiring = TRUE,
                                             !.readFences = Prune(frame.readFences)]
<1> DEFINE f == [frame EXCEPT !.retiring = TRUE]
<1>1. f.retiring /\ f.inflight = frame.inflight /\ f.readFences = frame.readFences
  BY DEF Frame
<1>2. [f EXCEPT !.readFences = Prune(frame.readFences)]
        = [frame EXCEPT !.retiring = TRUE, !.readFences = Prune(frame.readFences)]
  BY DEF Frame
<1> HIDE DEF f
<1>3. Dropped(frame) = Reaped(f)
  BY DEF Dropped, f
<1> QED
  BY <1>1, <1>2, <1>3 DEF Reaped

(***************************************************************************)
(* The retirement of the owners of some slots.                             *)
(***************************************************************************)

LEMMA SlotsFinite == IsFiniteSet(Slots) /\ Slots \subseteq Nat
BY HalAssumption, FS_Interval DEF Slots

\* The i-th slot of S gets the i-th fresh identity.
Rank(S, s) == Cardinality({r \in S : r <= s})

LEMMA RankType ==
    ASSUME NEW S \in SUBSET Slots, NEW s \in S
    PROVE  /\ Rank(S, s) \in Nat
           /\ Cardinality(S) \in Nat
           /\ 1 <= Rank(S, s) /\ Rank(S, s) <= Cardinality(S)
<1> DEFINE T == {r \in S : r <= s}
<1>1. IsFiniteSet(S)
  BY SlotsFinite, FS_Subset, Zenon
<1>2. T \in SUBSET S
  OBVIOUS
<1>3. IsFiniteSet(T) /\ Cardinality(T) <= Cardinality(S)
  BY <1>1, <1>2, FS_Subset
<1>4. Cardinality(T) \in Nat /\ Cardinality(S) \in Nat
  BY <1>1, <1>3, FS_CardinalityType
<1>5. s \in T
  BY SlotsFinite
<1>6. Cardinality(T) # 0
  BY <1>3, <1>5, FS_EmptySet
<1> HIDE DEF T
<1>7. 1 <= Cardinality(T)
  BY <1>4, <1>6
<1> QED
  BY <1>3, <1>4, <1>7 DEF Rank, T

\* A retired slot gets an owner above every identity issued so far, unless the
\* counter saturates.
LEMMA RetireOwnersEffect ==
    ASSUME TypeOK, NEW S \in SUBSET Slots, RetireOwners(S)
    PROVE  /\ nextIdentity' \in 0 .. MaxIdentity
           /\ nextIdentity <= nextIdentity'
           /\ sessionOwners' \in [Slots -> Nat]
           /\ \A s \in Slots \ S : sessionOwners'[s] = sessionOwners[s]
           /\ \A s \in S : \/ /\ nextIdentity < sessionOwners'[s]
                              /\ sessionOwners'[s] <= nextIdentity'
                           \/ /\ nextIdentity' = MaxIdentity
                              /\ sessionOwners'[s] = sessionOwners[s]
<1>1. IsFiniteSet(S)
  BY SlotsFinite, FS_Subset, Zenon
<1>2. Cardinality(S) \in Nat
  BY <1>1, FS_CardinalityType
<1>3. nextIdentity \in Nat /\ nextIdentity <= MaxIdentity /\ MaxIdentity \in Nat
  BY HalAssumption DEF TypeOK
<1>4. nextIdentity' = IF nextIdentity + Cardinality(S) <= MaxIdentity
                      THEN nextIdentity + Cardinality(S) ELSE MaxIdentity
  BY DEF RetireOwners
<1>5. sessionOwners' = [s \in Slots |->
          IF s \in S /\ nextIdentity + Rank(S, s) <= MaxIdentity
          THEN nextIdentity + Rank(S, s) ELSE sessionOwners[s]]
  BY DEF RetireOwners, Rank
<1>6. /\ nextIdentity' \in 0 .. MaxIdentity
      /\ nextIdentity <= nextIdentity'
  BY <1>2, <1>3, <1>4
<1>7. sessionOwners \in [Slots -> Nat]
  BY DEF TypeOK
<1>8. ASSUME NEW s \in S
      PROVE  /\ sessionOwners'[s] \in Nat
             /\ \/ nextIdentity < sessionOwners'[s] /\ sessionOwners'[s] <= nextIdentity'
                \/ nextIdentity' = MaxIdentity /\ sessionOwners'[s] = sessionOwners[s]
  <2>1. /\ Rank(S, s) \in Nat
        /\ 1 <= Rank(S, s) /\ Rank(S, s) <= Cardinality(S)
    BY RankType
  <2>2. CASE nextIdentity + Rank(S, s) <= MaxIdentity
    <3>1. sessionOwners'[s] = nextIdentity + Rank(S, s)
      BY <1>5, <2>2
    <3> QED
      BY <1>2, <1>3, <1>4, <2>1, <2>2, <3>1
  <2>3. CASE ~(nextIdentity + Rank(S, s) <= MaxIdentity)
    <3>1. sessionOwners'[s] = sessionOwners[s]
      BY <1>5, <2>3
    <3>2. nextIdentity' = MaxIdentity
      BY <1>2, <1>3, <1>4, <2>1, <2>3
    <3> QED
      BY <1>7, <3>1, <3>2
  <2> QED
    BY <2>2, <2>3
<1>9. ASSUME NEW s \in Slots \ S
      PROVE  sessionOwners'[s] = sessionOwners[s]
  BY <1>5
<1>10. sessionOwners' \in [Slots -> Nat]
  <2>1. \A s \in Slots : sessionOwners'[s] \in Nat
    BY <1>7, <1>8, <1>9
  <2>2. DOMAIN sessionOwners' = Slots /\ sessionOwners' = [s \in Slots |-> sessionOwners'[s]]
    BY <1>5
  <2> QED
    BY <2>1, <2>2
<1> QED
  BY <1>6, <1>8, <1>9, <1>10

\* setCallback and removeProducer.
LEMMA ClearSlotsType ==
    ASSUME TypeOK, NEW S \in SUBSET Slots, ClearSlots(S)
    PROVE  /\ capabilities' \in [Slots -> Registrations \cup {None}]
           /\ configurations' \in [Slots -> Nat]
           /\ sessionOwners' \in [Slots -> Nat]
           /\ ownerClosed' \in [Slots -> BOOLEAN]
           /\ ready' \in [Slots -> BOOLEAN]
           /\ nextIdentity' \in 0 .. MaxIdentity
           /\ latest' \in [Slots -> Frame]
           /\ publishing' \in SUBSET Slots
           /\ publishAs' \in BOOLEAN
<1>1. sessionOwners' \in [Slots -> Nat] /\ nextIdentity' \in 0 .. MaxIdentity
  BY RetireOwnersEffect DEF ClearSlots
<1>2. latest' \in [Slots -> Frame]
  BY DroppedType DEF ClearSlots, TypeOK
<1>3. capabilities' \in [Slots -> Registrations \cup {None}] /\ configurations' \in [Slots -> Nat]
  BY DEF ClearSlots, TypeOK
<1>4. ready' \in [Slots -> BOOLEAN] /\ ownerClosed' \in [Slots -> BOOLEAN]
  BY DEF ClearSlots, TypeOK
<1>5. publishing' \in SUBSET Slots /\ publishAs' \in BOOLEAN
  BY Zenon DEF ClearSlots
<1> QED
  BY <1>1, <1>2, <1>3, <1>4, <1>5

(***************************************************************************)
(* enqueue().                                                              *)
(***************************************************************************)

\* The types of what enqueue() changes once no reader is left.
LEMMA ReplaceType ==
    ASSUME TypeOK, NEW s \in Slots, NEW t \in Nat, NEW ahb \in Ahbs \cup {None},
           NEW acquire \in Fence, NEW cur \in Frame, Replace(s, t, ahb, acquire, cur)
    PROVE  /\ latest' \in [Slots -> Frame]
           /\ framesReceived' \in 0 .. MaxFrames
           /\ pending' \in SUBSET Jobs
           /\ returned' \in SUBSET pending'
<1>1. CASE cur.retiring
  BY <1>1 DEF Replace, Reject, TypeOK
<1>2. ASSUME ~cur.retiring, NEW fences \in Consolidations(cur.readFences)
      PROVE  [cur EXCEPT !.readFences = fences] \in Frame
  <2>1. fences \in SUBSET Fence
    BY ConsolidationsType DEF Frame
  <2> QED
    BY <2>1 DEF Frame
<1>3. ASSUME ~cur.retiring, NEW fences \in Consolidations(cur.readFences),
             Reject(s, [cur EXCEPT !.readFences = fences])
      PROVE  /\ latest' \in [Slots -> Frame] /\ framesReceived' \in 0 .. MaxFrames
             /\ pending' \in SUBSET Jobs /\ returned' \in SUBSET pending'
  BY <1>2, <1>3 DEF Reject, TypeOK
<1>4. ASSUME ~cur.retiring, NEW fences \in Consolidations(cur.readFences),
             framesReceived < MaxFrames, Swap(s, t, ahb, acquire, cur, fences)
      PROVE  /\ latest' \in [Slots -> Frame] /\ framesReceived' \in 0 .. MaxFrames
             /\ pending' \in SUBSET Jobs /\ returned' \in SUBSET pending'
  <2> DEFINE frame == [ahb |-> ahb, seq |-> framesReceived + 1, token |-> t,
                       acquire |-> acquire, readFences |-> {}, inflight |-> 0,
                       retiring |-> FALSE]
  <2>1. frame \in Frame
    BY HalAssumption DEF Frame, TypeOK
  <2>2. latest' = [latest EXCEPT ![s] = frame]
    BY <1>4 DEF Swap
  <2> HIDE DEF frame
  <2>3. latest' \in [Slots -> Frame]
    BY <2>1, <2>2 DEF TypeOK
  <2>4. framesReceived' \in 0 .. MaxFrames
    BY <1>4, HalAssumption DEF Swap, TypeOK
  <2>5. pending' \in SUBSET Jobs /\ returned' \in SUBSET pending'
    BY <1>4 DEF Swap, TypeOK, Fence
  <2> QED
    BY <2>3, <2>4, <2>5
<1> QED
  BY <1>1, <1>3, <1>4, Zenon DEF Replace

(***************************************************************************)
(* Sessions and threads.                                                   *)
(***************************************************************************)

\* A step of session n replaces its record by one of the right type.
LEMMA SessionUpdate ==
    ASSUME TypeOK, NEW n \in Sessions, NEW new \in SessionType,
           session' = [session EXCEPT ![n] = new]
    PROVE  session' \in [Sessions -> SessionType]
BY DEF TypeOK

LEMMA InitType == Init => TypeOK
<1> SUFFICES ASSUME Init PROVE TypeOK
  OBVIOUS
<1>1. 0 \in Slots
  BY HalAssumption DEF Slots
<1>2. NewSession \in SessionType
  BY <1>1 DEF NewSession, SessionType, Phases, NoHold, NoCall, Fence
<1>3. IdleCaller \in CallerType
  BY <1>1 DEF IdleCaller, CallerType, Fence
<1>4. session \in [Sessions -> SessionType] /\ caller \in [Callers -> CallerType]
  BY <1>2, <1>3 DEF Init
<1>5. latest \in [Slots -> Frame]
  BY NoFrameType DEF Init
<1>6. nextIdentity \in 0 .. MaxIdentity /\ framesReceived \in 0 .. MaxFrames
  BY HalAssumption DEF Init
<1>7. /\ configurations \in [Slots -> Nat] /\ sessionOwners \in [Slots -> Nat]
      /\ reads \in [Jobs -> Nat]
  BY DEF Init
<1> QED
  BY <1>4, <1>5, <1>6, <1>7, Zenon DEF Init, TypeOK

LEMMA PlatformType ==
    ASSUME TypeOK, Platform
    PROVE  TypeOK'
<1>1. ASSUME NEW p \in Platforms, SetCallback(p)
      PROVE  TypeOK'
  <2>1. CASE callback = None
    BY <1>1, <2>1 DEF SetCallback, TypeOK, gpu
  <2>2. CASE callback # None
    <3>1. ClearSlots(Slots)
      BY <1>1, <2>2 DEF SetCallback
    <3> QED
      BY <1>1, <3>1, ClearSlotsType DEF SetCallback, TypeOK, gpu
  <2> QED
    BY <2>1, <2>2
<1>2. ASSUME NEW s \in Slots, NEW r \in Registrations, NEW p \in Platforms,
             RegisterProducer(s, r, p)
      PROVE  TypeOK'
  BY <1>2 DEF RegisterProducer, TypeOK, frames, gpu
<1>3. ASSUME NEW s \in Slots, NEW r \in Registrations, NEW p \in Platforms,
             RemoveProducer(s, r, p)
      PROVE  TypeOK'
  <2>1. ClearSlots({s})
    BY <1>3 DEF RemoveProducer
  <2> QED
    BY <1>3, <2>1, ClearSlotsType DEF RemoveProducer, TypeOK, gpu
<1>4. ASSUME NEW s \in Slots, PublishSlot(s)
      PROVE  TypeOK'
  BY <1>4 DEF PublishSlot, TypeOK, control, frames, gpu
<1>5. ASSUME NEW s \in Slots, NEW t \in 1 .. nextIdentity, NEW b \in BOOLEAN,
             SetConfigurationReady(s, t, b)
      PROVE  TypeOK'
  <2>1. latest' \in [Slots -> Frame]
    BY <1>5, DroppedType DEF SetConfigurationReady, TypeOK
  <2>2. configurations' \in [Slots -> Nat] /\ ready' \in [Slots -> BOOLEAN]
    BY <1>5 DEF SetConfigurationReady, TypeOK
  <2> QED
    BY <1>5, <2>1, <2>2 DEF SetConfigurationReady, TypeOK, presence, gpu
<1> QED
  BY <1>1, <1>2, <1>3, <1>4, <1>5 DEF Platform

LEMMA FrameQueueType ==
    ASSUME TypeOK, FrameQueue
    PROVE  TypeOK'
<1> 0 \in Slots
  BY HalAssumption DEF Slots
<1>1. IdleCaller \in CallerType
  BY DEF IdleCaller, CallerType, Fence
<1>2. ASSUME NEW c \in Callers, NEW s \in Slots, NEW t \in 1 .. nextIdentity,
             NEW fits \in BOOLEAN, NEW ahb \in Ahbs,
             NEW acquire \in {{}} \cup {{j} : j \in Jobs},
             Enqueue(c, s, t, fits, ahb, acquire)
      PROVE  TypeOK'
  <2>1. acquire \in Fence /\ t \in Nat
    BY DEF Fence
  <2>2. Reaped(latest[s]) \in Frame
    BY ReapedType DEF TypeOK
  <2>3. CASE Replace(s, t, ahb, acquire, Reaped(latest[s])) /\ UNCHANGED caller
    <3>1. /\ latest' \in [Slots -> Frame]
          /\ framesReceived' \in 0 .. MaxFrames
          /\ pending' \in SUBSET Jobs
          /\ returned' \in SUBSET pending'
      BY <2>1, <2>2, <2>3, ReplaceType
    <3> QED
      BY <1>2, <2>3, <3>1 DEF Enqueue, TypeOK, control, presence
  <2>4. CASE /\ caller' = [caller EXCEPT ![c] =
                    [waiting |-> TRUE, slot |-> s, token |-> t, fits |-> fits, ahb |-> ahb,
                     acquire |-> acquire]]
             /\ pending' = pending \cup acquire
             /\ UNCHANGED <<latest, framesReceived, returned>>
    <3>1. caller' \in [Callers -> CallerType]
      BY <2>1, <2>4 DEF TypeOK, CallerType
    <3>2. pending' \in SUBSET Jobs /\ returned' \in SUBSET pending'
      BY <2>1, <2>4 DEF TypeOK, Fence
    <3> QED
      BY <1>2, <2>4, <3>1, <3>2 DEF Enqueue, TypeOK, control, presence
  <2> QED
    BY <1>2, <2>3, <2>4 DEF Enqueue
<1>3. ASSUME NEW c \in Callers, EnqueueResume(c)
      PROVE  TypeOK'
  <2> DEFINE s == caller[c].slot
             t == caller[c].token
  <2>1. /\ s \in Slots /\ t \in Nat
        /\ caller[c].ahb \in Ahbs \cup {None}
        /\ caller[c].acquire \in Fence
    BY DEF TypeOK, CallerType
  <2>2. caller' \in [Callers -> CallerType]
    BY <1>1, <1>3 DEF EnqueueResume, TypeOK
  <2>3. Reaped(latest[s]) \in Frame
    BY <2>1, ReapedType DEF TypeOK
  <2>4. CASE Replace(s, t, caller[c].ahb, caller[c].acquire, Reaped(latest[s]))
    <3>1. /\ latest' \in [Slots -> Frame]
          /\ framesReceived' \in 0 .. MaxFrames
          /\ pending' \in SUBSET Jobs
          /\ returned' \in SUBSET pending'
      BY <2>1, <2>3, <2>4, ReplaceType
    <3> QED
      BY <1>3, <2>2, <3>1 DEF EnqueueResume, TypeOK, control, presence
  <2>5. CASE UNCHANGED <<latest, framesReceived, pending, returned>>
    BY <1>3, <2>2, <2>5 DEF EnqueueResume, TypeOK, control, presence
  <2> QED
    BY <1>3, <2>4, <2>5 DEF EnqueueResume
<1>4. ASSUME NEW c \in Callers, EnqueueTimeout(c)
      PROVE  TypeOK'
  BY <1>1, <1>4 DEF EnqueueTimeout, TypeOK, control, presence, frames, gpu
<1> QED
  BY <1>2, <1>3, <1>4 DEF FrameQueue

LEMMA LifecycleType ==
    ASSUME TypeOK, NEW n \in Sessions, Lifecycle(n)
    PROVE  TypeOK'
<1>1. session[n] \in SessionType /\ session[n].slot \in Slots
  BY DEF TypeOK, SessionType
<1>2. nextIdentity \in Nat /\ MaxIdentity \in Nat /\ nextIdentity <= MaxIdentity
  BY HalAssumption DEF TypeOK
<1>3. ASSUME NEW s \in Slots, GetDevice(n, s)
      PROVE  TypeOK'
  <2>1. [session[n] EXCEPT !.phase = "device", !.slot = s, !.registration = capabilities[s]]
            \in SessionType
    BY <1>1, Zenon DEF SessionType, Phases, TypeOK
  <2>2. session' \in [Sessions -> SessionType]
    BY <1>3, <2>1 DEF GetDevice, TypeOK
  <2> QED
    BY <1>3, <2>2 DEF GetDevice, TypeOK, control, presence, frames, gpu
<1>4. ASSUME Open(n)
      PROVE  TypeOK'
  <2> DEFINE identity == IF nextIdentity = MaxIdentity THEN 0 ELSE nextIdentity + 1
  <2>1. identity \in Nat
    BY <1>2
  <2>2. session' = [session EXCEPT ![n] = [@ EXCEPT !.phase = "idle", !.identity = identity]]
    BY <1>4 DEF Open
  <2>3. nextIdentity' \in 0 .. MaxIdentity
    BY <1>2, <1>4 DEF Open
  <2> HIDE DEF identity
  <2>4. [session[n] EXCEPT !.phase = "idle", !.identity = identity] \in SessionType
    BY <1>1, <2>1, Zenon DEF SessionType, Phases
  <2>5. session' \in [Sessions -> SessionType]
    BY <2>2, <2>4 DEF TypeOK
  <2> QED
    BY <1>4, <2>3, <2>5 DEF Open, TypeOK, presence, frames, gpu
<1>5. ASSUME NEW phase \in Phases, session' = [session EXCEPT ![n].phase = phase]
      PROVE  session' \in [Sessions -> SessionType]
  <2>1. [session[n] EXCEPT !.phase = phase] \in SessionType
    BY <1>1 DEF SessionType
  <2> QED
    BY <1>5, <2>1 DEF TypeOK
<1>6. ASSUME NEW phase \in {"configuring", "requesting"}, Begin(n, phase)
      PROVE  TypeOK'
  <2>1. session' \in [Sessions -> SessionType]
    BY <1>5, <1>6, Zenon DEF Begin, Phases
  <2> QED
    BY <1>6, <2>1 DEF Begin, TypeOK, control, presence, frames, gpu
<1>7. ASSUME EndBatch(n)
      PROVE  TypeOK'
  <2>1. session' \in [Sessions -> SessionType]
    BY <1>5, <1>7 DEF EndBatch, Phases
  <2> QED
    BY <1>7, <2>1 DEF EndBatch, TypeOK, control, presence, frames, gpu
<1>8. ASSUME NotifyStreamsConfigured(n)
      PROVE  TypeOK'
  <2> DEFINE s == session[n].slot
             t == nextIdentity + 1
             call == [to |-> callback, registration |-> capabilities[s], token |-> t,
                      closed |-> FALSE]
             newCall == IF callback = None THEN NoCall ELSE call
             newPhase == IF callback # None
                         THEN IF session[n].phase = "configuring" THEN "calling" ELSE "recalling"
                         ELSE IF session[n].phase = "configuring" THEN "idle" ELSE "capturing"
             new == [session[n] EXCEPT !.token = t, !.call = newCall, !.phase = newPhase]
  <2>1. t \in Nat /\ t \in 0 .. MaxIdentity
    BY <1>2, <1>8 DEF NotifyStreamsConfigured, MayConfigure
  <2>2. newPhase \in Phases
    BY DEF Phases
  <2>3. newCall \in [to : Platforms \cup {None}, registration : Registrations \cup {None},
                     token : Nat, closed : BOOLEAN]
    BY <1>1, <2>1 DEF NoCall, TypeOK
  <2>4. session' = [session EXCEPT ![n] = new]
    BY <1>8 DEF NotifyStreamsConfigured, TypeOK
  <2> HIDE DEF newPhase, newCall
  <2>5. new \in SessionType
    BY <1>1, <2>1, <2>2, <2>3, Zenon DEF SessionType
  <2> HIDE DEF new
  <2>6. session' \in [Sessions -> SessionType]
    BY <2>4, <2>5 DEF TypeOK
  <2>7. latest' \in [Slots -> Frame]
    BY <1>1, <1>8, DroppedType DEF NotifyStreamsConfigured, TypeOK
  <2>8. /\ sessionOwners' \in [Slots -> Nat] /\ configurations' \in [Slots -> Nat]
        /\ nextIdentity' \in 0 .. MaxIdentity
    BY <1>1, <1>8, <2>1 DEF NotifyStreamsConfigured, TypeOK, SessionType
  <2>9. ownerClosed' \in [Slots -> BOOLEAN] /\ ready' \in [Slots -> BOOLEAN]
    BY <1>8, Zenon DEF NotifyStreamsConfigured, TypeOK
  <2> QED
    BY <1>8, <2>6, <2>7, <2>8, <2>9 DEF NotifyStreamsConfigured, TypeOK, presence, gpu
<1>9. ASSUME ConfigureRejected(n)
      PROVE  TypeOK'
  <2> DEFINE token == IF session[n].phase = "configuring" THEN 0 ELSE session[n].token
  <2>1. token \in Nat
    BY <1>1 DEF SessionType
  <2>2. session' = [session EXCEPT ![n] = [session[n] EXCEPT !.phase = "idle", !.token = token]]
    BY <1>9 DEF ConfigureRejected, TypeOK
  <2> HIDE DEF token
  <2>3. [session[n] EXCEPT !.phase = "idle", !.token = token] \in SessionType
    BY <1>1, <2>1, Zenon DEF SessionType, Phases
  <2>4. session' \in [Sessions -> SessionType]
    BY <2>2, <2>3 DEF TypeOK
  <2> QED
    BY <1>9, <2>4 DEF ConfigureRejected, TypeOK, control, presence, frames, gpu
<1>10. ASSUME CallReturns(n)
       PROVE  TypeOK'
  <2>1. PICK phase \in Phases :
            session' = [session EXCEPT ![n] = [session[n] EXCEPT !.call = NoCall, !.phase = phase]]
    BY <1>10, Zenon DEF CallReturns, TypeOK, Phases
  <2>2. [session[n] EXCEPT !.call = NoCall, !.phase = phase] \in SessionType
    BY <1>1, Zenon DEF SessionType, NoCall
  <2>3. session' \in [Sessions -> SessionType]
    BY <2>1, <2>2 DEF TypeOK
  <2> QED
    BY <1>10, <2>3 DEF CallReturns, TypeOK, control, presence, frames, gpu
<1>11. ASSUME BeginClose(n)
       PROVE  TypeOK'
  <2>1. [session[n] EXCEPT !.closing = TRUE] \in SessionType
    BY <1>1, Zenon DEF SessionType
  <2>2. session' \in [Sessions -> SessionType]
    BY <1>11, <2>1 DEF BeginClose, TypeOK
  <2> QED
    BY <1>11, <2>2 DEF BeginClose, TypeOK, control, presence, frames, gpu
<1>12. ASSUME NotifyCameraClosed(n)
       PROVE  TypeOK'
  <2>1. CASE OwnsConfiguration(n)
    <3> DEFINE s == session[n].slot
               call == [to |-> callback, registration |-> capabilities[s],
                        token |-> session[n].token, closed |-> TRUE]
               newCall == IF callback = None THEN NoCall ELSE call
               newPhase == IF callback = None THEN "closed" ELSE "callingClosed"
    <3>1. newPhase \in Phases
      BY DEF Phases
    <3>2. newCall \in [to : Platforms \cup {None}, registration : Registrations \cup {None},
                       token : Nat, closed : BOOLEAN]
      BY <1>1 DEF NoCall, TypeOK, SessionType
    <3>3. session' = [session EXCEPT ![n] =
                         [session[n] EXCEPT !.call = newCall, !.phase = newPhase]]
      BY <1>12, <2>1, Zenon DEF NotifyCameraClosed, TypeOK
    <3> HIDE DEF newCall, newPhase
    <3>4. [session[n] EXCEPT !.call = newCall, !.phase = newPhase] \in SessionType
      BY <1>1, <3>1, <3>2, Zenon DEF SessionType
    <3>5. session' \in [Sessions -> SessionType]
      BY <3>3, <3>4 DEF TypeOK
    <3>6. latest' \in [Slots -> Frame]
      BY <1>1, <1>12, <2>1, DroppedType DEF NotifyCameraClosed, TypeOK
    <3>7. configurations' \in [Slots -> Nat]
      BY <1>12, <2>1 DEF NotifyCameraClosed, TypeOK
    <3> QED
      BY <1>12, <2>1, <3>5, <3>6, <3>7, Zenon DEF NotifyCameraClosed, TypeOK, presence, gpu
  <2>2. CASE ~OwnsConfiguration(n)
    <3>1. session' \in [Sessions -> SessionType]
      BY <1>5, <1>12, <2>2 DEF NotifyCameraClosed, Phases
    <3> QED
      BY <1>12, <2>2, <3>1 DEF NotifyCameraClosed, TypeOK, presence, gpu
  <2> QED
    BY <2>1, <2>2
<1> QED
  BY <1>3, <1>4, <1>6, <1>7, <1>8, <1>9, <1>10, <1>11, <1>12 DEF Lifecycle

\* A reader is counted on the frame, whose fences are consolidated.
LEMMA ReadersFrameType ==
    ASSUME TypeOK, NEW s \in Slots, NEW more \in SUBSET Fence,
           NEW fences \in Consolidations(latest[s].readFences \cup more), NEW i \in Nat
    PROVE  /\ [latest[s] EXCEPT !.readFences = fences] \in Frame
           /\ [latest[s] EXCEPT !.readFences = fences, !.inflight = i] \in Frame
<1>1. latest[s] \in Frame /\ latest[s].readFences \cup more \in SUBSET Fence
  BY DEF TypeOK, Frame
<1>2. fences \in SUBSET Fence
  BY <1>1, ConsolidationsType
<1> QED
  BY <1>1, <1>2, Zenon DEF Frame

LEMMA CaptureType ==
    ASSUME TypeOK, NEW n \in Sessions, Capture(n)
    PROVE  TypeOK'
<1> DEFINE s == session[n].slot
           cur == latest[s]
<1>1. session[n] \in SessionType /\ s \in Slots
  BY DEF TypeOK, SessionType
<1>2. cur \in Frame /\ cur.inflight \in Nat /\ cur.readFences \in SUBSET Fence
  BY <1>1 DEF TypeOK, Frame
<1>3. ASSUME NEW phase \in Phases, session' = [session EXCEPT ![n].phase = phase]
      PROVE  session' \in [Sessions -> SessionType]
  <2>1. [session[n] EXCEPT !.phase = phase] \in SessionType
    BY <1>1 DEF SessionType
  <2> QED
    BY <1>3, <2>1 DEF TypeOK
<1>4. ASSUME NEW cancelled \in BOOLEAN, AcquireLatest(n, cancelled)
      PROVE  TypeOK'
  <2> DEFINE newPhase == IF cancelled THEN "leaving" ELSE "holding"
             newLast == IF cancelled THEN session[n].last ELSE cur.seq
             newHeld == [ahb |-> cur.ahb, seq |-> cur.seq, acquire |-> cur.acquire, fences |-> {}]
  <2>1. newPhase \in Phases /\ newLast \in Nat
    BY <1>1, <1>2 DEF Phases, SessionType, Frame
  <2>2. newHeld \in [ahb : Ahbs \cup {None}, seq : Nat, acquire : Fence, fences : SUBSET Fence]
    BY <1>2 DEF Frame
  <2>3. session' = [session EXCEPT ![n] =
                       [session[n] EXCEPT !.phase = newPhase, !.last = newLast, !.held = newHeld]]
    BY <1>4 DEF AcquireLatest, TypeOK
  <2> HIDE DEF newPhase, newLast, newHeld
  <2>4. [session[n] EXCEPT !.phase = newPhase, !.last = newLast, !.held = newHeld] \in SessionType
    BY <1>1, <2>1, <2>2 DEF SessionType
  <2>5. session' \in [Sessions -> SessionType]
    BY <2>3, <2>4 DEF TypeOK
  <2>6. PICK fences \in Consolidations(cur.readFences) :
            latest' = [latest EXCEPT ![s] =
                          [cur EXCEPT !.readFences = fences, !.inflight = cur.inflight + 1]]
    BY <1>4, Zenon DEF AcquireLatest
  <2>7. latest' \in [Slots -> Frame]
    <3>1. fences \in Consolidations(cur.readFences \cup {})
      BY <2>6, <1>2
    <3> DEFINE inflight == cur.inflight + 1
    <3>2. inflight \in Nat
      BY <1>2
    <3>3. latest' = [latest EXCEPT ![s] =
                        [cur EXCEPT !.readFences = fences, !.inflight = inflight]]
      BY <2>6
    <3> HIDE DEF inflight
    <3>4. [cur EXCEPT !.readFences = fences, !.inflight = inflight] \in Frame
      BY <1>1, <3>1, <3>2, ReadersFrameType, Zenon
    <3> QED
      BY <3>3, <3>4, Zenon DEF TypeOK
  <2> QED
    BY <1>4, <2>5, <2>7 DEF AcquireLatest, TypeOK, control, presence, gpu
<1>5. ASSUME AcquireFails(n)
      PROVE  TypeOK'
  <2>1. PICK fences \in Consolidations(cur.readFences) :
            latest' = [latest EXCEPT ![s].readFences = fences]
    BY <1>5, Zenon DEF AcquireFails
  <2>2. fences \in Consolidations(cur.readFences \cup {})
    BY <2>1, <1>2
  <2>3. [cur EXCEPT !.readFences = fences] \in Frame
    BY <1>1, <2>2, ReadersFrameType, Zenon
  <2>4. latest' \in [Slots -> Frame]
    BY <2>1, <2>3, Zenon DEF TypeOK
  <2> QED
    BY <1>5, <2>4 DEF AcquireFails, TypeOK, control, presence, gpu
<1>6. ASSUME NEW next \in AfterRequest, NoSource(n, next)
      PROVE  TypeOK'
  <2>1. session' \in [Sessions -> SessionType]
    BY <1>3, <1>6, Zenon DEF NoSource, AfterRequest, Phases
  <2> QED
    BY <1>6, <2>1 DEF NoSource, TypeOK, control, presence, frames, gpu
<1>7. ASSUME SourceReady(n)
      PROVE  TypeOK'
  <2>1. [session[n] EXCEPT !.held.acquire = {}] \in SessionType
    BY <1>1 DEF SessionType, Fence
  <2>2. session' = [session EXCEPT ![n] = [session[n] EXCEPT !.held.acquire = {}]]
    BY <1>7 DEF SourceReady, TypeOK
  <2>3. session' \in [Sessions -> SessionType]
    BY <2>1, <2>2 DEF TypeOK
  <2> QED
    BY <1>7, <2>3 DEF SourceReady, TypeOK, control, presence, frames, gpu
<1>8. ASSUME BeginOutput(n)
      PROVE  TypeOK'
  <2>1. session' \in [Sessions -> SessionType]
    BY <1>3, <1>8 DEF BeginOutput, Phases
  <2> QED
    BY <1>8, <2>1 DEF BeginOutput, TypeOK, control, presence, frames, gpu
<1>9. ASSUME NEW j \in Jobs, SubmitRead(n, j)
      PROVE  TypeOK'
  <2> DEFINE fences == session[n].held.fences \cup {{j}}
  <2>1. fences \in SUBSET Fence /\ session[n].held.seq \in Nat
    BY <1>1 DEF SessionType, Fence
  <2>2. session' = [session EXCEPT ![n] =
                       [session[n] EXCEPT !.phase = "holding", !.held.fences = fences]]
    BY <1>9 DEF SubmitRead, TypeOK
  <2> HIDE DEF fences
  <2>3. [session[n] EXCEPT !.phase = "holding", !.held.fences = fences] \in SessionType
    BY <1>1, <2>1, Zenon DEF SessionType, Phases
  <2>4. session' \in [Sessions -> SessionType]
    BY <2>2, <2>3 DEF TypeOK
  <2>5. /\ pending' \in SUBSET Jobs /\ returned' \in SUBSET pending'
        /\ reads' \in [Jobs -> Nat]
    BY <1>9, <2>1 DEF SubmitRead, TypeOK
  <2> QED
    BY <1>9, <2>4, <2>5 DEF SubmitRead, TypeOK, control, presence, frames
<1>10. ASSUME ReadOnCpu(n)
       PROVE  TypeOK'
  <2>1. session' \in [Sessions -> SessionType]
    BY <1>3, <1>10 DEF ReadOnCpu, Phases
  <2> QED
    BY <1>10, <2>1 DEF ReadOnCpu, TypeOK, control, presence, frames, gpu
<1>11. ASSUME NEW next \in AfterRequest, ReleaseFrame(n, next)
       PROVE  TypeOK'
  <2>1. NoHold \in [ahb : Ahbs \cup {None}, seq : Nat, acquire : Fence, fences : SUBSET Fence]
    BY DEF NoHold, Fence
  <2>2. [session[n] EXCEPT !.phase = next, !.held = NoHold] \in SessionType
    BY <1>1, <2>1, Zenon DEF SessionType, Phases, AfterRequest
  <2>3. session' \in [Sessions -> SessionType]
    BY <1>11, <2>2, Zenon DEF ReleaseFrame, TypeOK
  <2>4. HeldFences(n) \in SUBSET Fence
    BY <1>1 DEF HeldFences, SessionType
  <2>5. CASE UNCHANGED latest
    BY <1>11, <2>3, <2>5, Zenon DEF ReleaseFrame, TypeOK, control, presence, gpu
  <2>6. CASE ~UNCHANGED latest
    <3> DEFINE inflight == IF cur.inflight > 0 THEN cur.inflight - 1 ELSE cur.inflight
    <3>1. PICK fences \in Consolidations(cur.readFences \cup HeldFences(n)) :
              latest' = [latest EXCEPT ![s] = Reaped(
                            [cur EXCEPT !.readFences = fences, !.inflight = inflight])]
      BY <1>11, <2>6, Zenon DEF ReleaseFrame
    <3>2. inflight \in Nat
      BY <1>2
    <3> HIDE DEF inflight
    <3>3. [cur EXCEPT !.readFences = fences, !.inflight = inflight] \in Frame
      BY <1>1, <2>4, <3>2, ReadersFrameType, Zenon
    <3>4. latest' \in [Slots -> Frame]
      BY <3>1, <3>3, ReapedType, Zenon DEF TypeOK
    <3> QED
      BY <1>11, <2>3, <3>4, Zenon DEF ReleaseFrame, TypeOK, control, presence, gpu
  <2> QED
    BY <2>5, <2>6
<1> QED
  BY <1>4, <1>5, <1>6, <1>7, <1>8, <1>9, <1>10, <1>11 DEF Capture

LEMMA SignalType ==
    ASSUME TypeOK, NEW j \in Jobs, Signal(j)
    PROVE  TypeOK'
BY DEF Signal, TypeOK, control, presence, frames

LEMMA NextType == TypeOK /\ [Next]_vars => TypeOK'
<1> SUFFICES ASSUME TypeOK, [Next]_vars
             PROVE  TypeOK'
  OBVIOUS
<1>1. CASE UNCHANGED vars
  BY <1>1 DEF vars, control, presence, frames, gpu, TypeOK
<1> QED
  BY <1>1, PlatformType, FrameQueueType, LifecycleType, CaptureType, SignalType DEF Next

\* Every variable keeps its type, the identity counter saturates at INT64_MAX,
\* and a fence is given back to the relay for pending reads only.
THEOREM TypeCorrect == Spec => []TypeOK
<1>1. Init => TypeOK
  BY InitType
<1>2. TypeOK /\ [Next]_vars => TypeOK'
  BY NextType
<1> QED
  BY <1>1, <1>2, PTL DEF Spec

-----------------------------------------------------------------------------
\* Tokens, owners and session identities are drawn from one counter.
Issued ==
    /\ \A s \in Slots : /\ configurations[s] <= nextIdentity
                        /\ sessionOwners[s] <= nextIdentity
    /\ \A n \in Sessions : /\ session[n].identity <= nextIdentity
                           /\ session[n].token <= nextIdentity

\* What a session has before it is open, and before it is configured.
Opened ==
    \A n \in Sessions :
        /\ session[n].phase \in {"none", "device"} => session[n].token = 0
        /\ session[n].phase # "none" => session[n].registration \in Registrations
        /\ session[n].token > 0 => session[n].identity > 0

\* A session between its registrationCurrent check and notifyStreamsConfigured:
\* if the latter would accept it, then what the former found still holds.
CheckHolds ==
    \A n \in Sessions :
        session[n].phase \in {"configuring", "requesting"} /\ MayConfigure(n)
            => RegistrationCurrent(n)

\* There is no configuration without a producer.
ConfigurationHasProducer ==
    \A s \in Slots : configurations[s] # 0 => capabilities[s] # None

ControlInv ==
    /\ TypeOK
    /\ Issued
    /\ Opened
    /\ CheckHolds
    /\ ConfigurationHasProducer
    /\ ConfiguredByCurrentRegistration
    /\ ConfigurationHasOwner

\* What the holder of mPresenceLock is about to publish is the registration
\* found in mCapabilities, which only the holder changes.
PresenceInv ==
    /\ \A s \in publishing : publishAs <=> capabilities[s] # None
    /\ PresenceAgrees

\* A session holds a frame from acquireLatest to releaseFrame.
Holding ==
    \A n \in Sessions :
        IF session[n].phase \in {"holding", "leaving", "rendering"}
        THEN session[n].held.ahb # None
        ELSE session[n].held = NoHold

ReadersInv == TypeOK /\ Holding /\ FrameReadIsKept

TrackedInv ==
    /\ \A j \in Jobs : reads[j] # 0 => j \in pending
    /\ EveryReadTracked
----------------------------------------------------------------------------
(***************************************************************************)
(* The control plane.                                                      *)
(***************************************************************************)

Ended == {"none", "device", "closed", "callingClosed"}

\* A step that matters to no other part of the control plane: sessions move on
\* within what they are doing.
Quiet ==
    \A m \in Sessions :
        /\ session'[m].slot = session[m].slot
        /\ session'[m].registration = session[m].registration
        /\ session'[m].identity = session[m].identity
        /\ session'[m].token = session[m].token
        /\ session'[m].phase = "none" <=> session[m].phase = "none"
        /\ session'[m].phase = "device" <=> session[m].phase = "device"
        /\ session'[m].phase \in {"configuring", "requesting"}
               => session[m].phase \in {"configuring", "requesting"}
        /\ session[m].phase \notin Ended => session'[m].phase \notin Ended

LEMMA QuietControl ==
    ASSUME ControlInv, TypeOK', Quiet, UNCHANGED control
    PROVE  ControlInv'
<1>1. /\ capabilities' = capabilities /\ configurations' = configurations
      /\ sessionOwners' = sessionOwners /\ ownerClosed' = ownerClosed
      /\ nextIdentity' = nextIdentity
  BY DEF control
<1>2. Issued'
  BY <1>1 DEF ControlInv, Issued, Quiet
<1>3. Opened'
  BY DEF ControlInv, Opened, Quiet
<1>4. CheckHolds'
  BY <1>1 DEF ControlInv, CheckHolds, Quiet, MayConfigure, RegistrationCurrent
<1>5. ConfigurationHasProducer' /\ ConfiguredByCurrentRegistration'
  BY <1>1 DEF ControlInv, ConfigurationHasProducer, ConfiguredByCurrentRegistration, Quiet
<1>6. ConfigurationHasOwner'
  BY <1>1 DEF ControlInv, ConfigurationHasOwner, Quiet, Ended
<1> QED
  BY <1>2, <1>3, <1>4, <1>5, <1>6 DEF ControlInv

\* The identities and tokens of the sessions, as far as arithmetic needs them.
LEMMA ControlTypes ==
    ASSUME TypeOK
    PROVE  /\ nextIdentity \in Nat /\ MaxIdentity \in Nat /\ nextIdentity <= MaxIdentity
           /\ \A s \in Slots : configurations[s] \in Nat /\ sessionOwners[s] \in Nat
           /\ \A n \in Sessions : /\ session[n].slot \in Slots
                                  /\ session[n].identity \in Nat
                                  /\ session[n].token \in Nat
                                  /\ session[n] \in SessionType
BY HalAssumption DEF TypeOK, SessionType

\* Slots that lose their producer: no session that has checked its registration
\* may configure them any more.
LEMMA ClearedControl ==
    ASSUME ControlInv, TypeOK', NEW S \in SUBSET Slots, ClearSlots(S), UNCHANGED session
    PROVE  ControlInv'
<1>1. TypeOK
  BY DEF ControlInv
<1>2. /\ RetireOwners(S)
      /\ \A s \in Slots : /\ configurations'[s] = IF s \in S THEN 0 ELSE configurations[s]
                          /\ ownerClosed'[s] = (s \in S \/ ownerClosed[s])
                          /\ capabilities'[s] = IF s \in S THEN None ELSE capabilities[s]
  BY DEF ClearSlots
<1>3. /\ nextIdentity' \in 0 .. MaxIdentity /\ nextIdentity <= nextIdentity'
      /\ \A s \in Slots \ S : sessionOwners'[s] = sessionOwners[s]
      /\ \A s \in S : \/ nextIdentity < sessionOwners'[s] /\ sessionOwners'[s] <= nextIdentity'
                      \/ nextIdentity' = MaxIdentity /\ sessionOwners'[s] = sessionOwners[s]
  BY <1>1, <1>2, RetireOwnersEffect
<1>4. /\ nextIdentity' \in Nat /\ MaxIdentity \in Nat
      /\ \A s \in Slots : configurations'[s] \in Nat /\ sessionOwners'[s] \in Nat
  BY ControlTypes, HalAssumption DEF TypeOK
<1>5. Issued'
  <2>1. ASSUME NEW s \in Slots
        PROVE  configurations'[s] <= nextIdentity' /\ sessionOwners'[s] <= nextIdentity'
    <3>1. configurations[s] <= nextIdentity /\ sessionOwners[s] <= nextIdentity
      BY DEF ControlInv, Issued
    <3> QED
      BY <1>1, <1>2, <1>3, <1>4, <3>1, ControlTypes
  <2>2. ASSUME NEW n \in Sessions
        PROVE  session'[n].identity <= nextIdentity' /\ session'[n].token <= nextIdentity'
    BY <1>1, <1>3, <1>4, ControlTypes DEF ControlInv, Issued
  <2> QED
    BY <2>1, <2>2 DEF Issued
<1>6. Opened'
  BY DEF ControlInv, Opened
<1>7. CheckHolds'
  <2> SUFFICES ASSUME NEW n \in Sessions,
                      session[n].phase \in {"configuring", "requesting"},
                      MayConfigure(n)'
               PROVE  RegistrationCurrent(n)'
    BY DEF CheckHolds
  <2> DEFINE s == session[n].slot
  <2>1. s \in Slots /\ session[n].identity \in Nat /\ session[n].identity <= nextIdentity
    BY <1>1, ControlTypes DEF ControlInv, Issued
  <2>2. /\ session[n].identity > 0
        /\ session[n].identity >= sessionOwners'[s]
        /\ ~(session[n].identity = sessionOwners'[s] /\ ownerClosed'[s])
        /\ nextIdentity' < MaxIdentity
    BY DEF MayConfigure
  <2>3. s \notin S
    BY <1>1, <1>3, <1>4, <2>1, <2>2, ControlTypes
  <2>4. MayConfigure(n)
    <3>1. sessionOwners'[s] = sessionOwners[s] /\ ownerClosed'[s] = ownerClosed[s]
      <4>1. sessionOwners'[s] = sessionOwners[s] /\ ownerClosed'[s] = (s \in S \/ ownerClosed[s])
        BY <1>2, <1>3, <2>1, <2>3
      <4>2. ownerClosed[s] \in BOOLEAN
        BY <1>1, <2>1 DEF TypeOK
      <4> QED
        BY <2>3, <4>1, <4>2
    <3>2. nextIdentity < MaxIdentity
      BY <1>1, <1>3, <1>4, <2>2, ControlTypes
    <3> QED
      BY <2>2, <3>1, <3>2 DEF MayConfigure
  <2>5. RegistrationCurrent(n)
    BY <2>4 DEF ControlInv, CheckHolds
  <2> QED
    BY <1>2, <2>1, <2>3, <2>5 DEF RegistrationCurrent
<1>8. ConfigurationHasProducer'
  BY <1>2 DEF ControlInv, ConfigurationHasProducer
<1>9. ConfiguredByCurrentRegistration'
  <2> SUFFICES ASSUME NEW n \in Sessions, session[n].token > 0,
                      configurations'[session[n].slot] = session[n].token
               PROVE  /\ capabilities'[session[n].slot] = session[n].registration
                      /\ sessionOwners'[session[n].slot] = session[n].identity
                      /\ ~ownerClosed'[session[n].slot]
    BY DEF ConfiguredByCurrentRegistration
  <2>1. session[n].slot \in Slots
    BY <1>1, ControlTypes
  <2>2. session[n].slot \notin S
    BY <1>2, <2>1
  <2> QED
    BY <1>2, <1>3, <2>1, <2>2, Zenon DEF ControlInv, ConfiguredByCurrentRegistration
<1>10. ConfigurationHasOwner'
  <2> SUFFICES ASSUME NEW s \in Slots, configurations'[s] # 0, nextIdentity' < MaxIdentity
               PROVE  \E n \in Sessions : /\ session[n].slot = s
                                          /\ session[n].token = configurations'[s]
                                          /\ session[n].phase \notin Ended
    BY DEF ConfigurationHasOwner, Ended
  <2>1. configurations'[s] = configurations[s] /\ configurations[s] # 0
    BY <1>2
  <2>2. nextIdentity < MaxIdentity
    BY <1>1, <1>3, <1>4, ControlTypes
  <2> QED
    BY <2>1, <2>2 DEF ControlInv, ConfigurationHasOwner, Ended
<1> QED
  BY <1>5, <1>6, <1>7, <1>8, <1>9, <1>10 DEF ControlInv

\* A control step that leaves the sessions, the owners and the identities alone
\* and can only end configurations.
LEMMA ShrunkControl ==
    ASSUME ControlInv, TypeOK',
           UNCHANGED <<session, sessionOwners, ownerClosed, nextIdentity>>,
           \A s \in Slots : configurations'[s] \in {0, configurations[s]},
           \A s \in Slots : \/ capabilities'[s] = capabilities[s]
                            \/ configurations'[s] = 0 /\ capabilities[s] = None
    PROVE  ControlInv'
<1>1. TypeOK
  BY DEF ControlInv
<1>2. Issued'
  BY <1>1, ControlTypes DEF ControlInv, Issued
<1>3. Opened'
  BY DEF ControlInv, Opened
<1>4. CheckHolds'
  <2> SUFFICES ASSUME NEW n \in Sessions,
                      session[n].phase \in {"configuring", "requesting"}, MayConfigure(n)
               PROVE  capabilities'[session[n].slot] = session[n].registration
    BY DEF CheckHolds, MayConfigure, RegistrationCurrent
  <2>1. capabilities[session[n].slot] = session[n].registration
    BY DEF ControlInv, CheckHolds, RegistrationCurrent
  <2>2. session[n].registration # None /\ session[n].slot \in Slots
    BY <1>1, ControlTypes, HalAssumption DEF ControlInv, Opened
  <2> QED
    BY <2>1, <2>2
<1>5. ConfigurationHasProducer'
  BY DEF ControlInv, ConfigurationHasProducer
<1>6. ConfiguredByCurrentRegistration'
  BY <1>1, ControlTypes DEF ControlInv, ConfiguredByCurrentRegistration
<1>7. ConfigurationHasOwner'
  BY DEF ControlInv, ConfigurationHasOwner
<1> QED
  BY <1>2, <1>3, <1>4, <1>5, <1>6, <1>7 DEF ControlInv

LEMMA PlatformControl ==
    ASSUME ControlInv, Platform
    PROVE  ControlInv'
<1>1. TypeOK /\ TypeOK'
  BY PlatformType DEF ControlInv
<1>2. ASSUME NEW p \in Platforms, SetCallback(p)
      PROVE  ControlInv'
  <2>1. CASE callback = None
    BY <1>1, <1>2, <2>1, ShrunkControl DEF SetCallback
  <2>2. CASE callback # None
    BY <1>1, <1>2, <2>2, ClearedControl DEF SetCallback
  <2> QED
    BY <2>1, <2>2
<1>3. ASSUME NEW s \in Slots, NEW r \in Registrations, NEW p \in Platforms,
             RegisterProducer(s, r, p)
      PROVE  ControlInv'
  <2>1. \A u \in Slots : configurations'[u] \in {0, configurations[u]}
    BY <1>1, <1>3 DEF RegisterProducer, TypeOK
  <2>2. \A u \in Slots : \/ capabilities'[u] = capabilities[u]
                         \/ configurations'[u] = 0 /\ capabilities[u] = None
    BY <1>1, <1>3 DEF RegisterProducer, TypeOK
  <2> QED
    BY <1>1, <1>3, <2>1, <2>2, ShrunkControl DEF RegisterProducer
<1>4. ASSUME NEW s \in Slots, NEW r \in Registrations, NEW p \in Platforms,
             RemoveProducer(s, r, p)
      PROVE  ControlInv'
  BY <1>1, <1>4, ClearedControl DEF RemoveProducer
<1>5. ASSUME NEW s \in Slots, PublishSlot(s)
      PROVE  ControlInv'
  BY <1>1, <1>5, ShrunkControl DEF PublishSlot, control
<1>6. ASSUME NEW s \in Slots, NEW t \in 1 .. nextIdentity, NEW b \in BOOLEAN,
             SetConfigurationReady(s, t, b)
      PROVE  ControlInv'
  <2>1. \A u \in Slots : configurations'[u] \in {0, configurations[u]}
    BY <1>1, <1>6 DEF SetConfigurationReady, TypeOK
  <2> QED
    BY <1>1, <1>6, <2>1, ShrunkControl DEF SetConfigurationReady
<1> QED
  BY <1>2, <1>3, <1>4, <1>5, <1>6 DEF Platform

\* notifyStreamsConfigured is accepted.
LEMMA ConfiguredControl ==
    ASSUME ControlInv, TypeOK', NEW n \in Sessions, NotifyStreamsConfigured(n)
    PROVE  ControlInv'
<1> DEFINE s == session[n].slot
           t == nextIdentity + 1
           newPhase == session'[n].phase
<1>1. TypeOK
  BY DEF ControlInv
<1>2. /\ nextIdentity \in Nat /\ nextIdentity < MaxIdentity /\ MaxIdentity \in Nat
      /\ s \in Slots /\ session[n].identity \in Nat
      /\ session[n].identity > 0 /\ session[n].identity <= nextIdentity
      /\ session[n].identity >= sessionOwners[s] /\ sessionOwners[s] \in Nat
      /\ ~(session[n].identity = sessionOwners[s] /\ ownerClosed[s])
      /\ MayConfigure(n)
      /\ session[n].phase \in {"configuring", "requesting"}
  BY <1>1, ControlTypes DEF NotifyStreamsConfigured, MayConfigure, ControlInv, Issued
<1>3. /\ nextIdentity' = t /\ capabilities' = capabilities
      /\ \A u \in Slots : /\ sessionOwners'[u] = IF u = s THEN session[n].identity
                                                 ELSE sessionOwners[u]
                          /\ configurations'[u] = IF u = s THEN t ELSE configurations[u]
                          /\ u # s => ownerClosed'[u] = ownerClosed[u]
      /\ ~ownerClosed'[s]
  BY <1>1, <1>2, Zenon DEF NotifyStreamsConfigured, TypeOK
<1>4. /\ newPhase \in {"calling", "recalling", "idle", "capturing"}
      /\ session'[n].token = t
      /\ session'[n].slot = s
      /\ session'[n].registration = session[n].registration
      /\ session'[n].identity = session[n].identity
      /\ \A m \in Sessions \ {n} : session'[m] = session[m]
  BY <1>1, ControlTypes DEF NotifyStreamsConfigured, TypeOK, SessionType
<1>5. capabilities[s] = session[n].registration /\ capabilities[s] # None
  <2>1. capabilities[s] = session[n].registration
    BY <1>2 DEF ControlInv, CheckHolds, RegistrationCurrent
  <2>2. session[n].registration \in Registrations
    BY <1>2 DEF ControlInv, Opened
  <2> QED
    BY <2>1, <2>2, HalAssumption
<1> HIDE DEF newPhase
<1>6. Issued'
  <2>1. ASSUME NEW u \in Slots
        PROVE  configurations'[u] <= t /\ sessionOwners'[u] <= t
    <3>1. /\ configurations[u] <= nextIdentity /\ sessionOwners[u] <= nextIdentity
          /\ configurations[u] \in Nat /\ sessionOwners[u] \in Nat
      BY <1>1, ControlTypes DEF ControlInv, Issued
    <3> QED
      BY <1>2, <1>3, <3>1
  <2>2. ASSUME NEW m \in Sessions
        PROVE  session'[m].identity <= t /\ session'[m].token <= t
    <3>1. /\ session[m].identity <= nextIdentity /\ session[m].token <= nextIdentity
          /\ session[m].identity \in Nat /\ session[m].token \in Nat
      BY <1>1, ControlTypes DEF ControlInv, Issued
    <3> QED
      BY <1>2, <1>4, <3>1
  <2> QED
    BY <1>3, <2>1, <2>2 DEF Issued
<1>7. Opened'
  BY <1>2, <1>4 DEF ControlInv, Opened, newPhase
<1>8. CheckHolds'
  <2> SUFFICES ASSUME NEW m \in Sessions,
                      session'[m].phase \in {"configuring", "requesting"}, MayConfigure(m)'
               PROVE  RegistrationCurrent(m)'
    BY DEF CheckHolds
  <2>1. m # n /\ session'[m] = session[m] /\ session[m].slot \in Slots
    BY <1>1, <1>4, ControlTypes DEF newPhase
  <2>2. CASE session[m].slot = s
    <3>1. /\ session[m].identity \in Nat
          /\ session[m].identity >= session[n].identity
          /\ session[m].identity >= sessionOwners[s]
          /\ ~(session[m].identity = sessionOwners[s] /\ ownerClosed[s])
      BY <1>1, <1>2, <1>3, <2>1, <2>2, ControlTypes DEF MayConfigure
    <3>2. MayConfigure(m)
      BY <1>2, <2>2, <3>1 DEF MayConfigure
    <3> QED
      BY <1>3, <2>1, <3>2 DEF ControlInv, CheckHolds, RegistrationCurrent
  <2>3. CASE session[m].slot # s
    <3>1. MayConfigure(m)
      BY <1>2, <1>3, <2>1, <2>3 DEF MayConfigure
    <3> QED
      BY <1>3, <2>1, <3>1 DEF ControlInv, CheckHolds, RegistrationCurrent
  <2> QED
    BY <2>2, <2>3
<1>9. ConfigurationHasProducer'
  BY <1>3, <1>5 DEF ControlInv, ConfigurationHasProducer
<1>10. ConfiguredByCurrentRegistration'
  <2> SUFFICES ASSUME NEW m \in Sessions, session'[m].token > 0,
                      configurations'[session'[m].slot] = session'[m].token
               PROVE  /\ capabilities'[session'[m].slot] = session'[m].registration
                      /\ sessionOwners'[session'[m].slot] = session'[m].identity
                      /\ ~ownerClosed'[session'[m].slot]
    BY DEF ConfiguredByCurrentRegistration
  <2>1. CASE m = n
    BY <1>2, <1>3, <1>4, <1>5, <2>1
  <2>2. CASE m # n
    <3>1. /\ session'[m] = session[m] /\ session[m].slot \in Slots
          /\ session[m].token \in Nat /\ session[m].token <= nextIdentity
      BY <1>1, <1>4, <2>2, ControlTypes DEF ControlInv, Issued
    <3>2. session[m].slot # s
      BY <1>2, <1>3, <3>1
    <3> QED
      BY <1>3, <3>1, <3>2 DEF ControlInv, ConfiguredByCurrentRegistration
  <2> QED
    BY <2>1, <2>2
<1>11. ConfigurationHasOwner'
  <2> SUFFICES ASSUME NEW u \in Slots, configurations'[u] # 0
               PROVE  \E m \in Sessions : /\ session'[m].slot = u
                                          /\ session'[m].token = configurations'[u]
                                          /\ session'[m].phase \notin Ended
    BY DEF ConfigurationHasOwner, Ended
  <2>1. CASE u = s
    <3>1. newPhase \notin Ended
      BY <1>4 DEF Ended
    <3> QED
      BY <1>3, <1>4, <2>1, <3>1 DEF newPhase
  <2>2. CASE u # s
    <3>1. PICK m \in Sessions : /\ session[m].slot = u
                                /\ session[m].token = configurations[u]
                                /\ session[m].phase \notin Ended
      BY <1>2, <1>3, <2>2 DEF ControlInv, ConfigurationHasOwner, Ended
    <3> QED
      BY <1>3, <1>4, <2>2, <3>1
  <2> QED
    BY <2>1, <2>2
<1> QED
  BY <1>6, <1>7, <1>8, <1>9, <1>10, <1>11 DEF ControlInv

\* notifyStreamsConfigured returns 0.  A session that loses its token this way
\* did not own the configuration in force.
LEMMA RejectedControl ==
    ASSUME ControlInv, TypeOK', NEW n \in Sessions, ConfigureRejected(n)
    PROVE  ControlInv'
<1> DEFINE s == session[n].slot
<1>1. TypeOK
  BY DEF ControlInv
<1>2. /\ session[n].phase \in {"configuring", "requesting"} /\ ~MayConfigure(n)
      /\ capabilities' = capabilities /\ configurations' = configurations
      /\ sessionOwners' = sessionOwners /\ ownerClosed' = ownerClosed
      /\ nextIdentity' = nextIdentity
  BY DEF ConfigureRejected, control
<1>3. /\ session'[n].phase = "idle" /\ session'[n].token \in {0, session[n].token}
      /\ session'[n].slot = s /\ session'[n].registration = session[n].registration
      /\ session'[n].identity = session[n].identity
      /\ \A m \in Sessions \ {n} : session'[m] = session[m]
  BY <1>1, ControlTypes DEF ConfigureRejected, TypeOK, SessionType
<1>4. Issued'
  BY <1>1, <1>2, <1>3, ControlTypes DEF ControlInv, Issued
<1>5. Opened'
  BY <1>2, <1>3 DEF ControlInv, Opened
<1>6. CheckHolds'
  BY <1>2, <1>3 DEF ControlInv, CheckHolds, MayConfigure, RegistrationCurrent
<1>7. ConfigurationHasProducer'
  BY <1>2 DEF ControlInv, ConfigurationHasProducer
<1>8. ConfiguredByCurrentRegistration'
  BY <1>2, <1>3 DEF ControlInv, ConfiguredByCurrentRegistration
<1>9. ConfigurationHasOwner'
  <2> SUFFICES ASSUME NEW u \in Slots, configurations[u] # 0, nextIdentity < MaxIdentity
               PROVE  \E m \in Sessions : /\ session'[m].slot = u
                                          /\ session'[m].token = configurations[u]
                                          /\ session'[m].phase \notin Ended
    BY <1>2 DEF ConfigurationHasOwner, Ended
  <2>1. PICK m \in Sessions : /\ session[m].slot = u
                              /\ session[m].token = configurations[u]
                              /\ session[m].phase \notin Ended
    BY DEF ControlInv, ConfigurationHasOwner, Ended
  <2>2. m # n
    <3> SUFFICES ASSUME m = n
                 PROVE  FALSE
      OBVIOUS
    <3>1. session[n].token > 0 /\ session[n].identity \in Nat
      BY <1>1, <2>1, ControlTypes
    <3>2. session[n].identity > 0
      BY <3>1 DEF ControlInv, Opened
    <3>3. sessionOwners[s] = session[n].identity /\ ~ownerClosed[s]
      BY <2>1, <3>1 DEF ControlInv, ConfiguredByCurrentRegistration
    <3> QED
      BY <1>2, <3>1, <3>2, <3>3 DEF MayConfigure
  <2> QED
    BY <1>3, <2>1, <2>2
<1> QED
  BY <1>4, <1>5, <1>6, <1>7, <1>8, <1>9 DEF ControlInv

\* close() ends the session's configuration, or there is none of it in force.
LEMMA ClosedControl ==
    ASSUME ControlInv, TypeOK', NEW n \in Sessions, NotifyCameraClosed(n)
    PROVE  ControlInv'
<1> DEFINE s == session[n].slot
<1>1. TypeOK /\ s \in Slots
  BY ControlTypes DEF ControlInv
<1>2. /\ session[n].phase = "idle"
      /\ capabilities' = capabilities /\ sessionOwners' = sessionOwners
      /\ nextIdentity' = nextIdentity
      /\ \A u \in Slots : u # s => /\ configurations'[u] = configurations[u]
                                   /\ ownerClosed'[u] = ownerClosed[u]
  BY <1>1 DEF NotifyCameraClosed, TypeOK
<1>3. /\ session'[n].phase \in {"closed", "callingClosed"}
      /\ session'[n].token = session[n].token
      /\ session'[n].slot = s /\ session'[n].registration = session[n].registration
      /\ session'[n].identity = session[n].identity
      /\ \A m \in Sessions \ {n} : session'[m] = session[m]
  <2>1. session \in [Sessions -> SessionType] /\ session[n] \in SessionType
    BY <1>1 DEF TypeOK
  <2>2. CASE OwnsConfiguration(n)
    <3> DEFINE newPhase == IF callback = None THEN "closed" ELSE "callingClosed"
               newCall == IF callback = None THEN NoCall
                          ELSE [to |-> callback, registration |-> capabilities[s],
                                token |-> session[n].token, closed |-> TRUE]
    <3>1. session' = [session EXCEPT ![n] =
                         [session[n] EXCEPT !.call = newCall, !.phase = newPhase]]
      BY <2>1, <2>2 DEF NotifyCameraClosed
    <3>2. newPhase \in {"closed", "callingClosed"}
      OBVIOUS
    <3> HIDE DEF newCall, newPhase
    <3> QED
      BY <2>1, <3>1, <3>2 DEF SessionType
  <2>3. CASE ~OwnsConfiguration(n)
    <3>1. session' = [session EXCEPT ![n].phase = "closed"]
      BY <2>3 DEF NotifyCameraClosed
    <3> QED
      BY <2>1, <3>1 DEF SessionType
  <2> QED
    BY <2>2, <2>3
<1>4. \/ configurations'[s] = 0 /\ ownerClosed'[s]
      \/ /\ configurations'[s] = configurations[s] /\ ownerClosed'[s] = ownerClosed[s]
         /\ ~OwnsConfiguration(n)
  BY <1>1 DEF NotifyCameraClosed, TypeOK
<1>5. Issued'
  BY <1>1, <1>2, <1>3, <1>4, ControlTypes DEF ControlInv, Issued
<1>6. Opened'
  BY <1>2, <1>3 DEF ControlInv, Opened
<1>7. CheckHolds'
  <2> SUFFICES ASSUME NEW m \in Sessions,
                      session'[m].phase \in {"configuring", "requesting"}, MayConfigure(m)'
               PROVE  RegistrationCurrent(m)'
    BY DEF CheckHolds
  <2>1. m # n /\ session'[m] = session[m] /\ session[m].slot \in Slots
    BY <1>1, <1>3, ControlTypes
  <2>2. MayConfigure(m)
    BY <1>2, <1>4, <2>1 DEF MayConfigure
  <2> QED
    BY <1>2, <2>1, <2>2 DEF ControlInv, CheckHolds, RegistrationCurrent
<1>8. ConfigurationHasProducer'
  BY <1>2, <1>4 DEF ControlInv, ConfigurationHasProducer
<1>9. ConfiguredByCurrentRegistration'
  <2> SUFFICES ASSUME NEW m \in Sessions, session[m].token > 0,
                      configurations'[session[m].slot] = session[m].token
               PROVE  /\ capabilities[session[m].slot] = session[m].registration
                      /\ sessionOwners[session[m].slot] = session[m].identity
                      /\ ~ownerClosed'[session[m].slot]
    BY <1>2, <1>3 DEF ConfiguredByCurrentRegistration
  <2>1. /\ configurations'[session[m].slot] = configurations[session[m].slot]
        /\ ownerClosed'[session[m].slot] = ownerClosed[session[m].slot]
    BY <1>1, <1>2, <1>4, ControlTypes
  <2> QED
    BY <2>1, Zenon DEF ControlInv, ConfiguredByCurrentRegistration
<1>10. ConfigurationHasOwner'
  <2> SUFFICES ASSUME NEW u \in Slots, configurations'[u] # 0, nextIdentity < MaxIdentity
               PROVE  \E m \in Sessions : /\ session'[m].slot = u
                                          /\ session'[m].token = configurations'[u]
                                          /\ session'[m].phase \notin Ended
    BY <1>2 DEF ConfigurationHasOwner, Ended
  <2>1. configurations'[u] = configurations[u] /\ (u = s => ~OwnsConfiguration(n))
    BY <1>2, <1>4
  <2>2. PICK m \in Sessions : /\ session[m].slot = u
                              /\ session[m].token = configurations[u]
                              /\ session[m].phase \notin Ended
    BY <2>1 DEF ControlInv, ConfigurationHasOwner, Ended
  <2>3. m # n
    <3> SUFFICES ASSUME m = n
                 PROVE  FALSE
      OBVIOUS
    <3>1. session[n].token > 0
      BY <1>1, <2>1, <2>2, ControlTypes
    <3>2. session[n].identity > 0 /\ sessionOwners[s] = session[n].identity
      BY <2>2, <3>1 DEF ControlInv, Opened, ConfiguredByCurrentRegistration
    <3> QED
      BY <2>1, <2>2, <3>1, <3>2 DEF OwnsConfiguration
  <2> QED
    BY <1>3, <2>1, <2>2, <2>3
<1> QED
  BY <1>5, <1>6, <1>7, <1>8, <1>9, <1>10 DEF ControlInv

\* A session comes to be: it has no token yet.
LEMMA OpenedControl ==
    ASSUME ControlInv, TypeOK', NEW n \in Sessions,
           Open(n) \/ \E s \in Slots : GetDevice(n, s)
    PROVE  ControlInv'
<1>1. TypeOK
  BY DEF ControlInv
<1>2. /\ session[n].phase \in {"none", "device"} /\ session[n].token = 0
      /\ capabilities' = capabilities /\ configurations' = configurations
      /\ sessionOwners' = sessionOwners /\ ownerClosed' = ownerClosed
      /\ nextIdentity' \in {nextIdentity, nextIdentity + 1}
  BY Zenon DEF Open, GetDevice, control, ControlInv, Opened
<1>3. /\ session'[n].token = 0 /\ session'[n].registration \in Registrations
      /\ session'[n].phase \in {"device", "idle"}
      /\ session'[n].identity <= nextIdentity'
      /\ \A m \in Sessions \ {n} : session'[m] = session[m]
  <2>1. CASE Open(n)
    <3>1. /\ session[n].registration \in Registrations
          /\ session[n] \in SessionType /\ nextIdentity \in Nat
      BY <1>1, <2>1, ControlTypes DEF Open, ControlInv, Opened
    <3> QED
      BY <1>1, <1>2, <2>1, <3>1 DEF Open, TypeOK, SessionType
  <2>2. ASSUME NEW s \in Slots, GetDevice(n, s)
        PROVE  /\ session'[n].token = 0 /\ session'[n].registration \in Registrations
               /\ session'[n].phase \in {"device", "idle"}
               /\ session'[n].identity <= nextIdentity'
               /\ \A m \in Sessions \ {n} : session'[m] = session[m]
    <3>1. /\ session[n].identity <= nextIdentity /\ session[n] \in SessionType
          /\ capabilities[s] \in Registrations
      BY <1>1, <2>2, ControlTypes, Zenon DEF GetDevice, ControlInv, Issued, TypeOK
    <3> QED
      BY <1>1, <1>2, <2>2, <3>1, Zenon DEF GetDevice, TypeOK, SessionType, control
  <2> QED
    BY <2>1, <2>2
<1>4. nextIdentity \in Nat /\ nextIdentity' \in Nat /\ MaxIdentity \in Nat
  BY <1>1, <1>2, ControlTypes
<1>5. Issued'
  <2>1. ASSUME NEW u \in Slots
        PROVE  configurations[u] <= nextIdentity' /\ sessionOwners[u] <= nextIdentity'
    BY <1>1, <1>2, <1>4, ControlTypes DEF ControlInv, Issued
  <2>2. ASSUME NEW m \in Sessions
        PROVE  session'[m].identity <= nextIdentity' /\ session'[m].token <= nextIdentity'
    BY <1>1, <1>2, <1>3, <1>4, ControlTypes DEF ControlInv, Issued
  <2> QED
    BY <1>2, <2>1, <2>2 DEF Issued
<1>6. Opened'
  BY <1>3 DEF ControlInv, Opened
<1>7. CheckHolds'
  <2> SUFFICES ASSUME NEW m \in Sessions,
                      session'[m].phase \in {"configuring", "requesting"}, MayConfigure(m)'
               PROVE  RegistrationCurrent(m)'
    BY DEF CheckHolds
  <2>1. session'[m] = session[m]
    BY <1>3
  <2>2. MayConfigure(m)
    BY <1>2, <1>4, <2>1 DEF MayConfigure
  <2> QED
    BY <1>2, <2>1, <2>2 DEF ControlInv, CheckHolds, RegistrationCurrent
<1>8. ConfigurationHasProducer'
  BY <1>2 DEF ControlInv, ConfigurationHasProducer
<1>9. ConfiguredByCurrentRegistration'
  BY <1>2, <1>3 DEF ControlInv, ConfiguredByCurrentRegistration
<1>10. ConfigurationHasOwner'
  <2> SUFFICES ASSUME NEW u \in Slots, configurations[u] # 0, nextIdentity' < MaxIdentity
               PROVE  \E m \in Sessions : /\ session'[m].slot = u
                                          /\ session'[m].token = configurations[u]
                                          /\ session'[m].phase \notin Ended
    BY <1>2 DEF ConfigurationHasOwner, Ended
  <2>1. PICK m \in Sessions : /\ session[m].slot = u
                              /\ session[m].token = configurations[u]
                              /\ session[m].phase \notin Ended
    BY <1>2, <1>4 DEF ControlInv, ConfigurationHasOwner, Ended
  <2> QED
    BY <1>2, <1>3, <2>1
<1> QED
  BY <1>5, <1>6, <1>7, <1>8, <1>9, <1>10 DEF ControlInv

\* Begin: the registration is checked, which is what CheckHolds remembers.
LEMMA BegunControl ==
    ASSUME ControlInv, TypeOK', NEW n \in Sessions,
           NEW phase \in {"configuring", "requesting"}, Begin(n, phase)
    PROVE  ControlInv'
<1>1. TypeOK
  BY DEF ControlInv
<1>2. /\ RegistrationCurrent(n) /\ session[n].phase \in {"idle", "batch"}
      /\ UNCHANGED control
  BY DEF Begin
<1>3. /\ capabilities' = capabilities /\ configurations' = configurations
      /\ sessionOwners' = sessionOwners /\ ownerClosed' = ownerClosed
      /\ nextIdentity' = nextIdentity
  BY <1>2 DEF control
<1>4. /\ session'[n].phase = phase /\ session'[n].token = session[n].token
      /\ session'[n].slot = session[n].slot
      /\ session'[n].registration = session[n].registration
      /\ session'[n].identity = session[n].identity
      /\ \A m \in Sessions \ {n} : session'[m] = session[m]
  BY <1>1, ControlTypes DEF Begin, TypeOK, SessionType
<1>5. Issued'
  BY <1>3, <1>4 DEF ControlInv, Issued
<1>6. Opened'
  BY <1>2, <1>4 DEF ControlInv, Opened
<1>7. CheckHolds'
  BY <1>2, <1>3, <1>4 DEF ControlInv, CheckHolds, MayConfigure, RegistrationCurrent
<1>8. ConfigurationHasProducer' /\ ConfiguredByCurrentRegistration'
  BY <1>3, <1>4 DEF ControlInv, ConfigurationHasProducer, ConfiguredByCurrentRegistration
<1>9. ConfigurationHasOwner'
  BY <1>2, <1>3, <1>4 DEF ControlInv, ConfigurationHasOwner
<1> QED
  BY <1>5, <1>6, <1>7, <1>8, <1>9 DEF ControlInv

\* The rest of a session's life is quiet.
LEMMA QuietLifecycle ==
    ASSUME TypeOK, NEW n \in Sessions, EndBatch(n) \/ CallReturns(n) \/ BeginClose(n)
    PROVE  Quiet /\ UNCHANGED control
<1>1. session \in [Sessions -> SessionType] /\ session[n] \in SessionType
  BY DEF TypeOK
<1>2. CASE EndBatch(n)
  BY <1>1, <1>2 DEF EndBatch, Quiet, SessionType, Ended, control
<1>3. CASE CallReturns(n)
  BY <1>1, <1>3 DEF CallReturns, Quiet, SessionType, Ended, control
<1>4. CASE BeginClose(n)
  BY <1>1, <1>4 DEF BeginClose, Quiet, SessionType, Ended, control
<1> QED
  BY <1>2, <1>3, <1>4

LEMMA QuietCapture ==
    ASSUME TypeOK, NEW n \in Sessions, Capture(n)
    PROVE  Quiet /\ UNCHANGED control
<1>1. session \in [Sessions -> SessionType] /\ session[n] \in SessionType
  BY DEF TypeOK
<1>2. ASSUME NEW cancelled \in BOOLEAN, AcquireLatest(n, cancelled)
      PROVE  Quiet /\ UNCHANGED control
  <2> DEFINE newPhase == IF cancelled THEN "leaving" ELSE "holding"
             newLast == IF cancelled THEN session[n].last ELSE latest[session[n].slot].seq
             newHeld == [ahb |-> latest[session[n].slot].ahb, seq |-> latest[session[n].slot].seq,
                         acquire |-> latest[session[n].slot].acquire, fences |-> {}]
  <2>1. session' = [session EXCEPT ![n] =
                       [session[n] EXCEPT !.phase = newPhase, !.last = newLast, !.held = newHeld]]
    BY <1>1, <1>2 DEF AcquireLatest
  <2>2. newPhase \in {"leaving", "holding"}
    OBVIOUS
  <2>3. session[n].phase \in {"requesting", "capturing"} /\ UNCHANGED control
    BY <1>2 DEF AcquireLatest, Acquirable
  <2> HIDE DEF newPhase, newLast, newHeld
  <2> QED
    BY <1>1, <2>1, <2>2, <2>3 DEF Quiet, SessionType, Ended
<1>3. CASE AcquireFails(n)
  BY <1>1, <1>3 DEF AcquireFails, Quiet, Ended, control
<1>4. ASSUME NEW next \in AfterRequest, NoSource(n, next)
      PROVE  Quiet /\ UNCHANGED control
  BY <1>1, <1>4 DEF NoSource, AfterRequest, Quiet, SessionType, Ended, control
<1>5. CASE SourceReady(n)
  BY <1>1, <1>5 DEF SourceReady, Quiet, SessionType, Ended, control
<1>6. CASE BeginOutput(n)
  BY <1>1, <1>6 DEF BeginOutput, Quiet, SessionType, Ended, control
<1>7. ASSUME NEW j \in Jobs, SubmitRead(n, j)
      PROVE  Quiet /\ UNCHANGED control
  BY <1>1, <1>7 DEF SubmitRead, Quiet, SessionType, Ended, control
<1>8. CASE ReadOnCpu(n)
  BY <1>1, <1>8 DEF ReadOnCpu, Quiet, SessionType, Ended, control
<1>9. ASSUME NEW next \in AfterRequest, ReleaseFrame(n, next)
      PROVE  Quiet /\ UNCHANGED control
  BY <1>1, <1>9, Zenon DEF ReleaseFrame, AfterRequest, Quiet, SessionType, Ended, control
<1> QED
  BY <1>2, <1>3, <1>4, <1>5, <1>6, <1>7, <1>8, <1>9 DEF Capture

\* Queueing a frame and signalling a fence touch neither sessions nor slots.
LEMMA QuietRest ==
    ASSUME FrameQueue \/ (\E j \in Jobs : Signal(j)) \/ UNCHANGED vars
    PROVE  UNCHANGED <<session, callback, capabilities, configurations, sessionOwners,
                       ownerClosed, ready, nextIdentity>>
<1>1. CASE FrameQueue
  BY <1>1 DEF FrameQueue, Enqueue, EnqueueResume, EnqueueTimeout, control
<1>2. CASE \E j \in Jobs : Signal(j)
  BY <1>2 DEF Signal, control
<1>3. CASE UNCHANGED vars
  BY <1>3 DEF vars, control
<1> QED
  BY <1>1, <1>2, <1>3

LEMMA ControlNext == ControlInv /\ [Next]_vars => ControlInv'
<1> SUFFICES ASSUME ControlInv, [Next]_vars
             PROVE  ControlInv'
  OBVIOUS
<1>1. TypeOK /\ TypeOK'
  BY NextType DEF ControlInv
<1>2. CASE Platform
  BY <1>2, PlatformControl
<1>3. ASSUME NEW n \in Sessions, Lifecycle(n)
      PROVE  ControlInv'
  <2>1. CASE Open(n) \/ \E s \in Slots : GetDevice(n, s)
    BY <1>1, <2>1, OpenedControl
  <2>2. CASE \E phase \in {"configuring", "requesting"} : Begin(n, phase)
    BY <1>1, <2>2, BegunControl
  <2>3. CASE NotifyStreamsConfigured(n)
    BY <1>1, <2>3, ConfiguredControl
  <2>4. CASE ConfigureRejected(n)
    BY <1>1, <2>4, RejectedControl
  <2>5. CASE NotifyCameraClosed(n)
    BY <1>1, <2>5, ClosedControl
  <2>6. CASE EndBatch(n) \/ CallReturns(n) \/ BeginClose(n)
    BY <1>1, <2>6, QuietLifecycle, QuietControl
  <2> QED
    BY <1>3, <2>1, <2>2, <2>3, <2>4, <2>5, <2>6 DEF Lifecycle
<1>4. ASSUME NEW n \in Sessions, Capture(n)
      PROVE  ControlInv'
  BY <1>1, <1>4, QuietCapture, QuietControl
<1>5. CASE FrameQueue \/ (\E j \in Jobs : Signal(j)) \/ UNCHANGED vars
  <2>1. UNCHANGED session /\ UNCHANGED control
    BY <1>5, QuietRest DEF control
  <2>2. Quiet
    BY <2>1 DEF Quiet
  <2> QED
    BY <1>1, <2>1, <2>2, QuietControl
<1> QED
  BY <1>2, <1>3, <1>4, <1>5 DEF Next

LEMMA ControlInit == Init => ControlInv
<1> SUFFICES ASSUME Init PROVE ControlInv
  OBVIOUS
<1>1. TypeOK
  BY InitType
<1>2. \A n \in Sessions : session[n].phase = "none" /\ session[n].token = 0 /\ session[n].identity = 0
  BY DEF Init, NewSession
<1>3. Issued /\ Opened /\ CheckHolds
  BY <1>2 DEF Init, Issued, Opened, CheckHolds
<1>4. ConfigurationHasProducer /\ ConfiguredByCurrentRegistration /\ ConfigurationHasOwner
  BY <1>2 DEF Init, ConfigurationHasProducer, ConfiguredByCurrentRegistration,
              ConfigurationHasOwner
<1> QED
  BY <1>1, <1>3, <1>4 DEF ControlInv

THEOREM ControlCorrect == Spec => []ControlInv
BY ControlInit, ControlNext, PTL DEF Spec

\* A configuration was negotiated by a session of the registration published now.
THEOREM RegistrationCorrect == Spec => []ConfiguredByCurrentRegistration
<1>1. ControlInv => ConfiguredByCurrentRegistration
  BY DEF ControlInv
<1> QED
  BY <1>1, ControlCorrect, PTL

\* A configuration in force has a session whose close() will end it.
THEOREM OwnerCorrect == Spec => []ConfigurationHasOwner
<1>1. ControlInv => ConfigurationHasOwner
  BY DEF ControlInv
<1> QED
  BY <1>1, ControlCorrect, PTL

\* Late calls of old sessions do nothing: owners and tokens only advance.
THEOREM OwnersCorrect == Spec => OwnersOnlyAdvance
<1> DEFINE Advance ==
        \A s \in Slots :
          /\ sessionOwners'[s] >= sessionOwners[s]
          /\ configurations'[s] \notin {0, configurations[s]}
                 => /\ configurations'[s] > nextIdentity
                    /\ \A n \in Sessions : session[n].slot = s /\ session[n].token > 0
                           /\ session[n].phase # "none"
                           => session[n].token < configurations'[s]
<1>1. ASSUME ControlInv, [Next]_vars
      PROVE  Advance \/ UNCHANGED vars
  <2>1. TypeOK
    BY <1>1 DEF ControlInv
  <2>2. \A s \in Slots : sessionOwners[s] \in Nat /\ sessionOwners[s] <= nextIdentity
    BY <1>1, <2>1, ControlTypes DEF ControlInv, Issued
  <2>3. ASSUME UNCHANGED sessionOwners,
               \A s \in Slots : configurations'[s] \in {0, configurations[s]}
        PROVE  Advance
    BY <2>2, <2>3
  <2>4. ASSUME NEW S \in SUBSET Slots, ClearSlots(S)
        PROVE  Advance
    <3>1. RetireOwners(S) /\ \A s \in Slots : configurations'[s] \in {0, configurations[s]}
      BY <2>4 DEF ClearSlots
    <3>2. /\ \A s \in Slots \ S : sessionOwners'[s] = sessionOwners[s]
          /\ \A s \in S : sessionOwners'[s] \in Nat
          /\ \A s \in S : \/ nextIdentity < sessionOwners'[s]
                          \/ sessionOwners'[s] = sessionOwners[s]
      BY <2>1, <3>1, RetireOwnersEffect
    <3>3. \A s \in Slots : sessionOwners'[s] >= sessionOwners[s]
      BY <2>1, <2>2, <3>2, ControlTypes
    <3> QED
      BY <3>1, <3>3
  <2>5. CASE Platform
    <3>1. ASSUME NEW p \in Platforms, SetCallback(p)
          PROVE  Advance
      BY <2>3, <2>4, <3>1 DEF SetCallback
    <3>2. ASSUME NEW s \in Slots, NEW r \in Registrations, NEW p \in Platforms,
                 RegisterProducer(s, r, p)
          PROVE  Advance
      BY <2>1, <2>3, <3>2 DEF RegisterProducer, TypeOK
    <3>3. ASSUME NEW s \in Slots, NEW r \in Registrations, NEW p \in Platforms,
                 RemoveProducer(s, r, p)
          PROVE  Advance
      BY <2>4, <3>3 DEF RemoveProducer
    <3>4. ASSUME NEW s \in Slots, PublishSlot(s)
          PROVE  Advance
      BY <2>3, <3>4 DEF PublishSlot, control
    <3>5. ASSUME NEW s \in Slots, NEW t \in 1 .. nextIdentity, NEW b \in BOOLEAN,
                 SetConfigurationReady(s, t, b)
          PROVE  Advance
      BY <2>1, <2>3, <3>5 DEF SetConfigurationReady, TypeOK
    <3> HIDE DEF Advance
    <3> QED
      BY <2>5, <3>1, <3>2, <3>3, <3>4, <3>5 DEF Platform
  <2>6. ASSUME NEW n \in Sessions, NotifyStreamsConfigured(n)
        PROVE  Advance
    <3>1. /\ \A s \in Slots : /\ s # session[n].slot => /\ sessionOwners'[s] = sessionOwners[s]
                                                         /\ configurations'[s] = configurations[s]
                              /\ s = session[n].slot
                                   => /\ sessionOwners'[s] = session[n].identity
                                      /\ configurations'[s] = nextIdentity + 1
          /\ session[n].identity >= sessionOwners[session[n].slot]
      BY <2>1, <2>6 DEF NotifyStreamsConfigured, MayConfigure, TypeOK
    <3>2. /\ nextIdentity \in Nat
          /\ \A m \in Sessions : session[m].token \in Nat /\ session[m].token <= nextIdentity
      BY <1>1, <2>1, ControlTypes DEF ControlInv, Issued
    <3> QED
      BY <2>2, <3>1, <3>2
  <2>7. ASSUME NEW n \in Sessions, NotifyCameraClosed(n)
        PROVE  Advance
    BY <2>1, <2>3, <2>7 DEF NotifyCameraClosed, TypeOK
  <2>8. ASSUME NEW n \in Sessions, Lifecycle(n)
        PROVE  Advance
    <3>1. CASE Open(n) \/ \E s \in Slots : GetDevice(n, s)
      BY <2>3, <3>1, Zenon DEF Open, GetDevice, control
    <3>2. CASE (\E phase \in {"configuring", "requesting"} : Begin(n, phase)) \/ ConfigureRejected(n)
      BY <2>3, <3>2 DEF Begin, ConfigureRejected, control
    <3>3. CASE EndBatch(n) \/ CallReturns(n) \/ BeginClose(n)
      BY <2>1, <2>3, <3>3, QuietLifecycle DEF control
    <3> HIDE DEF Advance
    <3> QED
      BY <2>6, <2>7, <2>8, <3>1, <3>2, <3>3 DEF Lifecycle
  <2>9. ASSUME NEW n \in Sessions, Capture(n)
        PROVE  Advance
    BY <2>1, <2>3, <2>9, QuietCapture DEF control
  <2>10. CASE FrameQueue \/ \E j \in Jobs : Signal(j)
    BY <2>3, <2>10, QuietRest
  <2> HIDE DEF Advance
  <2> QED
    BY <1>1, <2>5, <2>8, <2>9, <2>10 DEF Next
<1>2. ControlInv /\ [Next]_vars => [Advance]_vars
  BY <1>1
<1>3. Spec => [][Advance]_vars
  BY <1>2, ControlCorrect, PTL DEF Spec
<1> QED
  BY <1>3 DEF OwnersOnlyAdvance
----------------------------------------------------------------------------
(***************************************************************************)
(* Publication of the slots.                                               *)
(***************************************************************************)

LEMMA PresenceNext == TypeOK /\ PresenceInv /\ [Next]_vars => PresenceInv'
<1> SUFFICES ASSUME TypeOK, PresenceInv, [Next]_vars
             PROVE  PresenceInv'
  OBVIOUS
<1>1. ASSUME UNCHANGED <<capabilities, publishing, publishAs, slotPresent>>
      PROVE  PresenceInv'
  BY <1>1 DEF PresenceInv, PresenceAgrees
<1>2. ASSUME NEW S \in SUBSET Slots, ClearSlots(S), PresenceFree, UNCHANGED slotPresent
      PROVE  PresenceInv'
  BY <1>2 DEF ClearSlots, PresenceFree, PresenceInv, PresenceAgrees
<1>3. CASE Platform
  <2>1. ASSUME NEW p \in Platforms, SetCallback(p)
        PROVE  PresenceInv'
    BY <1>1, <1>2, <2>1 DEF SetCallback
  <2>2. ASSUME NEW s \in Slots, NEW r \in Registrations, NEW p \in Platforms,
               RegisterProducer(s, r, p)
        PROVE  PresenceInv'
    <3>1. r # None
      BY HalAssumption
    <3> QED
      BY <2>2, <3>1 DEF RegisterProducer, PresenceFree, PresenceInv, PresenceAgrees, TypeOK
  <2>3. ASSUME NEW s \in Slots, NEW r \in Registrations, NEW p \in Platforms,
               RemoveProducer(s, r, p)
        PROVE  PresenceInv'
    BY <1>2, <2>3 DEF RemoveProducer
  <2>4. ASSUME NEW s \in Slots, PublishSlot(s)
        PROVE  PresenceInv'
    BY <2>4 DEF PublishSlot, PresenceInv, PresenceAgrees, TypeOK, control
  <2>5. ASSUME NEW s \in Slots, NEW t \in 1 .. nextIdentity, NEW b \in BOOLEAN,
               SetConfigurationReady(s, t, b)
        PROVE  PresenceInv'
    BY <1>1, <2>5 DEF SetConfigurationReady, presence
  <2> QED
    BY <1>3, <2>1, <2>2, <2>3, <2>4, <2>5 DEF Platform
<1>4. ASSUME NEW n \in Sessions, Lifecycle(n)
      PROVE  PresenceInv'
  <2>1. CASE \/ NotifyStreamsConfigured(n) \/ ConfigureRejected(n) \/ CallReturns(n)
             \/ BeginClose(n) \/ NotifyCameraClosed(n)
    BY <1>1, <2>1, Zenon DEF NotifyStreamsConfigured, ConfigureRejected, CallReturns, BeginClose,
        NotifyCameraClosed, control, presence
  <2>2. CASE \/ \E s \in Slots : GetDevice(n, s)
             \/ Open(n)
             \/ \E phase \in {"configuring", "requesting"} : Begin(n, phase)
             \/ EndBatch(n)
    BY <1>1, <2>2, Zenon DEF GetDevice, Open, Begin, EndBatch, control, presence
  <2> QED
    BY <1>4, <2>1, <2>2 DEF Lifecycle
<1>5. ASSUME NEW n \in Sessions, Capture(n)
      PROVE  PresenceInv'
  <2>1. CASE \/ \E cancelled \in BOOLEAN : AcquireLatest(n, cancelled)
             \/ AcquireFails(n)
             \/ \E next \in AfterRequest : ReleaseFrame(n, next)
    BY <1>1, <2>1, Zenon DEF AcquireLatest, AcquireFails, ReleaseFrame, control, presence
  <2>2. CASE \/ \E next \in AfterRequest : NoSource(n, next)
             \/ SourceReady(n)
             \/ BeginOutput(n)
             \/ \E j \in Jobs : SubmitRead(n, j)
             \/ ReadOnCpu(n)
    BY <1>1, <2>2, Zenon DEF NoSource, SourceReady, BeginOutput, SubmitRead, ReadOnCpu, control,
        presence
  <2> QED
    BY <1>5, <2>1, <2>2 DEF Capture
<1>6. CASE FrameQueue
  BY <1>1, <1>6 DEF FrameQueue, Enqueue, EnqueueResume, EnqueueTimeout, control, presence
<1>7. CASE (\E j \in Jobs : Signal(j)) \/ UNCHANGED vars
  BY <1>1, <1>7 DEF Signal, vars, control, presence
<1> QED
  BY <1>3, <1>4, <1>5, <1>6, <1>7 DEF Next

\* The camera framework sees a slot exactly if a producer is registered.
THEOREM PresenceCorrect == Spec => []PresenceAgrees
<1>1. Init => PresenceInv
  BY DEF Init, PresenceInv, PresenceAgrees
<1>2. TypeOK /\ PresenceInv /\ [Next]_vars => PresenceInv'
  BY PresenceNext
<1>3. PresenceInv => PresenceAgrees
  BY DEF PresenceInv
<1> QED
  BY <1>1, <1>2, <1>3, TypeCorrect, PTL DEF Spec
----------------------------------------------------------------------------
(***************************************************************************)
(* What the operations on frames keep.                                     *)
(***************************************************************************)

\* Frame g is frame f, with all dependencies of f that are still pending.
Kept(f, g) ==
    /\ g.ahb = f.ahb /\ g.seq = f.seq /\ g.token = f.token /\ g.inflight = f.inflight
    /\ f.retiring => g.retiring
    /\ pending \cap UNION f.readFences \subseteq UNION g.readFences

\* Frame f is gone, and nobody depended on it.
Vanished(f, g) ==
    g = NoFrame /\ f.inflight = 0 /\ pending \cap UNION f.readFences = {}

LEMMA PruneKeeps ==
    ASSUME NEW fences
    PROVE  pending \cap UNION fences \subseteq UNION Prune(fences)
BY PruneKeepsPending

LEMMA ReapedKept ==
    ASSUME NEW f \in Frame
    PROVE  \/ /\ Kept(f, Reaped(f))
              /\ Reaped(f).retiring => f.retiring
              /\ ~f.retiring => Reaped(f) = f
           \/ Vanished(f, Reaped(f)) /\ f.retiring
<1> DEFINE live == Prune(f.readFences)
<1>1. pending \cap UNION f.readFences \subseteq UNION live
  BY PruneKeeps
<1>2. CASE ~f.retiring
  BY <1>2 DEF Reaped, Kept
<1>3. CASE f.retiring /\ f.inflight = 0 /\ live = {}
  BY <1>1, <1>3 DEF Reaped, Vanished
<1>4. CASE f.retiring /\ ~(f.inflight = 0 /\ live = {})
  <2>1. Reaped(f) = [f EXCEPT !.readFences = live]
    BY <1>4 DEF Reaped
  <2> HIDE DEF live
  <2> QED
    BY <1>1, <1>4, <2>1 DEF Kept, Frame
<1> QED
  BY <1>2, <1>3, <1>4

LEMMA DroppedKept ==
    ASSUME NEW f \in Frame
    PROVE  \/ Kept(f, Dropped(f)) /\ Dropped(f).retiring
           \/ Vanished(f, Dropped(f))
<1> DEFINE r == [f EXCEPT !.retiring = TRUE]
<1>1. r \in Frame /\ r.retiring /\ Kept(f, r) /\ f.inflight = r.inflight
      /\ r.readFences = f.readFences
  BY Zenon DEF Frame, Kept
<1> HIDE DEF r
<1>2. Dropped(f) = Reaped(r)
  BY DEF Dropped, r
<1>3. \/ Kept(r, Reaped(r)) \/ Vanished(r, Reaped(r))
  BY <1>1, ReapedKept
<1> QED
  BY <1>1, <1>2, <1>3 DEF Kept, Vanished

\* Consolidation, with more fences and another count of readers.
LEMMA ConsolidatedKept ==
    ASSUME NEW f \in Frame, NEW more, NEW fences \in Consolidations(f.readFences \cup more),
           NEW i
    PROVE  LET g == [f EXCEPT !.readFences = fences]
               h == [f EXCEPT !.readFences = fences, !.inflight = i]
           IN /\ Kept(f, g) /\ g.retiring = f.retiring
              /\ h.ahb = f.ahb /\ h.seq = f.seq /\ h.token = f.token
              /\ h.retiring = f.retiring /\ h.inflight = i
              /\ pending \cap UNION (f.readFences \cup more) \subseteq UNION h.readFences
<1>1. UNION fences = UNION Prune(f.readFences \cup more)
  BY ConsolidationsKeepJobs
<1>2. pending \cap UNION (f.readFences \cup more) \subseteq UNION fences
  BY <1>1, PruneKeeps
<1> QED
  BY <1>2 DEF Frame, Kept

\* enqueue() after its last reap.
LEMMA ReplaceKept ==
    ASSUME TypeOK, NEW s \in Slots, NEW t, NEW ahb, NEW acquire,
           Replace(s, t, ahb, acquire, Reaped(latest[s]))
    PROVE  /\ \A u \in Slots \ {s} : latest'[u] = latest[u]
           /\ \/ /\ Kept(latest[s], latest'[s]) \/ Vanished(latest[s], latest'[s])
                 /\ returned' = returned
              \/ /\ ~Reaped(latest[s]).retiring
                 /\ latest'[s].inflight = 0 /\ ~latest'[s].retiring
                 /\ latest'[s].token = t
                 /\ pending \cap UNION latest[s].readFences \subseteq returned'
                 /\ returned \subseteq returned'
<1> DEFINE f == latest[s]
           cur == Reaped(f)
<1>1. f \in Frame /\ cur \in Frame /\ latest \in [Slots -> Frame]
  BY ReapedType DEF TypeOK
<1>2. Kept(f, cur) \/ Vanished(f, cur)
  BY <1>1, ReapedKept
<1>3. pending \cap UNION f.readFences \subseteq UNION cur.readFences
  BY <1>2 DEF Kept, Vanished
<1>4. CASE cur.retiring
  <2>1. latest' = [latest EXCEPT ![s] = cur] /\ returned' = returned
    BY <1>4 DEF Replace, Reject
  <2> HIDE DEF cur
  <2> QED
    BY <1>1, <1>2, <2>1
<1>5. ASSUME NEW fences \in Consolidations(cur.readFences), ~cur.retiring,
             Reject(s, [cur EXCEPT !.readFences = fences])
      PROVE  /\ \A u \in Slots \ {s} : latest'[u] = latest[u]
             /\ Kept(f, latest'[s]) \/ Vanished(f, latest'[s])
             /\ returned' = returned
  <2>1. latest' = [latest EXCEPT ![s] = [cur EXCEPT !.readFences = fences]]
        /\ returned' = returned
    BY <1>5 DEF Reject
  <2>2. fences \in Consolidations(cur.readFences \cup {})
    BY <1>5
  <2>3. Kept(cur, [cur EXCEPT !.readFences = fences])
    BY <1>1, <2>2, ConsolidatedKept, Zenon
  <2>4. CASE cur = f
    BY <1>1, <2>1, <2>3, <2>4
  <2>5. CASE cur # f
    <3>1. cur = NoFrame /\ Vanished(f, cur)
      BY <1>1, <1>5, <2>5, ReapedKept DEF Vanished, Kept
    <3>2. Prune(NoFrame.readFences) = {}
      BY DEF NoFrame, Prune
    <3>3. fences = {}
      BY <1>5, <3>1, <3>2 DEF Consolidations
    <3>4. [NoFrame EXCEPT !.readFences = {}] = NoFrame
      <4>1. ASSUME NEW g \in Frame, g.readFences = {}
            PROVE  [g EXCEPT !.readFences = {}] = g
        BY <4>1 DEF Frame
      <4>2. NoFrame.readFences = {}
        BY DEF NoFrame
      <4> QED
        BY <4>1, <4>2, NoFrameType
    <3> HIDE DEF cur
    <3> QED
      BY <1>1, <2>1, <3>1, <3>3, <3>4
  <2> QED
    BY <2>4, <2>5
<1>6. ASSUME NEW fences \in Consolidations(cur.readFences), ~cur.retiring,
             Swap(s, t, ahb, acquire, cur, fences)
      PROVE  /\ \A u \in Slots \ {s} : latest'[u] = latest[u]
             /\ latest'[s].inflight = 0 /\ ~latest'[s].retiring /\ latest'[s].token = t
             /\ pending \cap UNION f.readFences \subseteq returned'
             /\ returned \subseteq returned'
  <2>1. UNION fences = UNION Prune(cur.readFences)
    BY <1>6, ConsolidationsKeepJobs
  <2>2. pending \cap UNION cur.readFences \subseteq UNION fences
    BY <2>1, PruneKeeps
  <2>3. returned' = returned \cup (pending \cap UNION fences)
    BY <1>6 DEF Swap
  <2>4. /\ \A u \in Slots \ {s} : latest'[u] = latest[u]
        /\ latest'[s].inflight = 0 /\ ~latest'[s].retiring /\ latest'[s].token = t
    BY <1>1, <1>6 DEF Swap
  <2> QED
    BY <1>3, <2>2, <2>3, <2>4
<1>7. \/ cur.retiring
      \/ ~cur.retiring /\ \E fences \in Consolidations(cur.readFences) :
             \/ Swap(s, t, ahb, acquire, cur, fences)
             \/ Reject(s, [cur EXCEPT !.readFences = fences])
  BY DEF Replace
<1> HIDE DEF f, cur
<1>8. QED
  BY <1>4, <1>5, <1>6, <1>7, Zenon DEF f, cur

LEMMA SelfKept == ASSUME NEW f PROVE Kept(f, f)
BY DEF Kept

LEMMA ClearedFrames ==
    ASSUME TypeOK, NEW S \in SUBSET Slots, ClearSlots(S)
    PROVE  \A u \in Slots : \/ Kept(latest[u], latest'[u]) /\ (u \in S => latest'[u].retiring)
                            \/ Vanished(latest[u], latest'[u])
<1> SUFFICES ASSUME NEW u \in Slots
             PROVE  \/ Kept(latest[u], latest'[u]) /\ (u \in S => latest'[u].retiring)
                    \/ Vanished(latest[u], latest'[u])
  OBVIOUS
<1>1. latest[u] \in Frame
  BY DEF TypeOK
<1>2. latest'[u] = IF u \in S THEN Dropped(latest[u]) ELSE latest[u]
  BY DEF ClearSlots
<1> QED
  BY <1>1, <1>2, DroppedKept, SelfKept

\* One slot's frame is dropped.
LEMMA DroppedFrames ==
    ASSUME TypeOK, NEW s \in Slots, latest' = [latest EXCEPT ![s] = Dropped(latest[s])]
    PROVE  /\ \A u \in Slots \ {s} : latest'[u] = latest[u]
           /\ \A u \in Slots : Kept(latest[u], latest'[u]) \/ Vanished(latest[u], latest'[u])
           /\ latest'[s].retiring \/ latest'[s] = NoFrame
<1>1. latest[s] \in Frame /\ latest'[s] = Dropped(latest[s])
      /\ \A u \in Slots \ {s} : latest'[u] = latest[u]
  BY DEF TypeOK
<1>2. \/ Kept(latest[s], latest'[s]) /\ latest'[s].retiring
      \/ Vanished(latest[s], latest'[s])
  BY <1>1, DroppedKept
<1> QED
  BY <1>1, <1>2, SelfKept DEF Vanished

\* The platform's calls and a session's life cycle only ever drop frames.
LEMMA PlatformFrames ==
    ASSUME TypeOK, Platform
    PROVE  /\ \A u \in Slots : Kept(latest[u], latest'[u]) \/ Vanished(latest[u], latest'[u])
           /\ UNCHANGED <<session, caller, pending, reads, returned>>
<1>1. ASSUME UNCHANGED latest
      PROVE  \A u \in Slots : Kept(latest[u], latest'[u])
  BY <1>1, SelfKept
<1>2. ASSUME NEW p \in Platforms, SetCallback(p)
      PROVE  /\ \A u \in Slots : Kept(latest[u], latest'[u]) \/ Vanished(latest[u], latest'[u])
             /\ UNCHANGED <<session, caller, pending, reads, returned>>
  BY <1>1, <1>2, ClearedFrames DEF SetCallback, gpu
<1>3. ASSUME NEW s \in Slots, NEW r \in Registrations, NEW p \in Platforms,
             RegisterProducer(s, r, p) \/ RemoveProducer(s, r, p)
      PROVE  /\ \A u \in Slots : Kept(latest[u], latest'[u]) \/ Vanished(latest[u], latest'[u])
             /\ UNCHANGED <<session, caller, pending, reads, returned>>
  BY <1>1, <1>3, ClearedFrames DEF RegisterProducer, RemoveProducer, frames, gpu
<1>4. ASSUME NEW s \in Slots, PublishSlot(s)
      PROVE  /\ \A u \in Slots : Kept(latest[u], latest'[u]) \/ Vanished(latest[u], latest'[u])
             /\ UNCHANGED <<session, caller, pending, reads, returned>>
  BY <1>1, <1>4 DEF PublishSlot, frames, gpu
<1>5. ASSUME NEW s \in Slots, NEW t \in 1 .. nextIdentity, NEW b \in BOOLEAN,
             SetConfigurationReady(s, t, b)
      PROVE  /\ \A u \in Slots : Kept(latest[u], latest'[u]) \/ Vanished(latest[u], latest'[u])
             /\ UNCHANGED <<session, caller, pending, reads, returned>>
  BY <1>1, <1>5, DroppedFrames DEF SetConfigurationReady, gpu
<1> QED
  BY <1>2, <1>3, <1>4, <1>5 DEF Platform

LEMMA LifecycleFrames ==
    ASSUME TypeOK, NEW n \in Sessions, Lifecycle(n)
    PROVE  /\ \A u \in Slots : Kept(latest[u], latest'[u]) \/ Vanished(latest[u], latest'[u])
           /\ UNCHANGED <<caller, pending, reads, returned>>
<1>1. ASSUME UNCHANGED latest
      PROVE  \A u \in Slots : Kept(latest[u], latest'[u])
  BY <1>1, SelfKept
<1>2. session[n].slot \in Slots
  BY ControlTypes
<1>3. CASE NotifyStreamsConfigured(n) \/ NotifyCameraClosed(n)
  BY <1>1, <1>2, <1>3, DroppedFrames DEF NotifyStreamsConfigured, NotifyCameraClosed, gpu
<1>4. CASE ~(NotifyStreamsConfigured(n) \/ NotifyCameraClosed(n))
  BY <1>1, <1>4, Zenon DEF Lifecycle, GetDevice, Open, Begin, EndBatch, ConfigureRejected, CallReturns,
      BeginClose, frames, gpu
<1> QED
  BY <1>3, <1>4

\* A request's operations on the frame it reads.
LEMMA CaptureFrames ==
    ASSUME TypeOK, NEW n \in Sessions, Capture(n)
    PROVE  \A u \in Slots : \/ /\ latest'[u].ahb = latest[u].ahb
                               /\ latest'[u].token = latest[u].token
                               /\ latest[u].retiring => latest'[u].retiring
                            \/ latest'[u] = NoFrame
<1> DEFINE s == session[n].slot
           cur == latest[s]
           Fine(f, g) == \/ /\ g.ahb = f.ahb /\ g.token = f.token
                            /\ f.retiring => g.retiring
                         \/ g = NoFrame
<1>1. s \in Slots /\ cur \in Frame /\ latest \in [Slots -> Frame]
  BY ControlTypes DEF TypeOK
<1>2. ASSUME UNCHANGED latest
      PROVE  \A u \in Slots : Fine(latest[u], latest'[u])
  BY <1>2
<1>3. ASSUME NEW g, latest' = [latest EXCEPT ![s] = g], Fine(cur, g)
      PROVE  \A u \in Slots : Fine(latest[u], latest'[u])
  BY <1>1, <1>3
<1>4. ASSUME NEW cancelled \in BOOLEAN, AcquireLatest(n, cancelled)
      PROVE  \A u \in Slots : Fine(latest[u], latest'[u])
  <2>1. PICK fences \in Consolidations(cur.readFences) :
            latest' = [latest EXCEPT ![s] =
                          [cur EXCEPT !.readFences = fences, !.inflight = cur.inflight + 1]]
    BY <1>4, Zenon DEF AcquireLatest
  <2>2. Fine(cur, [cur EXCEPT !.readFences = fences, !.inflight = cur.inflight + 1])
    BY <1>1 DEF Frame
  <2> QED
    BY <1>3, <2>1, <2>2, Zenon
<1>5. ASSUME AcquireFails(n)
      PROVE  \A u \in Slots : Fine(latest[u], latest'[u])
  <2>1. PICK fences \in Consolidations(cur.readFences) :
            latest' = [latest EXCEPT ![s].readFences = fences]
    BY <1>5 DEF AcquireFails
  <2>2. Fine(cur, [cur EXCEPT !.readFences = fences])
    BY <1>1 DEF Frame
  <2> QED
    BY <1>1, <1>3, <2>1, <2>2, Zenon
<1>6. ASSUME NEW next \in AfterRequest, ReleaseFrame(n, next)
      PROVE  \A u \in Slots : Fine(latest[u], latest'[u])
  <2>1. CASE UNCHANGED latest
    BY <1>2, <2>1
  <2>2. CASE ~UNCHANGED latest
    <3> DEFINE inflight == IF cur.inflight > 0 THEN cur.inflight - 1 ELSE cur.inflight
    <3>1. PICK fences \in Consolidations(cur.readFences \cup HeldFences(n)) :
              latest' = [latest EXCEPT ![s] = Reaped(
                            [cur EXCEPT !.readFences = fences, !.inflight = inflight])]
      BY <1>6, <2>2, Zenon DEF ReleaseFrame
    <3>2. inflight \in Nat
      BY <1>1 DEF Frame
    <3> HIDE DEF inflight
    <3> DEFINE g == [cur EXCEPT !.readFences = fences, !.inflight = inflight]
    <3>3. HeldFences(n) \in SUBSET Fence
      BY ControlTypes DEF HeldFences, SessionType
    <3>4. g \in Frame
      BY <1>1, <3>1, <3>2, <3>3, ReadersFrameType, Zenon
    <3>5. g.ahb = cur.ahb /\ g.token = cur.token /\ g.retiring = cur.retiring
      BY <1>1 DEF Frame
    <3> HIDE DEF g
    <3>6. Kept(g, Reaped(g)) \/ Vanished(g, Reaped(g))
      BY <3>4, ReapedKept
    <3>7. Fine(cur, Reaped(g))
      BY <3>5, <3>6 DEF Kept, Vanished
    <3> QED
      BY <1>3, <3>1, <3>7 DEF g
  <2> QED
    BY <2>1, <2>2
<1>7. ASSUME \/ \E next \in AfterRequest : NoSource(n, next)
             \/ SourceReady(n)
             \/ BeginOutput(n)
             \/ \E j \in Jobs : SubmitRead(n, j)
             \/ ReadOnCpu(n)
      PROVE  \A u \in Slots : Fine(latest[u], latest'[u])
  <2>1. UNCHANGED latest
    BY <1>7, Zenon DEF NoSource, SourceReady, BeginOutput, SubmitRead, ReadOnCpu, frames
  <2> QED
    BY <1>2, <2>1
<1>8. \A u \in Slots : Fine(latest[u], latest'[u])
  <2> HIDE DEF Fine
  <2> QED
    BY <1>4, <1>5, <1>6, <1>7 DEF Capture
<1> QED
  BY <1>8
----------------------------------------------------------------------------
(***************************************************************************)
(* The frame a session could acquire belongs to the configuration.         *)
(***************************************************************************)

\* A frame that can be acquired.
Offered(f) == f.ahb # None /\ ~f.retiring

LEMMA KeptOffered ==
    ASSUME NEW f, NEW g, Kept(f, g) \/ Vanished(f, g), Offered(g)
    PROVE  Offered(f) /\ g.token = f.token
BY DEF Kept, Vanished, Offered, NoFrame

\* What an offered frame implies about its slot.
Backed(s) ==
    /\ latest[s].token = configurations[s] /\ configurations[s] # 0
    /\ ready[s] /\ capabilities[s] # None

LEMMA FrameOfConfigurationNext ==
    ControlInv /\ FrameOfConfiguration /\ [Next]_vars => FrameOfConfiguration'
<1> SUFFICES ASSUME ControlInv, FrameOfConfiguration, [Next]_vars
             PROVE  FrameOfConfiguration'
  OBVIOUS
<1>1. TypeOK /\ latest \in [Slots -> Frame]
  BY DEF ControlInv, TypeOK
<1>2. \A u \in Slots : Offered(latest[u]) => Backed(u)
  BY DEF FrameOfConfiguration, Offered, Backed
<1>3. ASSUME \A u \in Slots : Offered(latest'[u]) => Backed(u)'
      PROVE  FrameOfConfiguration'
  BY <1>3 DEF FrameOfConfiguration, Offered, Backed
<1>4. ASSUME \A u \in Slots : Kept(latest[u], latest'[u]) \/ Vanished(latest[u], latest'[u]),
             \A u \in Slots : \/ ~Offered(latest'[u])
                              \/ /\ capabilities'[u] = capabilities[u]
                                 /\ configurations'[u] = configurations[u]
                                 /\ ready'[u] \/ ready'[u] = ready[u]
      PROVE  FrameOfConfiguration'
  <2>1. ASSUME NEW u \in Slots, Offered(latest'[u])
        PROVE  Backed(u)'
    <3>1. Offered(latest[u]) /\ latest'[u].token = latest[u].token
      BY <1>4, <2>1, KeptOffered
    <3> QED
      BY <1>2, <1>4, <2>1, <3>1 DEF Backed
  <2> QED
    BY <1>3, <2>1
<1>5. ASSUME NEW S \in SUBSET Slots, ClearSlots(S)
      PROVE  FrameOfConfiguration'
  <2>1. \A u \in Slots : \/ Kept(latest[u], latest'[u]) /\ (u \in S => latest'[u].retiring)
                         \/ Vanished(latest[u], latest'[u])
    BY <1>1, <1>5, ClearedFrames
  <2>2. \A u \in S : ~Offered(latest'[u])
    BY <2>1 DEF Offered, Vanished, NoFrame
  <2>3. \A u \in Slots \ S : /\ capabilities'[u] = capabilities[u]
                             /\ configurations'[u] = configurations[u]
                             /\ ready'[u] = ready[u]
    BY <1>1, <1>5 DEF ClearSlots, TypeOK
  <2> QED
    BY <1>4, <2>1, <2>2, <2>3
<1>6. CASE Platform
  <2>1. \A u \in Slots : Kept(latest[u], latest'[u]) \/ Vanished(latest[u], latest'[u])
    BY <1>1, <1>6, PlatformFrames
  <2>2. ASSUME NEW p \in Platforms, SetCallback(p)
        PROVE  FrameOfConfiguration'
    BY <1>4, <1>5, <2>1, <2>2 DEF SetCallback
  <2>3. ASSUME NEW s \in Slots, NEW r \in Registrations, NEW p \in Platforms,
               RegisterProducer(s, r, p)
        PROVE  FrameOfConfiguration'
    <3>1. ~Offered(latest'[s])
      BY <1>2, <2>3 DEF RegisterProducer, Backed, frames
    <3>2. \A u \in Slots \ {s} : /\ capabilities'[u] = capabilities[u]
                                 /\ configurations'[u] = configurations[u]
                                 /\ ready'[u] = ready[u]
      BY <1>1, <2>3 DEF RegisterProducer, TypeOK
    <3> QED
      BY <1>4, <2>1, <3>1, <3>2
  <2>4. ASSUME NEW s \in Slots, NEW r \in Registrations, NEW p \in Platforms,
               RemoveProducer(s, r, p)
        PROVE  FrameOfConfiguration'
    BY <1>5, <2>4 DEF RemoveProducer
  <2>5. ASSUME NEW s \in Slots, PublishSlot(s)
        PROVE  FrameOfConfiguration'
    BY <1>4, <2>1, <2>5 DEF PublishSlot, control
  <2>6. ASSUME NEW s \in Slots, NEW t \in 1 .. nextIdentity, NEW b \in BOOLEAN,
               SetConfigurationReady(s, t, b)
        PROVE  FrameOfConfiguration'
    <3>1. /\ capabilities' = capabilities
          /\ \A u \in Slots \ {s} : /\ configurations'[u] = configurations[u]
                                    /\ ready'[u] = ready[u]
          /\ ready'[s] = b /\ (b => configurations' = configurations)
      BY <1>1, <2>6 DEF SetConfigurationReady, TypeOK
    <3>2. ~b => ~Offered(latest'[s])
      BY <1>1, <2>6, DroppedFrames DEF SetConfigurationReady, Offered, NoFrame
    <3> QED
      BY <1>4, <2>1, <3>1, <3>2
  <2> QED
    BY <1>6, <2>2, <2>3, <2>4, <2>5, <2>6 DEF Platform
<1>7. ASSUME NEW n \in Sessions, Lifecycle(n)
      PROVE  FrameOfConfiguration'
  <2>1. \A u \in Slots : Kept(latest[u], latest'[u]) \/ Vanished(latest[u], latest'[u])
    BY <1>1, <1>7, LifecycleFrames
  <2>2. session[n].slot \in Slots
    BY <1>1, ControlTypes
  <2>3. CASE NotifyStreamsConfigured(n)
    <3>0. latest' = [latest EXCEPT ![session[n].slot] = Dropped(latest[session[n].slot])]
      BY <2>3 DEF NotifyStreamsConfigured
    <3> DEFINE s == session[n].slot
    <3> HIDE DEF s
    <3>a. s \in Slots /\ latest' = [latest EXCEPT ![s] = Dropped(latest[s])]
      BY <2>2, <3>0 DEF s
    <3>b. latest'[s].retiring \/ latest'[s] = NoFrame
      BY <1>1, <3>a, DroppedFrames, Zenon
    <3>1. ~Offered(latest'[session[n].slot])
      BY <3>b DEF s, Offered, NoFrame
    <3>2. \A u \in Slots \ {session[n].slot} : /\ capabilities'[u] = capabilities[u]
                                               /\ configurations'[u] = configurations[u]
                                               /\ ready'[u] = ready[u]
      BY <1>1, <2>3 DEF NotifyStreamsConfigured, TypeOK
    <3> QED
      BY <1>4, <2>1, <3>1, <3>2
  <2>4. CASE NotifyCameraClosed(n) /\ OwnsConfiguration(n)
    <3>1. ~Offered(latest'[session[n].slot])
      BY <1>1, <2>2, <2>4, DroppedFrames DEF NotifyCameraClosed, Offered, NoFrame
    <3>2. \A u \in Slots \ {session[n].slot} : /\ capabilities'[u] = capabilities[u]
                                               /\ configurations'[u] = configurations[u]
                                               /\ ready'[u] = ready[u]
      BY <1>1, <2>4 DEF NotifyCameraClosed, TypeOK
    <3> QED
      BY <1>4, <2>1, <3>1, <3>2
  <2>5. CASE ~(NotifyStreamsConfigured(n) \/ (NotifyCameraClosed(n) /\ OwnsConfiguration(n)))
    <3>1. UNCHANGED <<capabilities, configurations, ready>>
      BY <1>7, <2>5, Zenon DEF Lifecycle, GetDevice, Open, Begin, EndBatch, ConfigureRejected,
          CallReturns, BeginClose, NotifyCameraClosed, control
    <3>2. \A u \in Slots : /\ capabilities'[u] = capabilities[u]
                           /\ configurations'[u] = configurations[u]
                           /\ ready'[u] = ready[u]
      BY <3>1
    <3> QED
      BY <1>4, <2>1, <3>2
  <2> QED
    BY <2>3, <2>4, <2>5
<1>8. ASSUME NEW n \in Sessions, Capture(n)
      PROVE  FrameOfConfiguration'
  <2>1. UNCHANGED <<capabilities, configurations, ready>>
    BY <1>1, <1>8, QuietCapture DEF control
  <2>2. ASSUME NEW u \in Slots, Offered(latest'[u])
        PROVE  Offered(latest[u]) /\ latest'[u].token = latest[u].token
    BY <1>1, <1>8, <2>2, CaptureFrames DEF Offered, NoFrame
  <2> QED
    BY <1>2, <1>3, <2>1, <2>2 DEF Backed
<1>9. ASSUME NEW s \in Slots, NEW t \in Nat, NEW fits, NEW ahb, NEW acquire,
             UNCHANGED control, Admitted(s, t, fits),
             Replace(s, t, ahb, acquire, Reaped(latest[s]))
      PROVE  FrameOfConfiguration'
  <2>1. UNCHANGED <<capabilities, configurations, ready>>
    BY <1>9 DEF control
  <2>2. /\ configurations[s] = t /\ t # 0 /\ capabilities[s] # None /\ ready[s]
    BY <1>9 DEF Admitted, ControlInv, ConfigurationHasProducer
  <2>3. /\ \A u \in Slots \ {s} : latest'[u] = latest[u]
        /\ \/ Kept(latest[s], latest'[s]) \/ Vanished(latest[s], latest'[s])
           \/ latest'[s].token = t
    BY <1>1, <1>9, ReplaceKept
  <2>4. ASSUME NEW u \in Slots, Offered(latest'[u])
        PROVE  Backed(u)'
    <3>1. CASE latest'[u].token = t /\ u = s
      BY <2>1, <2>2, <3>1 DEF Backed
    <3>2. CASE ~(latest'[u].token = t /\ u = s)
      <4>1. Kept(latest[u], latest'[u]) \/ Vanished(latest[u], latest'[u])
        BY <2>3, <3>2, SelfKept
      <4>2. Offered(latest[u]) /\ latest'[u].token = latest[u].token
        BY <2>4, <4>1, KeptOffered
      <4> QED
        BY <1>2, <2>1, <4>2 DEF Backed
    <3> QED
      BY <3>1, <3>2
  <2> QED
    BY <1>3, <2>4
<1>10. CASE FrameQueue
  <2>1. UNCHANGED control
    BY <1>10, QuietRest DEF control
  <2>2. ASSUME UNCHANGED latest
        PROVE  FrameOfConfiguration'
    BY <2>1, <2>2, <1>4, SelfKept DEF control
  <2>3. ASSUME NEW c \in Callers, NEW s \in Slots, NEW t \in 1 .. nextIdentity,
               NEW fits \in BOOLEAN, NEW ahb \in Ahbs, NEW acquire,
               Enqueue(c, s, t, fits, ahb, acquire)
        PROVE  FrameOfConfiguration'
    BY <1>9, <2>1, <2>2, <2>3 DEF Enqueue
  <2>4. ASSUME NEW c \in Callers, EnqueueResume(c)
        PROVE  FrameOfConfiguration'
    <3>1. caller[c].slot \in Slots /\ caller[c].token \in Nat
      BY <1>1 DEF TypeOK, CallerType
    <3> QED
      BY <1>9, <2>1, <2>2, <2>4, <3>1 DEF EnqueueResume
  <2>5. ASSUME NEW c \in Callers, EnqueueTimeout(c)
        PROVE  FrameOfConfiguration'
    BY <2>2, <2>5 DEF EnqueueTimeout, frames
  <2> QED
    BY <1>10, <2>3, <2>4, <2>5 DEF FrameQueue
<1>11. CASE (\E j \in Jobs : Signal(j)) \/ UNCHANGED vars
  <2>1. UNCHANGED latest /\ UNCHANGED control
    BY <1>11 DEF Signal, vars, control, frames
  <2> QED
    BY <2>1, <1>4, SelfKept DEF control
<1> QED
  BY <1>6, <1>7, <1>8, <1>10, <1>11 DEF Next

\* A frame that can be acquired is of the configuration in force, of a producer
\* that is registered and ready.
THEOREM FrameOfConfigurationCorrect == Spec => []FrameOfConfiguration
<1>1. Init => FrameOfConfiguration
  BY DEF Init, FrameOfConfiguration, NoFrame
<1> QED
  BY <1>1, FrameOfConfigurationNext, ControlCorrect, PTL DEF Spec

-----------------------------------------------------------------------------
(***************************************************************************)
(* Readers.                                                                *)
(***************************************************************************)

LEMMA ReadersFinite ==
    ASSUME NEW s
    PROVE  /\ IsFiniteSet(Readers(s)) /\ Cardinality(Readers(s)) \in Nat
           /\ Cardinality(Readers(s)) = 0 <=> Readers(s) = {}
<1>1. Readers(s) \subseteq Sessions
  BY DEF Readers
<1>2. IsFiniteSet(Readers(s))
  BY <1>1, HalAssumption, FS_Subset
<1> QED
  BY <1>2, FS_CardinalityType, FS_EmptySet

\* FrameReadIsKept, as a statement about each slot.
ReadKept(s) ==
    /\ latest[s].inflight = Cardinality(Readers(s))
    /\ \A n \in Readers(s) : /\ latest[s].ahb = session[n].held.ahb
                             /\ latest[s].seq = session[n].held.seq

LEMMA ReadKeptSlots ==
    ASSUME TypeOK
    PROVE  FrameReadIsKept <=> \A s \in Slots : ReadKept(s)
BY ControlTypes, Zenon DEF FrameReadIsKept, ReadKept, Readers

LEMMA ReadKeptSlotsNext ==
    ASSUME TypeOK', \A s \in Slots : ReadKept(s)'
    PROVE  FrameReadIsKept'
<1>1. \A n \in Sessions : session'[n].slot \in Slots
  BY DEF TypeOK, SessionType
<1> QED
  BY <1>1, Zenon DEF FrameReadIsKept, ReadKept, Readers

\* A session that holds the frame it held, or none as before.
SameHold(m) ==
    IF session[m].held.ahb = None THEN session'[m].held.ahb = None
    ELSE session'[m].held = session[m].held /\ session'[m].slot = session[m].slot

\* The readers are the same, and a frame has changed only if it has none.
LEMMA HoldsKept ==
    ASSUME TypeOK, TypeOK', FrameReadIsKept,
           \A m \in Sessions : SameHold(m),
           \A u \in Slots : \/ /\ latest'[u].ahb = latest[u].ahb
                               /\ latest'[u].seq = latest[u].seq
                               /\ latest'[u].inflight = latest[u].inflight
                            \/ latest[u].inflight = 0 /\ latest'[u].inflight = 0
    PROVE  FrameReadIsKept'
<1>1. ASSUME NEW u \in Slots
      PROVE  Readers(u)' = Readers(u)
  BY DEF SameHold, Readers
<1>2. ASSUME NEW u \in Slots
      PROVE  ReadKept(u)'
  <2>1. ReadKept(u)
    BY <1>2, ReadKeptSlots
  <2>2. ASSUME NEW n \in Readers(u)
        PROVE  session'[n].held = session[n].held
    BY DEF SameHold, Readers
  <2>3. CASE latest'[u].ahb = latest[u].ahb /\ latest'[u].seq = latest[u].seq
               /\ latest'[u].inflight = latest[u].inflight
    BY <1>1, <2>1, <2>2, <2>3 DEF ReadKept
  <2>4. CASE latest[u].inflight = 0 /\ latest'[u].inflight = 0
    <3>1. Readers(u) = {}
      BY <2>1, <2>4, ReadersFinite, Zenon DEF ReadKept
    <3> QED
      BY <1>1, <2>1, <2>4, <3>1, Zenon DEF ReadKept
  <2> QED
    BY <1>2, <2>3, <2>4
<1> QED
  BY <1>2, ReadKeptSlotsNext

\* The platform's calls, and a session's life cycle.
LEMMA ReadersDropped ==
    ASSUME TypeOK, TypeOK', FrameReadIsKept,
           \A m \in Sessions : SameHold(m),
           \A u \in Slots : Kept(latest[u], latest'[u]) \/ Vanished(latest[u], latest'[u])
    PROVE  FrameReadIsKept'
<1>1. \A u \in Slots : \/ /\ latest'[u].ahb = latest[u].ahb
                          /\ latest'[u].seq = latest[u].seq
                          /\ latest'[u].inflight = latest[u].inflight
                       \/ latest[u].inflight = 0 /\ latest'[u].inflight = 0
  BY DEF Kept, Vanished, NoFrame
<1> QED
  BY <1>1, HoldsKept

\* A thread in enqueue() finds no reader when it replaces the frame.
LEMMA ReplaceUnread ==
    ASSUME TypeOK, FrameReadIsKept, NEW s \in Slots,
           LET cur == Reaped(latest[s])
           IN ~cur.retiring => ~InUse(cur)
    PROVE  Reaped(latest[s]).retiring \/ latest[s].inflight = 0
<1>1. latest[s] \in Frame /\ latest[s].inflight \in Nat
  BY DEF TypeOK, Frame
<1> DEFINE cur == Reaped(latest[s])
<1>2. Kept(latest[s], cur) \/ Vanished(latest[s], cur)
  BY <1>1, ReapedKept
<1>3. CASE Vanished(latest[s], cur)
  BY <1>3 DEF Vanished
<1>4. CASE Kept(latest[s], cur) /\ ~cur.retiring
  <2>1. cur.ahb = latest[s].ahb /\ cur.inflight = latest[s].inflight
    BY <1>4 DEF Kept
  <2>2. latest[s].ahb = None \/ ~(latest[s].inflight > 0)
    BY <1>4, <2>1 DEF InUse
  <2>3. CASE latest[s].ahb = None
    <3>1. ReadKept(s)
      BY ReadKeptSlots
    <3>2. Readers(s) = {}
      BY <2>3, <3>1 DEF ReadKept, Readers
    <3> QED
      BY <3>1, <3>2, ReadersFinite DEF ReadKept
  <2> QED
    BY <1>1, <2>2, <2>3
<1> QED
  BY <1>2, <1>3, <1>4

(***************************************************************************)
(* ReadersInv is inductive.                                                *)
(***************************************************************************)

\* The steps that leave every session's hold alone.
LEMMA PlatformHolds ==
    ASSUME ReadersInv, TypeOK', Platform
    PROVE  ReadersInv'
<1>1. TypeOK /\ Holding /\ FrameReadIsKept
  BY DEF ReadersInv
<1>2. UNCHANGED session
  BY <1>1, PlatformFrames
<1>3. \A m \in Sessions : SameHold(m)
  BY <1>2 DEF SameHold
<1>4. FrameReadIsKept'
  BY <1>1, <1>3, PlatformFrames, ReadersDropped
<1>5. Holding'
  BY <1>1, <1>2 DEF Holding
<1> QED
  BY <1>4, <1>5 DEF ReadersInv

\* A step of session n that is not about the frame it holds.
Moved(n) ==
    /\ \A m \in Sessions \ {n} : session'[m] = session[m]
    /\ session'[n].held = session[n].held
    /\ session'[n].slot = session[n].slot \/ session[n].phase = "none"
    /\ session[n].phase \notin {"holding", "leaving", "rendering"}
           => session'[n].phase \notin {"holding", "leaving", "rendering"}
    /\ session[n].phase \in {"holding", "leaving", "rendering"}
           => session'[n].phase \in {"holding", "leaving", "rendering"}

LEMMA MovedHolding ==
    ASSUME Holding, NEW n \in Sessions, Moved(n)
    PROVE  Holding' /\ \A m \in Sessions : SameHold(m)
<1>1. Holding'
  BY DEF Holding, Moved
<1>2. session[n].phase = "none" => session[n].held.ahb = None
  BY DEF Holding, NoHold
<1>3. SameHold(n)
  BY <1>2 DEF Moved, SameHold
<1>4. \A m \in Sessions \ {n} : SameHold(m)
  BY DEF Moved, SameHold
<1> QED
  BY <1>1, <1>3, <1>4

LEMMA LifecycleMoved ==
    ASSUME TypeOK, NEW n \in Sessions, Lifecycle(n)
    PROVE  Moved(n)
<1> USE DEF Moved
<1>1. session \in [Sessions -> SessionType] /\ session[n] \in SessionType
  BY DEF TypeOK
<1>2. ASSUME NEW s \in Slots, GetDevice(n, s) PROVE Moved(n)
  BY <1>1, <1>2 DEF GetDevice, SessionType
<1>3. ASSUME Open(n) PROVE Moved(n)
  BY <1>1, <1>3 DEF Open, SessionType
<1>4. ASSUME NEW phase \in {"configuring", "requesting"}, Begin(n, phase) PROVE Moved(n)
  BY <1>1, <1>4 DEF Begin, SessionType
<1>5. ASSUME EndBatch(n) PROVE Moved(n)
  BY <1>1, <1>5 DEF EndBatch, SessionType
<1>6. ASSUME BeginClose(n) PROVE Moved(n)
  BY <1>1, <1>6 DEF BeginClose, SessionType
<1>7. ASSUME NotifyStreamsConfigured(n) PROVE Moved(n)
  BY <1>1, <1>7 DEF NotifyStreamsConfigured, SessionType
<1>8. ASSUME ConfigureRejected(n) PROVE Moved(n)
  BY <1>1, <1>8 DEF ConfigureRejected, SessionType
<1>9. ASSUME CallReturns(n) PROVE Moved(n)
  BY <1>1, <1>9 DEF CallReturns, SessionType
<1>10. ASSUME NotifyCameraClosed(n) PROVE Moved(n)
  <2>1. CASE OwnsConfiguration(n)
    <3> DEFINE call == [to |-> callback, registration |-> capabilities[session[n].slot],
                        token |-> session[n].token, closed |-> TRUE]
               made == IF callback = None THEN NoCall ELSE call
               phase == IF callback = None THEN "closed" ELSE "callingClosed"
    <3>1. session[n].phase = "idle"
          /\ session' = [session EXCEPT ![n] =
                 [session[n] EXCEPT !.call = made, !.phase = phase]]
      BY <1>10, <2>1 DEF NotifyCameraClosed
    <3>2. phase \in {"closed", "callingClosed"}
      OBVIOUS
    <3> HIDE DEF made, phase
    <3> QED
      BY <1>1, <3>1, <3>2 DEF SessionType
  <2>2. CASE ~OwnsConfiguration(n)
    BY <1>1, <1>10, <2>2 DEF NotifyCameraClosed, SessionType
  <2> QED
    BY <2>1, <2>2
<1> HIDE DEF Moved
<1> QED
  BY <1>2, <1>3, <1>4, <1>5, <1>6, <1>7, <1>8, <1>9, <1>10 DEF Lifecycle

LEMMA LifecycleHolds ==
    ASSUME ReadersInv, TypeOK', NEW n \in Sessions, Lifecycle(n)
    PROVE  ReadersInv'
<1>1. TypeOK /\ Holding /\ FrameReadIsKept
  BY DEF ReadersInv
<1>2. Holding' /\ \A m \in Sessions : SameHold(m)
  BY <1>1, LifecycleMoved, MovedHolding
<1>3. FrameReadIsKept'
  BY <1>1, <1>2, LifecycleFrames, ReadersDropped
<1> QED
  BY <1>2, <1>3 DEF ReadersInv

\* enqueue(): the frame is replaced only when nobody reads it.
LEMMA ReplaceHolds ==
    ASSUME ReadersInv, TypeOK', UNCHANGED session,
           NEW s \in Slots, NEW t, NEW ahb, NEW acquire,
           Replace(s, t, ahb, acquire, Reaped(latest[s])),
           Reaped(latest[s]).retiring \/ latest[s].inflight = 0
    PROVE  ReadersInv'
<1>1. TypeOK /\ Holding /\ FrameReadIsKept
  BY DEF ReadersInv
<1>2. \A m \in Sessions : SameHold(m)
  BY DEF SameHold
<1>3. ASSUME NEW u \in Slots
      PROVE  \/ /\ latest'[u].ahb = latest[u].ahb
                /\ latest'[u].seq = latest[u].seq
                /\ latest'[u].inflight = latest[u].inflight
             \/ latest[u].inflight = 0 /\ latest'[u].inflight = 0
  <2>1. /\ \A v \in Slots \ {s} : latest'[v] = latest[v]
        /\ \/ Kept(latest[s], latest'[s]) \/ Vanished(latest[s], latest'[s])
           \/ ~Reaped(latest[s]).retiring /\ latest'[s].inflight = 0
    BY <1>1, ReplaceKept, Zenon
  <2> QED
    BY <2>1 DEF Kept, Vanished, NoFrame
<1>4. FrameReadIsKept'
  BY <1>1, <1>2, <1>3, HoldsKept
<1>5. Holding'
  BY <1>1 DEF Holding
<1> QED
  BY <1>4, <1>5 DEF ReadersInv

LEMMA FrameQueueHolds ==
    ASSUME ReadersInv, TypeOK', FrameQueue
    PROVE  ReadersInv'
<1>1. TypeOK /\ Holding /\ FrameReadIsKept
  BY DEF ReadersInv
<1>2. UNCHANGED session
  BY DEF FrameQueue, Enqueue, EnqueueResume, EnqueueTimeout
<1>3. ASSUME UNCHANGED latest
      PROVE  ReadersInv'
  BY <1>1, <1>2, <1>3 DEF ReadersInv, Holding, FrameReadIsKept, Readers
<1>4. ASSUME NEW c \in Callers, NEW s \in Slots, NEW t \in 1 .. nextIdentity,
             NEW fits \in BOOLEAN, NEW ahb \in Ahbs, NEW acquire,
             Enqueue(c, s, t, fits, ahb, acquire)
      PROVE  ReadersInv'
  <2>1. CASE ~Reaped(latest[s]).retiring /\ InUse(Reaped(latest[s]))
    BY <1>3, <1>4, <2>1 DEF Enqueue
  <2>2. CASE ~(~Reaped(latest[s]).retiring /\ InUse(Reaped(latest[s])))
    <3>1. Reaped(latest[s]).retiring \/ latest[s].inflight = 0
      BY <1>1, <2>2, ReplaceUnread
    <3>2. Replace(s, t, ahb, acquire, Reaped(latest[s]))
      BY <1>4, <2>2 DEF Enqueue
    <3> QED
      BY <1>2, <3>1, <3>2, ReplaceHolds
  <2> QED
    BY <2>1, <2>2
<1>5. ASSUME NEW c \in Callers, EnqueueResume(c)
      PROVE  ReadersInv'
  <2>1. caller[c].slot \in Slots
    BY <1>1 DEF TypeOK, CallerType
  <2> QED
    BY <1>2, <1>3, <1>5, <2>1, ReplaceHolds DEF EnqueueResume
<1>6. ASSUME NEW c \in Callers, EnqueueTimeout(c)
      PROVE  ReadersInv'
  BY <1>3, <1>6 DEF EnqueueTimeout, frames
<1> QED
  BY <1>4, <1>5, <1>6 DEF FrameQueue

\* acquireLatest: the session becomes a reader of the slot's frame.
LEMMA AcquireHolds ==
    ASSUME ReadersInv, TypeOK', NEW n \in Sessions, NEW cancelled \in BOOLEAN,
           AcquireLatest(n, cancelled)
    PROVE  ReadersInv'
<1>1. TypeOK /\ Holding /\ FrameReadIsKept
  BY DEF ReadersInv
<1> DEFINE cur == latest[session[n].slot]
<1>0. PICK s \in Slots : s = session[n].slot /\ cur = latest[s]
  BY <1>1, ControlTypes
<1>2. cur \in Frame /\ latest \in [Slots -> Frame]
      /\ session \in [Sessions -> SessionType] /\ session[n] \in SessionType
  BY <1>0, <1>1 DEF TypeOK
<1>3. /\ session[n].phase \in {"requesting", "capturing"}
      /\ cur.ahb # None
  BY DEF AcquireLatest, Acquirable
<1>4. PICK fences \in Consolidations(cur.readFences) :
          latest' = [latest EXCEPT ![s] =
                        [cur EXCEPT !.readFences = fences, !.inflight = cur.inflight + 1]]
  BY <1>0, Zenon DEF AcquireLatest
<1> DEFINE phase == IF cancelled THEN "leaving" ELSE "holding"
           last  == IF cancelled THEN session[n].last ELSE cur.seq
<1>5. /\ phase \in {"holding", "leaving"}
      /\ session' = [session EXCEPT ![n] =
             [session[n] EXCEPT !.phase = phase, !.last = last,
                 !.held = [ahb |-> cur.ahb, seq |-> cur.seq, acquire |-> cur.acquire,
                           fences |-> {}]]]
  BY DEF AcquireLatest
<1> HIDE DEF phase, last
<1>6. /\ \A u \in Slots \ {s} : latest'[u] = latest[u]
      /\ latest'[s].ahb = cur.ahb /\ latest'[s].seq = cur.seq
      /\ latest'[s].inflight = cur.inflight + 1
  BY <1>0, <1>2, <1>4 DEF Frame
<1>7. /\ \A m \in Sessions \ {n} : session'[m] = session[m]
      /\ session'[n].slot = s /\ session'[n].phase \in {"holding", "leaving"}
      /\ session'[n].held.ahb = cur.ahb /\ session'[n].held.seq = cur.seq
  BY <1>0, <1>2, <1>5 DEF SessionType
<1> HIDE DEF cur
<1>8. n \notin Readers(s) /\ Readers(s)' = Readers(s) \cup {n}
  <2>1. session[n].held = NoHold
    BY <1>1, <1>3 DEF Holding
  <2> QED
    BY <1>0, <1>3, <1>7, <2>1 DEF Readers, NoHold
<1>9. \A u \in Slots \ {s} : Readers(u)' = Readers(u)
  BY <1>0, <1>7, <1>8 DEF Readers
<1>10. ASSUME NEW u \in Slots
       PROVE  ReadKept(u)'
  <2>1. ReadKept(u)
    BY <1>1, ReadKeptSlots
  <2>2. CASE u = s
    <3>1. cur.inflight = Cardinality(Readers(s))
      BY <1>0, <2>1, <2>2 DEF ReadKept
    <3>2. Cardinality(Readers(s) \cup {n}) = Cardinality(Readers(s)) + 1
      BY <1>8, ReadersFinite, FS_AddElement, Zenon
    <3>3. latest'[s].inflight = Cardinality(Readers(s)')
      BY <1>6, <1>8, <3>1, <3>2
    <3>4. ASSUME NEW m \in Readers(s)'
          PROVE  latest'[s].ahb = session'[m].held.ahb /\ latest'[s].seq = session'[m].held.seq
      <4>1. CASE m = n
        BY <1>6, <1>7, <4>1
      <4>2. CASE m # n
        <5>1. m \in Readers(s) /\ session'[m] = session[m]
          BY <1>7, <1>8, <4>2 DEF Readers
        <5> QED
          BY <1>0, <1>6, <2>1, <2>2, <5>1 DEF ReadKept
      <4> QED
        BY <4>1, <4>2
    <3> QED
      BY <2>2, <3>3, <3>4 DEF ReadKept
  <2>3. CASE u # s
    <3>1. \A m \in Readers(u) : session'[m] = session[m]
      BY <1>0, <1>7, <1>8, <2>3 DEF Readers
    <3> QED
      BY <1>6, <1>9, <2>1, <2>3, <3>1 DEF ReadKept
  <2> QED
    BY <2>2, <2>3
<1>11. FrameReadIsKept'
  BY <1>10, ReadKeptSlotsNext
<1>12. Holding'
  BY <1>1, <1>3, <1>7 DEF Holding
<1> QED
  BY <1>11, <1>12 DEF ReadersInv

\* What releaseFrame does to the slot it was called for: the frame is there.
LEMMA ReleaseEffect ==
    ASSUME ReadersInv, NEW n \in Sessions, NEW next \in AfterRequest, ReleaseFrame(n, next)
    PROVE  \E g \in Frame :
             /\ latest' = [latest EXCEPT ![session[n].slot] = Reaped(g)]
             /\ g.ahb = latest[session[n].slot].ahb
             /\ g.seq = latest[session[n].slot].seq
             /\ g.inflight = latest[session[n].slot].inflight - 1
             /\ pending \cap UNION (latest[session[n].slot].readFences \cup HeldFences(n))
                    \subseteq UNION g.readFences
<1> DEFINE cur == latest[session[n].slot]
<1>1. TypeOK /\ Holding /\ FrameReadIsKept
  BY DEF ReadersInv
<1>0. PICK s \in Slots : s = session[n].slot /\ cur = latest[s]
  BY <1>1, ControlTypes
<1>2. cur \in Frame /\ cur.inflight \in Nat
  BY <1>0, <1>1 DEF TypeOK, Frame
<1>3. session[n].held.ahb # None
  BY <1>1, Zenon DEF ReleaseFrame, Holding
<1>4. cur.ahb = session[n].held.ahb /\ n \in Readers(s)
  BY <1>0, <1>1, <1>3 DEF FrameReadIsKept, Readers
<1>5. cur.inflight > 0
  <2>1. cur.inflight = Cardinality(Readers(s))
    BY <1>0, <1>1, <1>2 DEF FrameReadIsKept
  <2>2. cur.inflight # 0
    BY <1>4, <2>1, ReadersFinite
  <2> QED
    BY <1>2, <2>2
<1>6. PICK fences \in Consolidations(cur.readFences \cup HeldFences(n)) :
          latest' = [latest EXCEPT ![s] = Reaped(
                        [cur EXCEPT !.readFences = fences, !.inflight = cur.inflight - 1])]
  BY <1>0, <1>4, <1>5, Zenon DEF ReleaseFrame
<1> DEFINE i == cur.inflight - 1
           g == [cur EXCEPT !.readFences = fences, !.inflight = i]
<1>7. i \in Nat
  BY <1>2, <1>5
<1>8. HeldFences(n) \in SUBSET Fence
  BY <1>1, ControlTypes DEF HeldFences, SessionType
<1> HIDE DEF i
<1>9. g \in Frame
  BY <1>0, <1>1, <1>6, <1>7, <1>8, ReadersFrameType, Zenon
<1> HIDE DEF cur
<1>10. /\ g.ahb = cur.ahb /\ g.seq = cur.seq /\ g.inflight = i
       /\ pending \cap UNION (cur.readFences \cup HeldFences(n)) \subseteq UNION g.readFences
  <2>1. UNION fences = UNION Prune(cur.readFences \cup HeldFences(n))
    BY <1>6, ConsolidationsKeepJobs
  <2>2. pending \cap UNION (cur.readFences \cup HeldFences(n)) \subseteq UNION fences
    BY <2>1, PruneKeeps
  <2> QED
    BY <1>2, <2>2 DEF Frame
<1>11. latest' = [latest EXCEPT ![s] = Reaped(g)]
  BY <1>6 DEF i
<1> HIDE DEF g
<1> QED
  BY <1>0, <1>9, <1>10, <1>11, Zenon DEF i, cur

\* releaseFrame: the session is a reader no more.
LEMMA ReleaseHolds ==
    ASSUME ReadersInv, TypeOK', NEW n \in Sessions, NEW next \in AfterRequest,
           ReleaseFrame(n, next)
    PROVE  ReadersInv'
<1>1. TypeOK /\ Holding /\ FrameReadIsKept
  BY DEF ReadersInv
<1>2. PICK s \in Slots : s = session[n].slot
  BY <1>1, ControlTypes
<1>3. /\ session \in [Sessions -> SessionType] /\ session[n] \in SessionType
      /\ latest \in [Slots -> Frame] /\ latest[s].inflight \in Nat
  BY <1>1 DEF TypeOK, Frame
<1>4. PICK g \in Frame : /\ latest' = [latest EXCEPT ![s] = Reaped(g)]
                         /\ g.ahb = latest[s].ahb /\ g.seq = latest[s].seq
                         /\ g.inflight = latest[s].inflight - 1
  BY <1>2, ReleaseEffect
<1>5. Kept(g, Reaped(g)) \/ Vanished(g, Reaped(g))
  BY ReapedKept
<1>6. \A u \in Slots \ {s} : latest'[u] = latest[u]
  BY <1>3, <1>4
<1>7. \/ /\ latest'[s].ahb = latest[s].ahb /\ latest'[s].seq = latest[s].seq
         /\ latest'[s].inflight = latest[s].inflight - 1
      \/ latest'[s].inflight = 0 /\ latest[s].inflight - 1 = 0
  BY <1>3, <1>4, <1>5 DEF Kept, Vanished, NoFrame
<1>8. session[n].phase \in {"holding", "leaving"}
      /\ session' = [session EXCEPT ![n] =
             [session[n] EXCEPT !.phase = next, !.held = NoHold]]
  BY Zenon DEF ReleaseFrame
<1>9. /\ \A m \in Sessions \ {n} : session'[m] = session[m]
      /\ session'[n].slot = s /\ session'[n].phase = next
      /\ session'[n].held = NoHold
  BY <1>2, <1>3, <1>8 DEF SessionType
<1>10. n \in Readers(s) /\ Readers(s)' = Readers(s) \ {n}
  <2>1. session[n].held.ahb # None
    BY <1>1, <1>8 DEF Holding
  <2> QED
    BY <1>2, <1>9, <2>1 DEF Readers, NoHold
<1>11. \A u \in Slots \ {s} : Readers(u)' = Readers(u)
  BY <1>2, <1>9 DEF Readers, NoHold
<1>12. ASSUME NEW u \in Slots
       PROVE  ReadKept(u)'
  <2>1. ReadKept(u)
    BY <1>1, ReadKeptSlots
  <2>2. CASE u = s
    <3>1. Cardinality(Readers(s) \ {n}) = Cardinality(Readers(s)) - 1
      BY <1>10, ReadersFinite, FS_RemoveElement, Zenon
    <3>2. Cardinality(Readers(s)') = latest[s].inflight - 1
      BY <1>10, <2>1, <2>2, <3>1 DEF ReadKept
    <3>3. latest'[s].inflight = Cardinality(Readers(s)')
      BY <1>3, <1>7, <3>2
    <3>4. ASSUME NEW m \in Readers(s)'
          PROVE  latest'[s].ahb = session'[m].held.ahb /\ latest'[s].seq = session'[m].held.seq
      <4>1. m \in Readers(s) /\ session'[m] = session[m]
        BY <1>9, <1>10 DEF Readers
      <4>2. Readers(s)' # {} /\ IsFiniteSet(Readers(s)')
        BY <1>10, ReadersFinite, FS_RemoveElement
      <4>3. latest'[s].inflight # 0
        BY <3>3, <4>2, FS_EmptySet
      <4> QED
        BY <1>7, <2>1, <2>2, <4>1, <4>3 DEF ReadKept
    <3> QED
      BY <2>2, <3>3, <3>4 DEF ReadKept
  <2>3. CASE u # s
    <3>1. \A m \in Readers(u) : session'[m] = session[m]
      BY <1>2, <1>9, <2>3 DEF Readers
    <3> QED
      BY <1>6, <1>11, <2>1, <2>3, <3>1 DEF ReadKept
  <2> QED
    BY <2>2, <2>3
<1>13. FrameReadIsKept'
  BY <1>12, ReadKeptSlotsNext
<1>14. Holding'
  BY <1>1, <1>9 DEF Holding, AfterRequest
<1> QED
  BY <1>13, <1>14 DEF ReadersInv

\* What a request does between acquireLatest and releaseFrame.
LEMMA RenderHolds ==
    ASSUME ReadersInv, TypeOK', NEW n \in Sessions,
           \/ \E next \in AfterRequest : NoSource(n, next)
           \/ SourceReady(n)
           \/ BeginOutput(n)
           \/ \E j \in Jobs : SubmitRead(n, j)
           \/ ReadOnCpu(n)
    PROVE  ReadersInv'
<1>1. TypeOK /\ Holding /\ FrameReadIsKept
  BY DEF ReadersInv
<1>2. session \in [Sessions -> SessionType] /\ session[n] \in SessionType
  BY <1>1 DEF TypeOK
<1>3. UNCHANGED latest
  BY Zenon DEF NoSource, SourceReady, BeginOutput, SubmitRead, ReadOnCpu, frames
<1>4. /\ \A m \in Sessions \ {n} : session'[m] = session[m]
      /\ session'[n].slot = session[n].slot
      /\ session'[n].held.ahb = session[n].held.ahb
      /\ session'[n].held.seq = session[n].held.seq
      /\ \/ /\ session[n].phase \in {"holding", "leaving", "rendering"}
            /\ session'[n].phase \in {"holding", "leaving", "rendering"}
         \/ /\ session[n].phase \notin {"holding", "leaving", "rendering"}
            /\ session'[n].phase \notin {"holding", "leaving", "rendering"}
            /\ session'[n].held = session[n].held
  <2>1. ASSUME NEW next \in AfterRequest, NoSource(n, next)
        PROVE  <1>4!:
    BY <1>2, <2>1 DEF NoSource, SessionType, AfterRequest
  <2>2. CASE SourceReady(n)
    BY <1>2, <2>2 DEF SourceReady, SessionType
  <2>3. CASE BeginOutput(n)
    BY <1>2, <2>3 DEF BeginOutput, SessionType
  <2>4. ASSUME NEW j \in Jobs, SubmitRead(n, j)
        PROVE  <1>4!:
    BY <1>2, <2>4, Zenon DEF SubmitRead, SessionType
  <2>5. CASE ReadOnCpu(n)
    BY <1>2, <2>5 DEF ReadOnCpu, SessionType
  <2> QED
    BY <2>1, <2>2, <2>3, <2>4, <2>5
<1>5. ASSUME NEW u \in Slots
      PROVE  ReadKept(u)'
  <2>1. ReadKept(u)
    BY <1>1, ReadKeptSlots
  <2>2. Readers(u)' = Readers(u)
    BY <1>4 DEF Readers
  <2>3. \A m \in Readers(u) : /\ session'[m].held.ahb = session[m].held.ahb
                               /\ session'[m].held.seq = session[m].held.seq
    BY <1>4 DEF Readers
  <2> QED
    BY <1>3, <2>1, <2>2, <2>3 DEF ReadKept
<1>6. FrameReadIsKept'
  BY <1>5, ReadKeptSlotsNext
<1>7. Holding'
  BY <1>1, <1>4 DEF Holding
<1> QED
  BY <1>6, <1>7 DEF ReadersInv

LEMMA ReadersNext == ReadersInv /\ [Next]_vars => ReadersInv'
<1> SUFFICES ASSUME ReadersInv, [Next]_vars PROVE ReadersInv'
  OBVIOUS
<1>1. TypeOK /\ Holding /\ FrameReadIsKept /\ TypeOK'
  BY NextType DEF ReadersInv
<1>2. ASSUME UNCHANGED <<latest, session>>
      PROVE  ReadersInv'
  BY <1>1, <1>2 DEF ReadersInv, Holding, FrameReadIsKept, Readers
<1>3. CASE Platform
  BY <1>1, <1>3, PlatformHolds
<1>4. CASE FrameQueue
  BY <1>1, <1>4, FrameQueueHolds
<1>5. ASSUME NEW n \in Sessions, Lifecycle(n)
      PROVE  ReadersInv'
  BY <1>1, <1>5, LifecycleHolds
<1>6. ASSUME NEW n \in Sessions, Capture(n)
      PROVE  ReadersInv'
  <2>1. CASE AcquireFails(n)
    <3>1. PICK s \in Slots : s = session[n].slot
      BY <1>1, ControlTypes
    <3>2. PICK fences \in Consolidations(latest[s].readFences) :
              latest' = [latest EXCEPT ![s] = [latest[s] EXCEPT !.readFences = fences]]
      BY <2>1, <3>1, Zenon DEF AcquireFails
    <3>3. latest \in [Slots -> Frame] /\ latest[s] \in Frame
      BY <1>1 DEF TypeOK
    <3>4. \A u \in Slots : /\ latest'[u].ahb = latest[u].ahb
                            /\ latest'[u].seq = latest[u].seq
                            /\ latest'[u].inflight = latest[u].inflight
      BY <3>2, <3>3 DEF Frame
    <3>5. UNCHANGED session
      BY <2>1 DEF AcquireFails
    <3>6. \A m \in Sessions : SameHold(m)
      BY <3>5 DEF SameHold
    <3>7. FrameReadIsKept'
      BY <1>1, <3>4, <3>6, HoldsKept
    <3> QED
      BY <1>1, <3>5, <3>7 DEF ReadersInv, Holding
  <2> QED
    BY <1>1, <1>6, <2>1, AcquireHolds, ReleaseHolds, RenderHolds DEF Capture
<1>7. CASE \E j \in Jobs : Signal(j)
  BY <1>2, <1>7 DEF Signal, frames
<1>8. CASE UNCHANGED vars
  BY <1>2, <1>8 DEF vars, frames
<1> QED
  BY <1>3, <1>4, <1>5, <1>6, <1>7, <1>8 DEF Next

LEMMA ReadersInit == Init => ReadersInv
<1> SUFFICES ASSUME Init PROVE ReadersInv
  OBVIOUS
<1>1. TypeOK
  BY InitType
<1>2. \A s \in Slots : Readers(s) = {} /\ latest[s].inflight = 0
  BY DEF Init, Readers, NewSession, NoHold, NoFrame
<1>3. \A s \in Slots : ReadKept(s)
  BY <1>2, ReadersFinite DEF ReadKept
<1>4. Holding
  BY Zenon DEF Init, Holding, NewSession, NoHold
<1> QED
  BY <1>1, <1>3, <1>4, ReadKeptSlots DEF ReadersInv

\* The frame a session reads stays the slot's frame, and its readers are counted.
THEOREM ReadersCorrect == Spec => []FrameReadIsKept
<1>1. ReadersInv => FrameReadIsKept
  BY DEF ReadersInv
<1> QED
  BY <1>1, ReadersInit, ReadersNext, PTL DEF Spec
----------------------------------------------------------------------------
(***************************************************************************)
(* Reads that the GPU has not finished.                                    *)
(***************************************************************************)

\* Who accounts for a read: EveryReadTracked, for one job.
Tracks(s, j) ==
    \/ j \in UNION latest[s].readFences
    \/ \E n \in Readers(s) : j \in UNION session[n].held.fences

Tracked(j) ==
    \/ j \in returned
    \/ \E s \in Slots : latest[s].seq = reads[j] /\ Tracks(s, j)

LEMMA TrackedJobs ==
    TrackedInv <=> \A j \in Jobs : reads[j] # 0 => j \in pending /\ Tracked(j)
BY DEF TrackedInv, EveryReadTracked, Tracked, Tracks

\* A frame hands a pending read on: to itself, or to the producer's fence.
FrameKeeps(s, j) ==
    j \in UNION latest[s].readFences
        => \/ j \in UNION latest'[s].readFences /\ latest'[s].seq = latest[s].seq
           \/ j \in returned'

\* So does a session: to itself, or to the frame.
SessionKeeps(m, j) ==
    session[m].held.ahb # None /\ j \in UNION session[m].held.fences
        => \/ /\ session'[m].held.ahb # None
              /\ session'[m].slot = session[m].slot
              /\ session'[m].held.seq = session[m].held.seq
              /\ j \in UNION session'[m].held.fences
           \/ /\ j \in UNION latest'[session[m].slot].readFences
              /\ latest'[session[m].slot].seq = session[m].held.seq

LEMMA JobTracked ==
    ASSUME ReadersInv, ReadersInv', NEW j \in Jobs, Tracked(j), reads'[j] = reads[j],
           j \in returned => j \in returned',
           \A s \in Slots : FrameKeeps(s, j),
           \A m \in Sessions : SessionKeeps(m, j)
    PROVE  Tracked(j)'
<1>1. CASE j \in returned
  BY <1>1 DEF Tracked
<1>2. ASSUME NEW s \in Slots, latest[s].seq = reads[j], j \in UNION latest[s].readFences
      PROVE  Tracked(j)'
  BY <1>2 DEF FrameKeeps, Tracked, Tracks
<1>3. ASSUME NEW s \in Slots, latest[s].seq = reads[j], NEW m \in Readers(s),
             j \in UNION session[m].held.fences
      PROVE  Tracked(j)'
  <2>1. m \in Sessions /\ session[m].slot = s /\ session[m].held.ahb # None
    BY DEF Readers
  <2>2. session[m].held.seq = reads[j]
    BY <1>3, <2>1 DEF ReadersInv, FrameReadIsKept
  <2>3. CASE /\ session'[m].held.ahb # None
             /\ session'[m].slot = session[m].slot
             /\ session'[m].held.seq = session[m].held.seq
             /\ j \in UNION session'[m].held.fences
    <3>1. latest'[s].seq = session'[m].held.seq
      BY <2>1, <2>3 DEF ReadersInv, FrameReadIsKept
    <3>2. m \in Readers(s)'
      BY <2>1, <2>3 DEF Readers
    <3> QED
      BY <2>2, <2>3, <3>1, <3>2 DEF Tracked, Tracks
  <2>4. CASE /\ j \in UNION latest'[session[m].slot].readFences
             /\ latest'[session[m].slot].seq = session[m].held.seq
    BY <2>1, <2>2, <2>4 DEF Tracked, Tracks
  <2> QED
    BY <1>3, <2>1, <2>3, <2>4 DEF SessionKeeps
<1> QED
  BY <1>1, <1>2, <1>3 DEF Tracked, Tracks

\* A frame that is kept, or has vanished, has handed on every pending read.
LEMMA KeptKeeps ==
    ASSUME NEW j \in pending, NEW s \in Slots,
           Kept(latest[s], latest'[s]) \/ Vanished(latest[s], latest'[s])
    PROVE  FrameKeeps(s, j)
BY DEF Kept, Vanished, FrameKeeps

LEMMA HoldKeeps ==
    ASSUME NEW j, NEW m \in Sessions, SameHold(m)
    PROVE  SessionKeeps(m, j)
BY DEF SameHold, SessionKeeps

LEMMA TrackedJobsNext ==
    ASSUME \A j \in Jobs : reads'[j] # 0 => j \in pending' /\ Tracked(j)'
    PROVE  TrackedInv'
BY DEF TrackedInv, EveryReadTracked, Tracked, Tracks

\* A step that starts no read and completes no job.
LEMMA TrackedStep ==
    ASSUME ReadersInv, ReadersInv', TrackedInv, UNCHANGED reads,
           pending \subseteq pending', returned \subseteq returned',
           \A j \in pending : /\ \A s \in Slots : FrameKeeps(s, j)
                              /\ \A m \in Sessions : SessionKeeps(m, j)
    PROVE  TrackedInv'
<1>1. ASSUME NEW j \in Jobs, reads'[j] # 0
      PROVE  j \in pending' /\ Tracked(j)'
  <2>1. j \in pending /\ Tracked(j)
    BY <1>1, TrackedJobs
  <2> QED
    BY <2>1, JobTracked
<1> QED
  BY <1>1, TrackedJobsNext

LEMMA PlatformTracked ==
    ASSUME ReadersInv, ReadersInv', TrackedInv, Platform
    PROVE  TrackedInv'
<1>1. TypeOK
  BY DEF ReadersInv
<1>2. \A m \in Sessions : SameHold(m)
  BY <1>1, PlatformFrames DEF SameHold
<1> QED
  BY <1>1, <1>2, PlatformFrames, KeptKeeps, HoldKeeps, TrackedStep

LEMMA LifecycleTracked ==
    ASSUME ReadersInv, ReadersInv', TrackedInv, NEW n \in Sessions, Lifecycle(n)
    PROVE  TrackedInv'
<1>1. TypeOK /\ Holding
  BY DEF ReadersInv
<1>2. \A m \in Sessions : SameHold(m)
  BY <1>1, LifecycleMoved, MovedHolding
<1> QED
  BY <1>1, <1>2, LifecycleFrames, KeptKeeps, HoldKeeps, TrackedStep

\* A frame that is replaced hands its reads to the producer's fence.
LEMMA ReplaceTracked ==
    ASSUME ReadersInv, ReadersInv', TrackedInv, UNCHANGED <<session, reads>>,
           NEW s \in Slots, NEW t, NEW ahb, NEW acquire,
           Replace(s, t, ahb, acquire, Reaped(latest[s]))
    PROVE  TrackedInv'
<1>1. TypeOK
  BY DEF ReadersInv
<1>2. /\ \A u \in Slots \ {s} : latest'[u] = latest[u]
      /\ \/ Kept(latest[s], latest'[s]) \/ Vanished(latest[s], latest'[s])
         \/ pending \cap UNION latest[s].readFences \subseteq returned'
      /\ returned \subseteq returned'
  BY <1>1, ReplaceKept, Zenon
<1>3. pending \subseteq pending'
  BY DEF Replace, Swap, Reject
<1>4. ASSUME NEW j \in pending, NEW u \in Slots
      PROVE  FrameKeeps(u, j)
  BY <1>2, <1>4, KeptKeeps DEF FrameKeeps
<1>5. ASSUME NEW j \in pending, NEW m \in Sessions
      PROVE  SessionKeeps(m, j)
  BY DEF SessionKeeps
<1> QED
  BY <1>2, <1>3, <1>4, <1>5, TrackedStep

LEMMA FrameQueueTracked ==
    ASSUME ReadersInv, ReadersInv', TrackedInv, FrameQueue
    PROVE  TrackedInv'
<1>1. UNCHANGED <<session, reads>>
  BY DEF FrameQueue, Enqueue, EnqueueResume, EnqueueTimeout, gpu
<1>2. ASSUME UNCHANGED <<latest, returned>>, pending \subseteq pending'
      PROVE  TrackedInv'
  <2>1. \A j \in pending : /\ \A s \in Slots : FrameKeeps(s, j)
                           /\ \A m \in Sessions : SessionKeeps(m, j)
    BY <1>1, <1>2 DEF FrameKeeps, SessionKeeps
  <2> QED
    BY <1>1, <1>2, <2>1, TrackedStep
<1>3. ASSUME NEW c \in Callers, NEW s \in Slots, NEW t \in 1 .. nextIdentity,
             NEW fits \in BOOLEAN, NEW ahb \in Ahbs, NEW acquire,
             Enqueue(c, s, t, fits, ahb, acquire)
      PROVE  TrackedInv'
  <2>1. CASE ~Reaped(latest[s]).retiring /\ InUse(Reaped(latest[s]))
    BY <1>2, <1>3, <2>1 DEF Enqueue
  <2>2. CASE ~(~Reaped(latest[s]).retiring /\ InUse(Reaped(latest[s])))
    <3>1. Replace(s, t, ahb, acquire, Reaped(latest[s]))
      BY <1>3, <2>2 DEF Enqueue
    <3> QED
      BY <1>1, <3>1, ReplaceTracked
  <2> QED
    BY <2>1, <2>2
<1>4. ASSUME NEW c \in Callers, EnqueueResume(c)
      PROVE  TrackedInv'
  <2>1. caller[c].slot \in Slots
    BY DEF ReadersInv, TypeOK, CallerType
  <2>2. CASE UNCHANGED <<latest, framesReceived, pending, returned>>
    BY <1>2, <2>2
  <2>3. CASE Replace(caller[c].slot, caller[c].token, caller[c].ahb, caller[c].acquire,
                     Reaped(latest[caller[c].slot]))
    BY <1>1, <2>1, <2>3, ReplaceTracked
  <2> QED
    BY <1>4, <2>2, <2>3 DEF EnqueueResume
<1>5. ASSUME NEW c \in Callers, EnqueueTimeout(c)
      PROVE  TrackedInv'
  BY <1>2, <1>5 DEF EnqueueTimeout, frames, gpu
<1> QED
  BY <1>3, <1>4, <1>5 DEF FrameQueue

\* acquireLatest consolidates the fences of the frame, and loses none.
LEMMA AcquireTracked ==
    ASSUME ReadersInv, ReadersInv', TrackedInv, NEW n \in Sessions,
           \/ \E cancelled \in BOOLEAN : AcquireLatest(n, cancelled)
           \/ AcquireFails(n)
    PROVE  TrackedInv'
<1>1. TypeOK /\ Holding
  BY DEF ReadersInv
<1>2. PICK s \in Slots : s = session[n].slot
  BY <1>1, ControlTypes
<1>3. latest \in [Slots -> Frame] /\ latest[s] \in Frame
      /\ session \in [Sessions -> SessionType]
  BY <1>1 DEF TypeOK
<1>4. UNCHANGED <<pending, reads, returned>>
  BY Zenon DEF AcquireLatest, AcquireFails, gpu
<1> DEFINE Acquired ==
               \E fences \in Consolidations(latest[s].readFences), i \in Nat :
                   latest' = [latest EXCEPT ![s] =
                                 [latest[s] EXCEPT !.readFences = fences, !.inflight = i]]
<1>5. Acquired
  <2>1. ASSUME NEW cancelled \in BOOLEAN, AcquireLatest(n, cancelled)
        PROVE  Acquired
    <3>1. latest[s].inflight + 1 \in Nat
      BY <1>3 DEF Frame
    <3> QED
      BY <1>2, <2>1, <3>1, Zenon DEF AcquireLatest
  <2>2. ASSUME AcquireFails(n)
        PROVE  Acquired
    <3>1. PICK fences \in Consolidations(latest[s].readFences) :
              latest' = [latest EXCEPT ![s] = [latest[s] EXCEPT !.readFences = fences]]
      BY <1>2, <2>2, Zenon DEF AcquireFails
    <3>2. [latest[s] EXCEPT !.readFences = fences]
             = [latest[s] EXCEPT !.readFences = fences, !.inflight = latest[s].inflight]
      BY <1>3, Zenon DEF Frame
    <3>3. latest[s].inflight \in Nat
      BY <1>3 DEF Frame
    <3> QED
      BY <3>1, <3>2, <3>3, Zenon
  <2> HIDE DEF Acquired
  <2> QED
    BY <2>1, <2>2, Zenon
<1>6. PICK fences \in Consolidations(latest[s].readFences), i \in Nat :
          latest' = [latest EXCEPT ![s] =
                        [latest[s] EXCEPT !.readFences = fences, !.inflight = i]]
  BY <1>5, Zenon
<1>7. pending \cap UNION latest[s].readFences \subseteq UNION fences
  <2>1. UNION fences = UNION Prune(latest[s].readFences)
    BY <1>6, ConsolidationsKeepJobs
  <2> QED
    BY <2>1, PruneKeeps
<1>8. /\ \A u \in Slots \ {s} : latest'[u] = latest[u]
      /\ latest'[s].seq = latest[s].seq /\ latest'[s].readFences = fences
  BY <1>3, <1>6 DEF Frame
<1>9. ASSUME NEW j \in pending, NEW u \in Slots
      PROVE  FrameKeeps(u, j)
  <2>1. CASE u = s
    <3>1. j \in UNION latest[s].readFences => j \in UNION latest'[s].readFences
      BY <1>7, <1>8, <1>9
    <3> QED
      BY <1>8, <2>1, <3>1 DEF FrameKeeps
  <2>2. CASE u # s
    BY <1>8, <2>2 DEF FrameKeeps
  <2> QED
    BY <2>1, <2>2
<1>10. session[n].held = NoHold
  <2>1. session[n].phase \in {"requesting", "capturing"}
    BY Zenon DEF AcquireLatest, AcquireFails, Acquirable
  <2>2. session[n].phase \notin {"holding", "leaving", "rendering"}
    BY <2>1
  <2> QED
    BY <1>1, <2>2, Zenon DEF Holding
<1>11. \A m \in Sessions \ {n} : session'[m] = session[m]
  BY <1>3, Zenon DEF AcquireLatest, AcquireFails
<1>12. ASSUME NEW j \in pending, NEW m \in Sessions
       PROVE  SessionKeeps(m, j)
  BY <1>10, <1>11 DEF SessionKeeps, NoHold
<1> QED
  BY <1>4, <1>9, <1>12, TrackedStep

\* releaseFrame hands the session's reads to the frame.
LEMMA ReleaseTracked ==
    ASSUME ReadersInv, ReadersInv', TrackedInv, NEW n \in Sessions, NEW next \in AfterRequest,
           ReleaseFrame(n, next)
    PROVE  TrackedInv'
<1>1. TypeOK /\ FrameReadIsKept
  BY DEF ReadersInv
<1>2. PICK s \in Slots : s = session[n].slot
  BY <1>1, ControlTypes
<1>3. latest \in [Slots -> Frame] /\ session \in [Sessions -> SessionType]
  BY <1>1 DEF TypeOK
<1>4. PICK g \in Frame : /\ latest' = [latest EXCEPT ![s] = Reaped(g)]
                         /\ g.seq = latest[s].seq
                         /\ pending \cap UNION (latest[s].readFences \cup HeldFences(n))
                                \subseteq UNION g.readFences
  BY <1>2, ReleaseEffect
<1>5. UNCHANGED <<pending, reads, returned>>
  BY Zenon DEF ReleaseFrame, gpu
<1>6. Kept(g, Reaped(g)) \/ Vanished(g, Reaped(g))
  BY ReapedKept
<1>7. /\ \A u \in Slots \ {s} : latest'[u] = latest[u]
      /\ latest'[s] = Reaped(g)
  BY <1>3, <1>4
<1>8. ASSUME NEW j \in pending, j \in UNION (latest[s].readFences \cup HeldFences(n))
      PROVE  j \in UNION latest'[s].readFences /\ latest'[s].seq = latest[s].seq
  BY <1>4, <1>6, <1>7, <1>8 DEF Kept, Vanished
<1>9. ASSUME NEW j \in pending, NEW u \in Slots
      PROVE  FrameKeeps(u, j)
  BY <1>7, <1>8 DEF FrameKeeps
<1>10. \A m \in Sessions \ {n} : session'[m] = session[m]
  BY <1>3, Zenon DEF ReleaseFrame
<1>11. ASSUME NEW j \in pending
       PROVE  SessionKeeps(n, j)
  <2>1. ASSUME session[n].held.ahb # None, j \in UNION session[n].held.fences
        PROVE  /\ j \in UNION latest'[s].readFences
               /\ latest'[s].seq = session[n].held.seq
    <3>1. j \in UNION HeldFences(n)
      BY <2>1 DEF HeldFences
    <3>2. latest[s].seq = session[n].held.seq
      BY <1>1, <1>2, <2>1 DEF FrameReadIsKept
    <3> QED
      BY <1>8, <3>1, <3>2
  <2> QED
    BY <1>2, <2>1 DEF SessionKeeps
<1>12. ASSUME NEW j \in pending, NEW m \in Sessions
       PROVE  SessionKeeps(m, j)
  BY <1>10, <1>11 DEF SessionKeeps
<1> QED
  BY <1>5, <1>9, <1>12, TrackedStep

\* The other steps of a request that start no read.
LEMMA RenderTracked ==
    ASSUME ReadersInv, ReadersInv', TrackedInv, NEW n \in Sessions,
           \/ \E next \in AfterRequest : NoSource(n, next)
           \/ SourceReady(n)
           \/ BeginOutput(n)
           \/ ReadOnCpu(n)
    PROVE  TrackedInv'
<1>1. session \in [Sessions -> SessionType] /\ session[n] \in SessionType
  BY DEF ReadersInv, TypeOK
<1>2. UNCHANGED <<latest, pending, reads, returned>>
  BY DEF NoSource, SourceReady, BeginOutput, ReadOnCpu, frames, gpu
<1>3. /\ \A m \in Sessions \ {n} : session'[m] = session[m]
      /\ session'[n].slot = session[n].slot
      /\ session'[n].held.ahb = session[n].held.ahb
      /\ session'[n].held.seq = session[n].held.seq
      /\ session'[n].held.fences = session[n].held.fences
  <2>1. CASE SourceReady(n)
    BY <1>1, <2>1 DEF SourceReady, SessionType
  <2>2. CASE ~SourceReady(n)
    BY <1>1, <2>2 DEF NoSource, BeginOutput, ReadOnCpu, SessionType
  <2> QED
    BY <2>1, <2>2
<1>4. \A j \in pending : /\ \A s \in Slots : FrameKeeps(s, j)
                         /\ \A m \in Sessions : SessionKeeps(m, j)
  BY <1>2, <1>3 DEF FrameKeeps, SessionKeeps
<1> QED
  BY <1>2, <1>4, TrackedStep

\* A read begins: the session accounts for it, and holds the frame it reads.
LEMMA SubmitTracked ==
    ASSUME ReadersInv, ReadersInv', TrackedInv, NEW n \in Sessions, NEW job \in Jobs,
           SubmitRead(n, job)
    PROVE  TrackedInv'
<1>1. TypeOK /\ Holding /\ FrameReadIsKept
  BY DEF ReadersInv
<1>2. /\ session \in [Sessions -> SessionType] /\ session[n] \in SessionType
      /\ session[n].slot \in Slots /\ reads \in [Jobs -> Nat]
  BY <1>1 DEF TypeOK, SessionType
<1>3. /\ pending' = pending \cup {job} /\ reads'[job] = session[n].held.seq
      /\ \A j \in Jobs \ {job} : reads'[j] = reads[j]
      /\ UNCHANGED <<latest, returned>>
  BY <1>2 DEF SubmitRead, frames
<1>4. /\ \A m \in Sessions \ {n} : session'[m] = session[m]
      /\ session'[n].slot = session[n].slot
      /\ session'[n].held.ahb = session[n].held.ahb
      /\ session'[n].held.seq = session[n].held.seq
      /\ session'[n].held.fences = session[n].held.fences \cup {{job}}
  BY <1>2 DEF SubmitRead, SessionType
<1>5. ASSUME NEW j \in Jobs \ {job}, reads'[j] # 0
      PROVE  j \in pending' /\ Tracked(j)'
  <2>1. j \in pending /\ Tracked(j)
    BY <1>3, <1>5, TrackedJobs
  <2>2. \A s \in Slots : FrameKeeps(s, j)
    BY <1>3 DEF FrameKeeps
  <2>3. \A m \in Sessions : SessionKeeps(m, j)
    BY <1>4 DEF SessionKeeps
  <2> QED
    BY <1>3, <2>1, <2>2, <2>3, JobTracked
<1>6. job \in pending' /\ Tracked(job)'
  <2>1. session[n].held.ahb # None
    BY <1>1 DEF Holding, SubmitRead
  <2>2. latest'[session[n].slot].seq = reads'[job]
    BY <1>1, <1>3, <2>1 DEF FrameReadIsKept
  <2>3. PICK s \in Slots : s = session[n].slot
    BY <1>2
  <2>4. n \in Readers(s)' /\ job \in UNION session'[n].held.fences
    BY <1>4, <2>1, <2>3, Zenon DEF Readers
  <2> QED
    BY <1>3, <2>2, <2>3, <2>4 DEF Tracked, Tracks
<1>7. \A j \in Jobs : reads'[j] # 0 => j \in pending' /\ Tracked(j)'
  BY <1>5, <1>6
<1> QED
  BY <1>7, TrackedJobsNext

LEMMA SignalTracked ==
    ASSUME ReadersInv, ReadersInv', TrackedInv, NEW job \in Jobs, Signal(job)
    PROVE  TrackedInv'
<1>1. reads \in [Jobs -> Nat]
  BY DEF ReadersInv, TypeOK
<1>2. /\ pending' = pending \ {job} /\ reads'[job] = 0 /\ returned' = returned \ {job}
      /\ \A j \in Jobs \ {job} : reads'[j] = reads[j]
      /\ UNCHANGED <<latest, session>>
  BY <1>1 DEF Signal, frames
<1>3. ASSUME NEW j \in Jobs, reads'[j] # 0
      PROVE  j \in pending' /\ Tracked(j)'
  <2>1. j # job /\ reads'[j] = reads[j]
    BY <1>2, <1>3
  <2>2. j \in pending /\ Tracked(j)
    BY <1>3, <2>1, TrackedJobs
  <2>3. /\ \A s \in Slots : FrameKeeps(s, j)
        /\ \A m \in Sessions : SessionKeeps(m, j)
    BY <1>2 DEF FrameKeeps, SessionKeeps
  <2> QED
    BY <1>2, <2>1, <2>2, <2>3, JobTracked
<1> QED
  BY <1>3, TrackedJobsNext

LEMMA TrackedNext == ReadersInv /\ ReadersInv' /\ TrackedInv /\ [Next]_vars => TrackedInv'
<1> SUFFICES ASSUME ReadersInv, ReadersInv', TrackedInv, [Next]_vars
             PROVE  TrackedInv'
  OBVIOUS
<1>1. ASSUME NEW n \in Sessions, Capture(n)
      PROVE  TrackedInv'
  BY <1>1, AcquireTracked, ReleaseTracked, RenderTracked, SubmitTracked DEF Capture
<1>2. CASE UNCHANGED vars
  <2>1. UNCHANGED <<latest, session, pending, reads, returned>>
    BY <1>2 DEF vars, frames, gpu
  <2>2. \A j \in pending : /\ \A s \in Slots : FrameKeeps(s, j)
                           /\ \A m \in Sessions : SessionKeeps(m, j)
    BY <2>1 DEF FrameKeeps, SessionKeeps
  <2> QED
    BY <2>1, <2>2, TrackedStep
<1> QED
  BY <1>1, <1>2, PlatformTracked, FrameQueueTracked, LifecycleTracked, SignalTracked DEF Next

\* No read of a producer's buffer is forgotten while the GPU may still be at it.
THEOREM ReadsCorrect == Spec => []EveryReadTracked
<1>1. Init => TrackedInv
  BY DEF Init, TrackedInv, EveryReadTracked
<1>2. Spec => []ReadersInv
  BY ReadersInit, ReadersNext, PTL DEF Spec
<1>3. TrackedInv => EveryReadTracked
  BY DEF TrackedInv
<1> QED
  BY <1>1, <1>2, <1>3, TrackedNext, PTL DEF Spec
=============================================================================
