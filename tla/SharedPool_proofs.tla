--------------------------- MODULE SharedPool_proofs ---------------------------
(***************************************************************************)
(* Proofs about the zero-copy path, for any number of buffers, of pools    *)
(* and of frames, as long as the ring's uint32 indices do not wrap: the    *)
(* hypothesis MaxFrames < IndexSpan.  Only the handshake needs no bound.   *)
(***************************************************************************)
EXTENDS SharedPool, TLAPS, FiniteSetTheorems, SequenceTheorems

RingType == [write: Nat, read: Nat, slots: [0 .. RingSize - 1 -> Buffers \cup {NoBuffer}],
             relWrite: Nat, relRead: Nat, state: [Buffers -> {0, 1}]]

RendererType == [pc: {"new", "sending", "waiting", "ready", "drained", "filled", "off"},
                 next: Buffers]

ConnType == [sent: {"nothing", "ring", "all"},
             state: {"none", "backlog", "setup", "acked", "refused", "dropped"}]

CaptureType == [pc: {"idle", "drain", "wait", "copied", "copiedLast", "skip", "skipped",
                     "taken", "reading", "release", "released", "faulted"},
                pool: Pools \cup {NoPool}, index: Nat, copied: Buffers \cup {NoBuffer},
                held: Buffers \cup {NoBuffer}, from: Pools \cup {NoPool}]

TypeOK ==
    /\ ring \in [Pools -> RingType] /\ frames \in Nat
    /\ drawing \in [Pools -> Buffers \cup {NoBuffer}]
    /\ renderer \in [Pools -> RendererType] /\ conn \in [Pools -> ConnType]
    /\ attached \in Pools \cup {NoPool} /\ received \in Pools \cup {NoPool}
    /\ iface \in Pools \cup {NoPool} /\ active \in BOOLEAN
    /\ capture \in CaptureType /\ foreign \subseteq Pools

-----------------------------------------------------------------------------
\* The pools connect and are set up in order, one at a time; the one acknowledged
\* last is the one used.
InTurn ==
    /\ \A p \in Pools: renderer[p].pc = "new" <=> conn[p].state = "none"
    /\ \A p, q \in Pools: p < q /\ conn[q].state # "none" => conn[p].state # "none"
    /\ \A p, q \in Pools: p < q /\ conn[p].state \in {"backlog", "setup"}
                             => conn[q].state \in {"none", "backlog"}

Used(p) == active /\ attached = p /\ received = p /\ iface = p

Acknowledged ==
    /\ \A p \in Pools: conn[p].state = "setup" => attached = p /\ received = NoPool
    /\ \A p \in Pools: renderer[p].pc \in {"ready", "drained", "filled"} => conn[p].state = "acked"
    /\ \A p \in Pools: conn[p].state = "acked" => Displaced(p) \/ Used(p)

Handshake == InTurn /\ Acknowledged

\* Pools that the HAL has not been given yet.
New == {p \in Pools: conn[p].state \in {"none", "backlog", "refused"}}

Untouched ==
    \A p \in New: /\ ring[p] = NewRing /\ drawing[p] = NoBuffer
                  /\ p \notin {attached, received, iface, capture.pool, capture.from}

\* The capture thread's pointers are to pools it came by in the order of the pools.
Ordered ==
    /\ received \in {NoPool, attached}
    /\ attached # NoPool => capture.from <= attached /\ capture.pool <= attached
    /\ capture.pc \in {"copied", "copiedLast", "skip", "skipped"} => capture.from <= capture.pool
    /\ capture.pc \in {"copied", "copiedLast", "skip", "skipped", "reading"} => capture.pool # NoPool
    /\ capture.pc \in {"skip", "skipped", "taken", "reading", "release", "released"}
          => capture.from # NoPool
    /\ capture.pc \in {"idle", "wait", "copiedLast", "faulted"} => capture.held = NoBuffer
    /\ capture.held # NoBuffer => capture.from # NoPool
    /\ capture.pc = "reading" /\ capture.pool # capture.from => capture.pool \in foreign
    /\ \A p \in foreign: p > 1

-----------------------------------------------------------------------------
\* The ring of frames.
Slot(p, i) == ring[p].slots[i % RingSize]
Waiting(p) == ring[p].read .. ring[p].write - 1

\* The frame being drawn is counted when its buffer is taken.
Counted ==
    /\ frames <= MaxFrames
    /\ \A p \in Pools: ring[p].write + (IF drawing[p] = NoBuffer THEN 0 ELSE 1) <= frames

\* What the renderer is at.
Filling(p) ==
    /\ renderer[p].pc = "drained" => drawing[p] = NoBuffer
    /\ renderer[p].pc = "filled" =>
          /\ drawing[p] # NoBuffer
          /\ p \notin foreign => /\ ring[p].write < ring[p].read + RingSize
                                 /\ Slot(p, ring[p].write) = drawing[p]

Filled == \A p \in Pools: Filling(p)

Rings(p) ==
    /\ ring[p].read <= ring[p].write /\ ring[p].write <= ring[p].read + RingSize
    /\ ring[p].relRead <= ring[p].relWrite

\* What was copied from the ring is still its oldest frame.
Copied ==
    capture.pc \in {"copied", "copiedLast"} /\ capture.pool \notin foreign =>
        /\ capture.index = ring[capture.pool].read
        /\ capture.index < ring[capture.pool].write
        /\ capture.copied = Slot(capture.pool, capture.index)

\* The buffers drawn, queued and taken are marked, and no two of them are the same.
Drawn(p) == drawing[p] # NoBuffer => ring[p].state[drawing[p]] = 1

Queues(p) ==
    /\ \A i \in Waiting(p): /\ Slot(p, i) \in Buffers /\ ring[p].state[Slot(p, i)] = 1
                            /\ Slot(p, i) # drawing[p]
    /\ \A i, j \in Waiting(p): i # j => Slot(p, i) # Slot(p, j)

HasHeld(p) == capture.pc \in {"drain", "copied", "skip", "taken", "reading", "release"}
              /\ capture.from = p /\ capture.held # NoBuffer
HasCopied(p) == capture.pc \in {"skip", "skipped"} /\ capture.pool = p

Takes(p, b) == \/ HasHeld(p) /\ capture.held = b
               \/ HasCopied(p) /\ capture.copied = b

Taken(p) ==
    /\ HasCopied(p) => capture.copied \in Buffers
    /\ capture.pc \in {"skip", "skipped", "taken", "reading", "release", "released"}
          /\ capture.from = p => capture.held \in Buffers
    /\ \A b \in Buffers: Takes(p, b) => ring[p].state[b] = 1 /\ b # drawing[p]

PoolOK(p) == Rings(p) /\ Drawn(p) /\ Queues(p) /\ Taken(p)

-----------------------------------------------------------------------------
\* Of the pool attached, what was taken has left the queue.
Apart(p) ==
    /\ \A b \in Buffers: Takes(p, b) => \A i \in Waiting(p): Slot(p, i) # b
    /\ HasHeld(p) /\ HasCopied(p) => capture.held # capture.copied

\* The ring of releases: each release pays for a frame that was read, and what
\* the renderer has not drained fits with the buffers still marked.
Owed(p) == (IF capture.from = p /\ capture.held # NoBuffer THEN 1 ELSE 0)
           + (IF HasCopied(p) THEN 1 ELSE 0)

Paid(p) ==
    /\ ring[p].relWrite + Owed(p) <= ring[p].read
    /\ capture.from \notin {NoPool, p} => ring[p].relWrite = 0

Marked(p) == {b \in Buffers: ring[p].state[b] = 1}
Freeing(p) == IF capture.pc \in {"skipped", "released"} /\ capture.from = p THEN 1 ELSE 0

\* Two releases may come while the renderer is between the drain of the ring and
\* the next one: one after it looked last, one for the buffer it took since.
Bound(p) == NumBuffers + (IF renderer[p].pc = "drained" THEN 1 ELSE 2)

Room(p) == ring[p].relWrite - ring[p].relRead + Freeing(p) + Cardinality(Marked(p)) <= Bound(p)

UsedOK(p) == Apart(p) /\ Paid(p) /\ Room(p)

HInv == TypeOK /\ Handshake

PInv ==
    /\ Untouched /\ Ordered /\ Counted /\ Filled /\ Copied
    /\ \A p \in Pools \ foreign: PoolOK(p) /\ (p = attached => UsedOK(p))

IInv == HInv /\ PInv

-----------------------------------------------------------------------------
\* Arithmetic of the indices.
LEMMA ModRange ==
    ASSUME NEW i \in Int, NEW d \in Nat \ {0}
    PROVE  i % d \in 0 .. d - 1
  OBVIOUS

LEMMA ModSmall ==
    ASSUME NEW n \in Nat, NEW d \in Nat, n < d
    PROVE  n % d = n
  OBVIOUS

\* Indices less than a ring apart have slots of their own.
LEMMA ModApart ==
    ASSUME NEW i \in Nat, NEW j \in Nat, NEW d \in Nat, i < j, j - i < d
    PROVE  i % d # j % d
<1>. SUFFICES ASSUME i % d = j % d PROVE FALSE
  OBVIOUS
<1>1. d \in Nat \ {0}
  OBVIOUS
<1>2. /\ i = d * (i \div d) + (i % d) /\ i \div d \in Int
      /\ j = d * (j \div d) + (j % d) /\ j \div d \in Int
  BY <1>1
<1>. DEFINE p == i \div d
            q == j \div d
<1>3. p \in Int /\ q \in Int /\ d * p + (i % d) = i /\ d * q + (i % d) = j /\ i % d \in Int
  BY <1>1, <1>2
<1>. HIDE DEF p, q
<1>4. d * q > d * p /\ d * q - d * p < d
  BY <1>1, <1>3
<1>5. d * (q - p) = d * q - d * p
  BY <1>1, <1>3
<1>6. CASE q - p >= 1
  <2>1. d * (q - p - 1) >= 0
    BY <1>1, <1>3, <1>6
  <2>2. d * (q - p - 1) = d * (q - p) - d
    BY <1>1, <1>3
  <2>. QED  BY <1>1, <1>3, <1>4, <1>5, <2>1, <2>2
<1>7. CASE q - p <= 0
  <2>1. d * (p - q) >= 0
    BY <1>1, <1>3, <1>7
  <2>2. d * (p - q) = d * p - d * q
    BY <1>1, <1>3
  <2>. QED  BY <1>1, <1>3, <1>4, <2>1, <2>2
<1>. QED  BY <1>3, <1>6, <1>7

LEMMA Constants ==
    /\ RingSize \in Nat \ {0} /\ NumBuffers \in Nat \ {0} /\ NumBuffers + 1 < RingSize
    /\ IndexSpan \in Nat \ {0} /\ MaxFrames \in Nat /\ MaxConnections \in Nat
    /\ Pools \subseteq Nat \ {0} /\ NoPool \notin Pools
    /\ Buffers \subseteq Nat /\ NoBuffer \notin Buffers
  BY PoolAssumption DEF Pools, Buffers, NoPool, NoBuffer

LEMMA NextFrame ==
    ASSUME NEW r \in Nat, NEW n \in Nat, r < n, n <= MaxFrames
    PROVE  r + 1 \in Nat /\ r + 1 <= MaxFrames
  BY Constants

LEMMA BehindWrite ==
    ASSUME NEW r \in Nat, NEW w \in Nat, w - r < RingSize, NEW i \in r .. w - 1
    PROVE  i \in Nat /\ i < w /\ w - i < RingSize
  BY Constants

LEMMA WrapTyped ==
    ASSUME NEW n \in Int
    PROVE  Wrap(n) \in Nat
  BY ModRange, Constants DEF Wrap

LEMMA WrapSmall ==
    ASSUME NEW n \in Nat, n <= MaxFrames, MaxFrames < IndexSpan
    PROVE  Wrap(n) = n
  BY ModSmall, Constants DEF Wrap

LEMMA ReachedIsAttached ==
    ASSUME NEW p \in Reached
    PROVE  p = attached
  BY DEF Reached

LEMMA RingTyped ==
    ASSUME TypeOK, NEW p \in Pools, NEW r \in RingType, ring' = [ring EXCEPT ![p] = r]
    PROVE  /\ ring' \in [Pools -> RingType] /\ ring'[p] = r
           /\ \A q \in Pools: q # p => ring'[q] = ring[q]
  BY DEF TypeOK

-----------------------------------------------------------------------------
\* What the steps do to the rings.

\* SharedBufferPool::releaseBuffer.
LEMMA FreedEffect ==
    ASSUME TypeOK, NEW p \in Pools, NEW b \in Buffers \cup {NoBuffer}, ring' = Freed(p, b)
    PROVE  /\ ring' \in [Pools -> RingType] /\ \A q \in Pools: q # p => ring'[q] = ring[q]
           /\ ring'[p] = [ring[p] EXCEPT !.state = [ring[p].state EXCEPT ![b] = 0]]
<1>1. ring[p] \in RingType
  BY DEF TypeOK
<1>. DEFINE r == [ring[p] EXCEPT !.state = [ring[p].state EXCEPT ![b] = 0]]
<1>2. [ring[p].state EXCEPT ![b] = 0] \in [Buffers -> {0, 1}]
  BY <1>1, Zenon DEF RingType
<1>3. r \in RingType
  BY <1>1, <1>2, Zenon DEF RingType
<1>4. ring' = [ring EXCEPT ![p] = r]
  <2>1. ring \in [Pools -> RingType]
    BY DEF TypeOK
  <2>. QED  BY <2>1 DEF Freed
<1>. QED  BY <1>3, <1>4, RingTyped, Zenon

\* The renderer of pool p moves on; the connection of pool p is answered.
LEMMA RendererEffect ==
    ASSUME TypeOK, NEW p \in Pools, NEW s \in {"sending", "waiting", "ready", "drained", "filled", "off"},
           Renderer(p, s)
    PROVE  /\ renderer' \in [Pools -> RendererType]
           /\ renderer'[p].pc = s /\ \A q \in Pools: q # p => renderer'[q] = renderer[q]
<1>1. 0 \in Buffers
  BY Constants DEF Buffers
<1>2. [pc |-> s, next |-> 0] \in RendererType
  BY <1>1, Zenon DEF RendererType
<1>3. renderer \in [Pools -> RendererType] /\ renderer' = [renderer EXCEPT ![p] = [pc |-> s, next |-> 0]]
  BY DEF TypeOK, Renderer
<1>4. renderer' \in [Pools -> RendererType] /\ \A q \in Pools: q # p => renderer'[q] = renderer[q]
  BY <1>2, <1>3
<1>5. renderer'[p] = [pc |-> s, next |-> 0]
  BY <1>3
<1>. QED  BY <1>4, <1>5

LEMMA AnswerEffect ==
    ASSUME TypeOK, NEW p \in Pools, NEW s \in {"backlog", "setup", "acked", "refused", "dropped"},
           Answer(p, s)
    PROVE  /\ conn' \in [Pools -> ConnType] /\ conn'[p].state = s
           /\ \A q \in Pools: q # p => conn'[q] = conn[q]
<1>1. conn \in [Pools -> ConnType] /\ conn[p] \in ConnType
  BY DEF TypeOK
<1>. DEFINE c == [conn[p] EXCEPT !.state = s]
<1>2. c \in ConnType /\ c.state = s
  BY <1>1 DEF ConnType
<1>3. conn' = [conn EXCEPT ![p] = c]
  BY <1>1 DEF Answer
<1>. HIDE DEF c
<1>. QED  BY <1>1, <1>2, <1>3

\* What was sent changes nothing of what the server did.
LEMMA SentEffect ==
    ASSUME TypeOK, NEW p \in Pools, NEW s \in {"ring", "all"},
           conn' = [conn EXCEPT ![p].sent = s]
    PROVE  /\ conn' \in [Pools -> ConnType]
           /\ \A q \in Pools: conn'[q].state = conn[q].state
<1>1. conn \in [Pools -> ConnType] /\ conn[p] \in ConnType
  BY DEF TypeOK
<1>. DEFINE c == [conn[p] EXCEPT !.sent = s]
<1>2. c \in ConnType /\ c.state = conn[p].state
  BY <1>1 DEF ConnType
<1>3. conn' = [conn EXCEPT ![p] = c]
  BY <1>1
<1>. HIDE DEF c
<1>. QED  BY <1>1, <1>2, <1>3

LEMMA DrainEffect ==
    ASSUME TypeOK, NEW p \in Pools, DrainReleases(p)
    PROVE  /\ ring' \in [Pools -> RingType] /\ \A q \in Pools: q # p => ring'[q] = ring[q]
           /\ ring'[p] = [ring[p] EXCEPT !.relRead = ReleasesRead(p)]
<1>1. ring[p] \in RingType
  BY DEF TypeOK
<1>. DEFINE r == [ring[p] EXCEPT !.relRead = ReleasesRead(p)]
<1>2. ReleasesRead(p) \in Nat
  BY <1>1 DEF ReleasesRead, RingType
<1>3. r \in RingType
  BY <1>1, <1>2, Zenon DEF RingType
<1>4. ring' = [ring EXCEPT ![p] = r]
  BY <1>1 DEF TypeOK, DrainReleases
<1>. QED  BY <1>3, <1>4, RingTyped, Zenon

\* acquireFreeBuffer: a buffer that was free is drawn in, or nothing is.
LEMMA AcquireEffect ==
    ASSUME TypeOK, NEW p \in Pools, AcquireFreeBuffer(p)
    PROVE  /\ ring' \in [Pools -> RingType] /\ frames' \in Nat
           /\ drawing' \in [Pools -> Buffers \cup {NoBuffer}]
           /\ renderer' \in [Pools -> RendererType]
           /\ \A q \in Pools: q # p => /\ ring'[q] = ring[q] /\ drawing'[q] = drawing[q]
                                       /\ renderer'[q] = renderer[q]
           /\ renderer[p].pc = "drained" /\ renderer'[p].pc \in {"ready", "drained"}
           /\ \/ ring' = ring /\ drawing' = drawing /\ frames' = frames
              \/ \E b \in Buffers:
                    /\ ring[p].state[b] = 0 /\ drawing'[p] = b /\ renderer'[p].pc = "ready"
                    /\ ring'[p] = [ring[p] EXCEPT !.state = [ring[p].state EXCEPT ![b] = 1]]
                    /\ frames < MaxFrames /\ frames' = frames + 1
<1>1. /\ ring[p] \in RingType /\ renderer[p] \in RendererType /\ renderer[p].pc = "drained"
      /\ ring \in [Pools -> RingType] /\ frames \in Nat
      /\ drawing \in [Pools -> Buffers \cup {NoBuffer}] /\ renderer \in [Pools -> RendererType]
  BY Zenon DEF TypeOK, AcquireFreeBuffer
<1>2. PICK b \in Buffers: b = renderer[p].next
  BY <1>1 DEF RendererType
<1>3. CASE /\ ring[p].state[b] = 0 /\ frames < MaxFrames /\ frames' = frames + 1
           /\ ring' = [ring EXCEPT ![p].state[b] = 1]
           /\ drawing' = [drawing EXCEPT ![p] = b] /\ Renderer(p, "ready")
  <2>. DEFINE r == [ring[p] EXCEPT !.state = [ring[p].state EXCEPT ![b] = 1]]
  <2>1. [ring[p].state EXCEPT ![b] = 1] \in [Buffers -> {0, 1}]
    BY <1>1 DEF RingType
  <2>2. r \in RingType
    BY <1>1, <2>1, Zenon DEF RingType
  <2>3. ring' = [ring EXCEPT ![p] = r]
    BY <1>1, <1>3, Zenon DEF RingType
  <2>4. ring'[p] = r /\ ring' \in [Pools -> RingType] /\ \A q \in Pools: q # p => ring'[q] = ring[q]
    BY <2>2, <2>3, RingTyped, Zenon
  <2>5. /\ drawing' \in [Pools -> Buffers \cup {NoBuffer}] /\ drawing'[p] = b
        /\ \A q \in Pools: q # p => drawing'[q] = drawing[q]
    BY <1>1, <1>3
  <2>6. frames' \in Nat
    BY <1>1, <1>3
  <2>7. /\ renderer' \in [Pools -> RendererType] /\ renderer'[p].pc = "ready"
        /\ \A q \in Pools: q # p => renderer'[q] = renderer[q]
    BY <1>3, RendererEffect
  <2>. HIDE DEF r
  <2>. QED  BY <1>1, <1>3, <2>4, <2>5, <2>6, <2>7, Zenon DEF r
<1>4. CASE Renderer(p, "ready") /\ UNCHANGED <<ring, frames, drawing>>
  <2>1. /\ renderer' \in [Pools -> RendererType] /\ renderer'[p].pc = "ready"
        /\ \A q \in Pools: q # p => renderer'[q] = renderer[q]
    BY <1>4, RendererEffect
  <2>. QED  BY <1>1, <1>4, <2>1, Zenon
<1>5. CASE /\ b < NumBuffers - 1 /\ renderer' = [renderer EXCEPT ![p].next = b + 1]
           /\ UNCHANGED <<ring, frames, drawing>>
  <2>. DEFINE r == [renderer[p] EXCEPT !.next = b + 1]
  <2>1. b + 1 \in Buffers
    BY <1>5, Constants DEF Buffers
  <2>2. r \in RendererType /\ r.pc = "drained"
    BY <1>1, <2>1 DEF RendererType
  <2>3. renderer' = [renderer EXCEPT ![p] = r]
    BY <1>1, <1>5 DEF RendererType
  <2>. HIDE DEF r
  <2>4. /\ renderer' \in [Pools -> RendererType] /\ renderer'[p].pc = "drained"
        /\ \A q \in Pools: q # p => renderer'[q] = renderer[q]
    BY <1>1, <2>2, <2>3
  <2>. QED  BY <1>1, <1>5, <2>4, Zenon
<1>. QED  BY <1>2, <1>3, <1>4, <1>5, Zenon DEF AcquireFreeBuffer

LEMMA FillSlotEffect ==
    ASSUME TypeOK, NEW p \in Pools, FillSlot(p)
    PROVE  /\ drawing[p] \in Buffers
           /\ ring' \in [Pools -> RingType]
           /\ \A q \in Pools: q # p => ring'[q] = ring[q]
           /\ \/ /\ Full(ring[p].write, ring[p].read) /\ UNCHANGED renderer
                 /\ ring'[p] = [ring[p] EXCEPT !.state = [ring[p].state EXCEPT ![drawing[p]] = 0]]
                 /\ drawing' = [drawing EXCEPT ![p] = NoBuffer]
              \/ /\ ~Full(ring[p].write, ring[p].read)
                 /\ Renderer(p, "filled") /\ UNCHANGED drawing
                 /\ ring'[p] = [ring[p] EXCEPT !.slots = [ring[p].slots EXCEPT
                                     ![ring[p].write % RingSize] = drawing[p]]]
<1>1. drawing[p] \in Buffers
  BY DEF FillSlot, TypeOK
<1>2. ring[p] \in RingType
  BY DEF TypeOK
<1>3. CASE Full(ring[p].write, ring[p].read)
  <2>1. /\ ring' = Freed(p, drawing[p]) /\ UNCHANGED renderer
        /\ drawing' = [drawing EXCEPT ![p] = NoBuffer]
    BY <1>3 DEF FillSlot
  <2>. QED  BY <1>1, <1>3, <2>1, FreedEffect
<1>4. CASE ~Full(ring[p].write, ring[p].read)
  <2>. DEFINE k == ring[p].write % RingSize
              r == [ring[p] EXCEPT !.slots = [ring[p].slots EXCEPT ![k] = drawing[p]]]
  <2>1. /\ ring' = [ring EXCEPT ![p].slots[k] = drawing[p]] /\ UNCHANGED drawing
        /\ Renderer(p, "filled")
    BY <1>4 DEF FillSlot
  <2>2. [ring[p].slots EXCEPT ![k] = drawing[p]] \in [0 .. RingSize - 1 -> Buffers \cup {NoBuffer}]
    BY <1>1, <1>2, Zenon DEF RingType
  <2>3. r \in RingType
    BY <1>2, <2>2, Zenon DEF RingType
  <2>4. ring' = [ring EXCEPT ![p] = r]
    BY <1>1, <1>2, <2>1 DEF TypeOK, RingType
  <2>. QED  BY <1>1, <1>4, <2>1, <2>3, <2>4, RingTyped, Zenon
<1>. QED  BY <1>3, <1>4

LEMMA PublishSlotEffect ==
    ASSUME TypeOK, NEW p \in Pools, PublishSlot(p)
    PROVE  /\ ring' \in [Pools -> RingType]
           /\ drawing' \in [Pools -> Buffers \cup {NoBuffer}] /\ drawing'[p] = NoBuffer
           /\ \A q \in Pools: q # p => ring'[q] = ring[q] /\ drawing'[q] = drawing[q]
           /\ ring'[p] = [ring[p] EXCEPT !.write = Wrap(ring[p].write + 1)]
<1>1. ring[p] \in RingType
  BY DEF TypeOK
<1>. DEFINE r == [ring[p] EXCEPT !.write = Wrap(ring[p].write + 1)]
<1>2. Wrap(ring[p].write + 1) \in Nat
  <2>1. ring[p].write + 1 \in Int
    BY <1>1 DEF RingType
  <2>. QED  BY <2>1, WrapTyped
<1>3. r \in RingType
  BY <1>1, <1>2, Zenon DEF RingType
<1>4. ring' = [ring EXCEPT ![p] = r]
  BY <1>1 DEF TypeOK, PublishSlot
<1>5. ring'[p] = r /\ ring' \in [Pools -> RingType] /\ \A q \in Pools: q # p => ring'[q] = ring[q]
  BY <1>3, <1>4, RingTyped, Zenon
<1>. QED  BY <1>5 DEF PublishSlot, TypeOK

LEMMA ShutdownEffect ==
    ASSUME TypeOK, NEW p \in Pools, Shutdown(p)
    PROVE  /\ ring' \in [Pools -> RingType]
           /\ drawing' \in [Pools -> Buffers \cup {NoBuffer}] /\ drawing'[p] = NoBuffer
           /\ \A q \in Pools: q # p => ring'[q] = ring[q] /\ drawing'[q] = drawing[q]
           /\ \/ drawing[p] = NoBuffer /\ ring' = ring
              \/ /\ drawing[p] \in Buffers
                 /\ ring'[p] = [ring[p] EXCEPT !.state = [ring[p].state EXCEPT ![drawing[p]] = 0]]
<1>1. drawing[p] \in Buffers \cup {NoBuffer}
  BY DEF TypeOK
<1>2. /\ drawing' \in [Pools -> Buffers \cup {NoBuffer}] /\ drawing'[p] = NoBuffer
      /\ \A q \in Pools: q # p => drawing'[q] = drawing[q]
  BY <1>1 DEF Shutdown, TypeOK
<1>3. CASE drawing[p] = NoBuffer
  BY <1>1, <1>2, <1>3 DEF Shutdown, TypeOK
<1>4. CASE drawing[p] # NoBuffer
  <2>1. ring' = Freed(p, drawing[p])
    BY <1>4 DEF Shutdown
  <2>. QED  BY <1>1, <1>2, <1>4, <2>1, FreedEffect, Zenon
<1>. QED  BY <1>3, <1>4

LEMMA AdvanceReadEffect ==
    ASSUME TypeOK, NEW p \in Pools, AdvanceRead(p)
    PROVE  /\ ring' \in [Pools -> RingType] /\ \A q \in Pools: q # p => ring'[q] = ring[q]
           /\ ring'[p] = [ring[p] EXCEPT !.read = Wrap(capture.index + 1)]
<1>1. ring[p] \in RingType
  BY DEF TypeOK
<1>. DEFINE r == [ring[p] EXCEPT !.read = Wrap(capture.index + 1)]
<1>2. Wrap(capture.index + 1) \in Nat
  <2>1. capture.index + 1 \in Int
    BY DEF TypeOK, CaptureType
  <2>. QED  BY <2>1, WrapTyped
<1>3. r \in RingType
  BY <1>1, <1>2, Zenon DEF RingType
<1>4. ring' = [ring EXCEPT ![p] = r]
  BY <1>1 DEF TypeOK, AdvanceRead
<1>. QED  BY <1>3, <1>4, RingTyped, Zenon

LEMMA FreeBufferEffect ==
    ASSUME TypeOK, NEW p \in Pools, FreeBuffer(p)
    PROVE  /\ ring' \in [Pools -> RingType] /\ \A q \in Pools: q # p => ring'[q] = ring[q]
           /\ \/ ring' = ring /\ capture' = AfterRelease
              \/ /\ capture' = [capture EXCEPT !.pc = IF At("skip") THEN "skipped" ELSE "released"]
                 /\ ring'[p] = [ring[p] EXCEPT !.state = [ring[p].state EXCEPT ![capture.held] = 0]]
<1>1. CASE Full(ring[p].relWrite, ring[p].relRead)
  BY <1>1 DEF FreeBuffer, TypeOK
<1>2. CASE ~Full(ring[p].relWrite, ring[p].relRead)
  <2>1. /\ ring' = Freed(p, capture.held)
        /\ capture' = [capture EXCEPT !.pc = IF At("skip") THEN "skipped" ELSE "released"]
    BY <1>2 DEF FreeBuffer
  <2>2. capture.held \in Buffers \cup {NoBuffer}
    BY DEF TypeOK, CaptureType
  <2>. QED  BY <2>1, <2>2, FreedEffect
<1>. QED  BY <1>1, <1>2

LEMMA PublishReleaseEffect ==
    ASSUME TypeOK, NEW p \in Pools, PublishRelease(p)
    PROVE  /\ ring' \in [Pools -> RingType] /\ \A q \in Pools: q # p => ring'[q] = ring[q]
           /\ ring'[p] = [ring[p] EXCEPT !.relWrite = Wrap(ring[p].relWrite + 1)]
<1>1. ring[p] \in RingType
  BY DEF TypeOK
<1>. DEFINE r == [ring[p] EXCEPT !.relWrite = Wrap(ring[p].relWrite + 1)]
<1>2. Wrap(ring[p].relWrite + 1) \in Nat
  <2>1. ring[p].relWrite + 1 \in Int
    BY <1>1 DEF RingType
  <2>. QED  BY <2>1, WrapTyped
<1>3. r \in RingType
  BY <1>1, <1>2, Zenon DEF RingType
<1>4. ring' = [ring EXCEPT ![p] = r]
  BY <1>1 DEF TypeOK, PublishRelease
<1>. QED  BY <1>3, <1>4, RingTyped, Zenon

-----------------------------------------------------------------------------
\* The capture thread's own state.
Pcs == {"idle", "drain", "wait", "copied", "copiedLast", "skip", "skipped",
        "taken", "reading", "release", "released", "faulted"}

LEMMA IdleTyped == Idle \in CaptureType
  BY Constants DEF Idle, CaptureType

LEMMA StepTyped ==
    ASSUME TypeOK, NEW s \in Pcs
    PROVE  /\ [capture EXCEPT !.pc = s] \in CaptureType
           /\ [capture EXCEPT !.pc = s].pc = s
           /\ [capture EXCEPT !.pc = s].pool = capture.pool
           /\ [capture EXCEPT !.pc = s].copied = capture.copied
           /\ [capture EXCEPT !.pc = s].held = capture.held
           /\ [capture EXCEPT !.pc = s].from = capture.from
  BY DEF TypeOK, CaptureType, Pcs

LEMMA KeepTyped ==
    ASSUME TypeOK, NEW s \in Pcs
    PROVE  /\ Keep(s) \in CaptureType
           /\ Keep(s).pc = s /\ Keep(s).pool = capture.pool /\ Keep(s).copied = NoBuffer
           /\ Keep(s).held = capture.copied /\ Keep(s).from = capture.pool
<1>1. capture \in CaptureType
  BY DEF TypeOK
<1>2. Keep(s).pc = s /\ Keep(s).pool = capture.pool /\ Keep(s).copied = NoBuffer
      /\ Keep(s).held = capture.copied /\ Keep(s).from = capture.pool
  BY <1>1 DEF CaptureType, Keep
<1>3. Keep(s) \in CaptureType
  BY <1>1 DEF CaptureType, Pcs, Keep
<1>. QED  BY <1>2, <1>3

LEMMA AfterReleaseTyped ==
    ASSUME TypeOK
    PROVE  /\ AfterRelease \in CaptureType
           /\ \/ capture.pc \in {"skip", "skipped"} /\ AfterRelease = Keep("drain")
              \/ capture.pc \notin {"skip", "skipped"} /\ AfterRelease = Idle
  BY IdleTyped, KeepTyped DEF AfterRelease, Pcs

-----------------------------------------------------------------------------
\* The types and the handshake, whatever becomes of the indices.

LEMMA HandshakeKept ==
    ASSUME HInv, UNCHANGED <<renderer, conn, attached, received, iface, active>>
    PROVE  Handshake'
  BY DEF HInv, Handshake, InTurn, Acknowledged, Used, Displaced

\* A renderer moves on, and the server's side stays.
LEMMA RendererKeeps ==
    ASSUME HInv, NEW p \in Pools, renderer[p].pc # "new", renderer'[p].pc # "new",
           \A q \in Pools: q # p => renderer'[q] = renderer[q],
           \A q \in Pools: conn'[q].state = conn[q].state,
           UNCHANGED <<attached, received, iface, active>>,
           renderer'[p].pc \in {"ready", "drained", "filled"} => conn[p].state = "acked"
    PROVE  Handshake'
<1>1. InTurn'
  BY DEF HInv, Handshake, InTurn
<1>2. \A q \in Pools: Displaced(q)' = Displaced(q)
  BY DEF Displaced
<1>3. Acknowledged'
  BY <1>2 DEF HInv, Handshake, Acknowledged, Used
<1>. QED  BY <1>1, <1>3 DEF Handshake

LEMMA HConnect ==
    ASSUME HInv, NEW p \in Pools, Connect(p)
    PROVE  HInv'
<1>1. /\ TypeOK /\ InTurn /\ Acknowledged /\ renderer[p].pc = "new"
      /\ \A q \in Pools: q < p => renderer[q].pc # "new"
      /\ Renderer(p, "sending") /\ Answer(p, "backlog")
      /\ UNCHANGED <<ring, frames, drawing, HalVars>>
  BY DEF HInv, Handshake, Connect
<1>2. /\ renderer' \in [Pools -> RendererType] /\ renderer'[p].pc = "sending"
      /\ \A q \in Pools: q # p => renderer'[q] = renderer[q]
      /\ conn' \in [Pools -> ConnType] /\ conn'[p].state = "backlog"
      /\ \A q \in Pools: q # p => conn'[q] = conn[q]
  BY <1>1, RendererEffect, AnswerEffect
<1>3. TypeOK'
  BY <1>1, <1>2 DEF TypeOK, HalVars
<1>4. conn[p].state = "none" /\ \A q \in Pools: q < p => conn[q].state # "none"
  BY <1>1 DEF InTurn
<1>5. \A q \in Pools: p < q => conn[q].state = "none"
  BY <1>1, <1>4 DEF InTurn
<1>6. \A q \in Pools: ~(q < q)
  BY Constants
<1>7. InTurn'
  BY <1>1, <1>2, <1>4, <1>5, <1>6 DEF InTurn
<1>8. \A q \in Pools: Displaced(q) => Displaced(q)'
  BY <1>2, <1>4 DEF Displaced
<1>9. Acknowledged'
  BY <1>1, <1>2, <1>8 DEF Acknowledged, Used, HalVars
<1>. QED  BY <1>3, <1>7, <1>9 DEF HInv, Handshake

LEMMA HSend ==
    ASSUME HInv, NEW p \in Pools, SendRing(p) \/ SendBuffers(p)
    PROVE  HInv'
<1>1. /\ TypeOK /\ renderer[p].pc = "sending" /\ UNCHANGED <<ring, frames, drawing, HalVars>>
      /\ conn' = [conn EXCEPT ![p].sent = "ring"] \/ conn' = [conn EXCEPT ![p].sent = "all"]
      /\ renderer' = renderer \/ Renderer(p, "waiting")
  BY DEF HInv, SendRing, SendBuffers
<1>2. conn' \in [Pools -> ConnType] /\ \A q \in Pools: conn'[q].state = conn[q].state
  BY <1>1, SentEffect
<1>3. /\ renderer' \in [Pools -> RendererType] /\ renderer'[p].pc \in {"sending", "waiting"}
      /\ \A q \in Pools: q # p => renderer'[q] = renderer[q]
  BY <1>1, RendererEffect DEF TypeOK
<1>4. TypeOK'
  BY <1>1, <1>2, <1>3 DEF TypeOK, HalVars
<1>5. Handshake'
  BY <1>1, <1>2, <1>3, RendererKeeps DEF HalVars
<1>. QED  BY <1>4, <1>5 DEF HInv

\* A renderer's step of which only its place matters here.
LEMMA HRendererMoves ==
    ASSUME HInv, NEW p \in Pools, renderer[p].pc # "new",
           renderer' \in [Pools -> RendererType], renderer'[p].pc # "new",
           \A q \in Pools: q # p => renderer'[q] = renderer[q],
           renderer'[p].pc \in {"ready", "drained", "filled"} => conn[p].state = "acked",
           ring' \in [Pools -> RingType], frames' \in Nat,
           drawing' \in [Pools -> Buffers \cup {NoBuffer}], UNCHANGED <<conn, HalVars>>
    PROVE  HInv'
<1>1. TypeOK'
  BY DEF HInv, TypeOK, HalVars
<1>2. Handshake'
  BY RendererKeeps DEF HalVars
<1>. QED  BY <1>1, <1>2 DEF HInv

LEMMA HReceiveAck ==
    ASSUME HInv, NEW p \in Pools, ReceiveAck(p)
    PROVE  HInv'
<1>1. /\ TypeOK /\ renderer[p].pc \in {"sending", "waiting"}
      /\ UNCHANGED <<ring, frames, drawing, conn, HalVars>>
      /\ \/ Renderer(p, "ready") /\ conn[p].state = "acked"
         \/ Renderer(p, "off")
  BY DEF HInv, ReceiveAck
<1>2. /\ renderer' \in [Pools -> RendererType] /\ renderer'[p].pc \in {"ready", "off"}
      /\ \A q \in Pools: q # p => renderer'[q] = renderer[q]
      /\ renderer'[p].pc = "ready" => conn[p].state = "acked"
  BY <1>1, RendererEffect
<1>. QED  BY <1>1, <1>2, HRendererMoves DEF TypeOK

LEMMA HKilled ==
    ASSUME HInv, NEW p \in Pools, Killed(p)
    PROVE  HInv'
<1>1. /\ TypeOK /\ renderer[p].pc # "new" /\ Renderer(p, "off")
      /\ UNCHANGED <<ring, frames, drawing, conn, HalVars>>
  BY DEF HInv, Killed
<1>2. /\ renderer' \in [Pools -> RendererType] /\ renderer'[p].pc = "off"
      /\ \A q \in Pools: q # p => renderer'[q] = renderer[q]
  BY <1>1, RendererEffect
<1>. QED  BY <1>1, <1>2, HRendererMoves DEF TypeOK

LEMMA HRendererRings ==
    ASSUME HInv, NEW p \in Pools,
           DrainReleases(p) \/ AcquireFreeBuffer(p) \/ FillSlot(p) \/ PublishSlot(p) \/ Shutdown(p)
    PROVE  HInv'
<1>1. TypeOK /\ renderer[p].pc \in {"ready", "drained", "filled"} /\ UNCHANGED <<conn, HalVars>>
  BY DEF HInv, DrainReleases, AcquireFreeBuffer, FillSlot, PublishSlot, Shutdown
<1>2. conn[p].state = "acked"
  BY <1>1 DEF HInv, Handshake, Acknowledged
<1>3. /\ ring' \in [Pools -> RingType] /\ frames' \in Nat
      /\ drawing' \in [Pools -> Buffers \cup {NoBuffer}]
      /\ renderer' \in [Pools -> RendererType] /\ renderer'[p].pc # "new"
      /\ \A q \in Pools: q # p => renderer'[q] = renderer[q]
  <2>1. CASE DrainReleases(p)
    <3>1. ring' \in [Pools -> RingType]
      BY <1>1, <2>1, DrainEffect
    <3>2. Renderer(p, "drained") /\ UNCHANGED <<frames, drawing>>
      BY <2>1 DEF DrainReleases
    <3>. QED  BY <1>1, <3>1, <3>2, RendererEffect DEF TypeOK
  <2>2. CASE AcquireFreeBuffer(p)
    <3>1. renderer'[p].pc \in {"ready", "drained"}
      BY <1>1, <2>2, AcquireEffect, Zenon
    <3>. QED  BY <1>1, <2>2, <3>1, AcquireEffect, Zenon
  <2>3. CASE FillSlot(p)
    <3>1. ring' \in [Pools -> RingType]
      BY <1>1, <2>3, FillSlotEffect
    <3>2. /\ UNCHANGED frames
          /\ UNCHANGED renderer \/ Renderer(p, "filled")
          /\ UNCHANGED drawing \/ drawing' = [drawing EXCEPT ![p] = NoBuffer]
      BY <2>3 DEF FillSlot
    <3>. QED  BY <1>1, <3>1, <3>2, RendererEffect DEF TypeOK
  <2>4. CASE PublishSlot(p)
    <3>1. ring' \in [Pools -> RingType] /\ drawing' \in [Pools -> Buffers \cup {NoBuffer}]
      BY <1>1, <2>4, PublishSlotEffect
    <3>2. Renderer(p, "ready") /\ UNCHANGED frames
      BY <2>4 DEF PublishSlot
    <3>. QED  BY <1>1, <3>1, <3>2, RendererEffect DEF TypeOK
  <2>5. CASE Shutdown(p)
    <3>1. ring' \in [Pools -> RingType] /\ drawing' \in [Pools -> Buffers \cup {NoBuffer}]
      BY <1>1, <2>5, ShutdownEffect
    <3>2. Renderer(p, "off") /\ UNCHANGED frames
      BY <2>5 DEF Shutdown
    <3>. QED  BY <1>1, <3>1, <3>2, RendererEffect DEF TypeOK
  <2>. QED  BY <2>1, <2>2, <2>3, <2>4, <2>5
<1>. QED  BY <1>1, <1>2, <1>3, HRendererMoves

\* The server answers the connection of pool p, in its turn.
LEMMA Answered ==
    ASSUME HInv, NEW p \in Pools, conn[p].state \in {"backlog", "setup"},
           NEW s \in {"setup", "acked", "refused", "dropped"}, Answer(p, s),
           \A q \in Pools: q < p => conn[q].state # "backlog",
           ~SettingUp \/ conn[p].state = "setup"
    PROVE  /\ conn' \in [Pools -> ConnType] /\ conn'[p].state = s
           /\ \A q \in Pools: q # p => conn'[q] = conn[q] /\ conn[q].state # "setup"
           /\ \A q \in Pools: p < q => conn[q].state \in {"none", "backlog"}
           /\ renderer' = renderer => InTurn'
<1>1. /\ conn' \in [Pools -> ConnType] /\ conn'[p].state = s
      /\ \A q \in Pools: q # p => conn'[q] = conn[q]
  BY AnswerEffect DEF HInv
<1>2. \A q \in Pools: p < q => conn[q].state \in {"none", "backlog"}
  BY DEF HInv, Handshake, InTurn
<1>3. ASSUME NEW q \in Pools, q # p PROVE conn[q].state # "setup"
  <2>1. q < p \/ p < q
    BY <1>3, Constants
  <2>2. CASE ~SettingUp
    BY <2>2 DEF SettingUp
  <2>3. CASE conn[p].state = "setup"
    BY <1>2, <2>1, <2>3 DEF HInv, Handshake, InTurn
  <2>. QED  BY <2>2, <2>3
<1>4. \A q \in Pools: q < p => conn[q].state \notin {"backlog", "setup"}
  BY <1>3, Constants
<1>5. \A q \in Pools: ~(q < q)
  BY Constants
<1>6. ASSUME renderer' = renderer PROVE InTurn'
  <2>1. conn[p].state # "none" /\ conn'[p].state # "none"
    BY <1>1
  <2>2. \A q, t \in Pools: q < t /\ conn'[t].state # "none" => conn'[q].state # "none"
    BY <1>1, <2>1 DEF HInv, Handshake, InTurn
  <2>3. ASSUME NEW q \in Pools, NEW t \in Pools, q < t, conn'[q].state \in {"backlog", "setup"}
        PROVE  conn'[t].state \in {"none", "backlog"}
    <3>1. CASE q = p
      BY <1>1, <1>2, <1>5, <2>3, <3>1
    <3>2. CASE q # p
      BY <1>1, <1>4, <2>3, <3>2 DEF HInv, Handshake, InTurn
    <3>. QED  BY <3>1, <3>2
  <2>. QED  BY <1>1, <1>6, <2>1, <2>2, <2>3 DEF HInv, Handshake, InTurn
<1>. QED  BY <1>1, <1>2, <1>3, <1>6

LEMMA HServer ==
    ASSUME HInv, NEW p \in Pools, NEW s \in {"setup", "acked", "refused", "dropped"},
           \/ RefuseConnection(p) /\ s = "refused"
           \/ ReplacePool(p, FALSE) /\ s = "setup"
           \/ ReplacePool(p, TRUE) /\ s = "dropped"
           \/ FinishSetup(p) /\ s = "acked"
           \/ BuffersFail(p) /\ s = "dropped"
    PROVE  HInv' /\ conn'[p].state = s /\ \A q \in Pools: q # p => conn'[q] = conn[q]
<1>1. /\ TypeOK /\ Acknowledged /\ UNCHANGED Server /\ Answer(p, s)
      /\ conn[p].state \in {"backlog", "setup"}
      /\ ~SettingUp \/ conn[p].state = "setup"
      /\ \A q \in Pools: q < p => conn[q].state # "backlog"
  <2>1. CASE conn[p].state = "setup"
    BY <2>1 DEF HInv, Handshake, InTurn, RefuseConnection, ReplacePool, FinishSetup, BuffersFail, Turn
  <2>2. CASE conn[p].state # "setup"
    BY <2>2 DEF HInv, Handshake, RefuseConnection, ReplacePool, FinishSetup, BuffersFail, Turn
  <2>. QED  BY <2>1, <2>2
<1>2. /\ conn' \in [Pools -> ConnType] /\ conn'[p].state = s
      /\ \A q \in Pools: q # p => conn'[q] = conn[q] /\ conn[q].state # "setup"
      /\ \A q \in Pools: p < q => conn[q].state \in {"none", "backlog"}
      /\ InTurn'
  BY <1>1, Answered DEF Server
<1>3. /\ attached' \in Pools \cup {NoPool} /\ received' \in Pools \cup {NoPool}
      /\ iface' \in Pools \cup {NoPool} /\ active' \in BOOLEAN
  BY <1>1 DEF TypeOK, RefuseConnection, ReplacePool, FinishSetup, BuffersFail
<1>4. TypeOK'
  BY <1>1, <1>2, <1>3 DEF TypeOK, Server
\* The pools before this one are displaced as soon as theirs is not the one used.
<1>5. ASSUME NEW q \in Pools, conn[q].state = "acked" PROVE q # p /\ q < p
  BY <1>1, <1>2, <1>5, Constants
<1>6. \A q \in Pools: Displaced(q) => Displaced(q)'
  <2>1. s # "refused" => s \in {"setup", "acked", "dropped"}
    OBVIOUS
  <2>2. s = "refused" => conn[p].state = "backlog"
    BY DEF RefuseConnection, Turn
  <2>. QED  BY <1>1, <1>2, <2>1, <2>2 DEF Displaced
<1>7. s # "refused" => \A q \in Pools: q < p => Displaced(q)'
  BY <1>2 DEF Displaced
<1>8. \A q \in Pools: conn'[q].state = "setup" => attached' = q /\ received' = NoPool
  BY <1>1, <1>2 DEF RefuseConnection, ReplacePool, FinishSetup, BuffersFail
<1>9. \A q \in Pools: renderer'[q].pc \in {"ready", "drained", "filled"} => conn'[q].state = "acked"
  BY <1>1, <1>2 DEF Acknowledged, Server
<1>10. \A q \in Pools: conn'[q].state = "acked" => Displaced(q)' \/ Used(q)'
  <2>1. CASE s = "refused"
    <3>1. UNCHANGED <<attached, received, iface, active>>
      BY <2>1 DEF RefuseConnection
    <3>. QED  BY <1>1, <1>2, <1>6, <2>1, <3>1 DEF Acknowledged, Used
  <2>2. CASE s # "refused"
    <3>1. s = "acked" => Used(p)'
      BY <1>1 DEF FinishSetup, Acknowledged, Used
    <3>. QED  BY <1>2, <1>5, <1>7, <2>2, <3>1
  <2>. QED  BY <2>1, <2>2
<1>. QED  BY <1>2, <1>4, <1>8, <1>9, <1>10 DEF HInv, Handshake, Acknowledged

LEMMA HServerNext ==
    ASSUME HInv, ServerNext
    PROVE  HInv'
<1>1. PICK p \in Pools: \/ RefuseConnection(p) \/ ReplacePool(p, FALSE) \/ ReplacePool(p, TRUE)
                        \/ FinishSetup(p) \/ BuffersFail(p)
  BY DEF ServerNext
<1>. QED  BY <1>1, HServer

LEMMA HCapture ==
    ASSUME HInv, CaptureNext
    PROVE  HInv'
<1>1. UNCHANGED Others
  BY Zenon DEF CaptureNext, GetHalInterface, GiveUp, AcquireLatest, FrameCopied, CopySlot,
         AdvanceRead, Drained, FreeBuffer, PublishRelease
<1>2. TypeOK /\ capture \in CaptureType
  BY DEF HInv, TypeOK
<1>3. ring' \in [Pools -> RingType] /\ capture' \in CaptureType
  <2>1. CASE GetHalInterface
    BY <1>2, <2>1, IdleTyped DEF GetHalInterface, TypeOK, CaptureType, Idle
  <2>2. CASE GiveUp
    BY <1>2, <2>2, IdleTyped DEF GiveUp, TypeOK, Idle
  <2>3. CASE AcquireLatest
    BY <1>2, <2>3, Zenon DEF AcquireLatest, TypeOK, CaptureType
  <2>4. CASE FrameCopied
    BY <1>2, <2>4 DEF FrameCopied, TypeOK, CaptureType
  <2>5. ASSUME NEW p \in Pools, CopySlot(p)
        PROVE ring' = ring /\ capture' \in CaptureType
    <3>1. ring[p] \in RingType
      BY <1>2 DEF TypeOK
    <3>0. /\ ring[p].read \in Nat
          /\ ring[p].slots \in [0 .. RingSize - 1 -> Buffers \cup {NoBuffer}]
      BY <3>1 DEF RingType
    <3>3. ring[p].read % RingSize \in 0 .. RingSize - 1
      <4>1. ring[p].read \in Int /\ RingSize \in Nat \ {0}
        BY <3>0, Constants
      <4>. QED  BY <4>1, ModRange
    <3>2. ring[p].slots[ring[p].read % RingSize] \in Buffers \cup {NoBuffer} /\ ring[p].read \in Nat
      BY <3>0, <3>3, Zenon
    <3>. QED  BY <1>2, <2>5, <3>2, Zenon DEF CopySlot, TypeOK, CaptureType
  <2>6. ASSUME NEW p \in Pools, AdvanceRead(p)
        PROVE  ring' \in [Pools -> RingType] /\ capture' \in CaptureType
    <3>1. "taken" \in Pcs /\ "drain" \in Pcs /\ "skip" \in Pcs
      BY DEF Pcs
    <3>. QED  BY <1>2, <2>6, <3>1, AdvanceReadEffect, KeepTyped, StepTyped, Zenon DEF AdvanceRead
  <2>7. ASSUME NEW p \in Pools, Drained(p)
        PROVE ring' = ring /\ capture' \in CaptureType
    BY <1>2, <2>7 DEF Drained, TypeOK, CaptureType
  <2>8. AfterRelease \in CaptureType
    BY <1>2, AfterReleaseTyped
  <2>9. ASSUME NEW p \in Pools, FreeBuffer(p)
        PROVE  ring' \in [Pools -> RingType] /\ capture' \in CaptureType
    BY <1>2, <2>8, <2>9, FreeBufferEffect, StepTyped, Zenon DEF Pcs
  <2>10. ASSUME NEW p \in Pools, PublishRelease(p)
        PROVE  ring' \in [Pools -> RingType] /\ capture' \in CaptureType
    BY <1>2, <2>8, <2>10, PublishReleaseEffect, Zenon DEF PublishRelease
  <2>. QED
    BY <1>2, <2>1, <2>2, <2>3, <2>4, <2>5, <2>6, <2>7, <2>9, <2>10 DEF CaptureNext, TypeOK
<1>4. foreign' \subseteq Pools
  <2>1. foreign \subseteq Pools /\ received \in Pools \cup {NoPool}
    BY <1>2 DEF TypeOK
  <2>2. CASE GetHalInterface \/ GiveUp \/ FrameCopied
    BY <2>1, <2>2 DEF GetHalInterface, GiveUp, FrameCopied
  <2>3. ASSUME NEW p \in Pools, CopySlot(p) \/ Drained(p) PROVE foreign' = foreign
    BY <2>3 DEF CopySlot, Drained
  <2>4. CASE AcquireLatest
    BY <2>1, <2>4 DEF AcquireLatest
  <2>5. ASSUME NEW p \in Pools, AdvanceRead(p) \/ FreeBuffer(p) \/ PublishRelease(p)
        PROVE  foreign' \subseteq Pools
    BY <2>1, <2>5 DEF AdvanceRead, FreeBuffer, PublishRelease, Reaches
  <2>. QED  BY <2>1, <2>2, <2>3, <2>4, <2>5 DEF CaptureNext
<1>5. TypeOK'
  BY <1>1, <1>2, <1>3, <1>4 DEF TypeOK, Others
<1>6. Handshake'
  BY <1>1, HandshakeKept DEF Others
<1>. QED  BY <1>5, <1>6 DEF HInv

\* The connections end with the HAL's process.
LEMMA FaultEffect ==
    ASSUME HInv, Fault
    PROVE  /\ conn' \in [Pools -> ConnType]
           /\ \A p \in Pools: \/ conn[p].state = "backlog" /\ conn'[p].state = "refused"
                              \/ conn[p].state = "setup" /\ conn'[p].state = "dropped"
                              \/ conn[p].state \notin {"backlog", "setup"} /\ conn'[p] = conn[p]
<1>. DEFINE e(c) == CASE c.state = "backlog" -> [c EXCEPT !.state = "refused"]
                      [] c.state = "setup" -> [c EXCEPT !.state = "dropped"]
                      [] OTHER -> c
<1>1. ASSUME NEW c \in ConnType
      PROVE  /\ e(c) \in ConnType
             /\ \/ c.state = "backlog" /\ e(c).state = "refused"
                \/ c.state = "setup" /\ e(c).state = "dropped"
                \/ c.state \notin {"backlog", "setup"} /\ e(c) = c
  BY DEF ConnType
<1>2. conn' = [p \in Pools |-> e(conn[p])]
  BY Zenon DEF Fault
<1>3. \A p \in Pools: conn[p] \in ConnType
  BY DEF HInv, TypeOK
<1>. HIDE DEF e
<1>. QED  BY <1>1, <1>2, <1>3

LEMMA HFault ==
    ASSUME HInv, Fault
    PROVE  HInv'
<1>1. /\ TypeOK /\ Handshake /\ capture' \in CaptureType
      /\ UNCHANGED <<ring, frames, drawing, renderer, attached, received, iface, active, foreign>>
  BY IdleTyped DEF HInv, Fault, Idle, CaptureType
<1>2. TypeOK'
  BY <1>1, FaultEffect DEF TypeOK
<1>3. InTurn'
  BY <1>1, FaultEffect DEF Handshake, InTurn
<1>4. \A p \in Pools: Displaced(p) => Displaced(p)'
  BY FaultEffect DEF Displaced
<1>5. Acknowledged'
  BY <1>1, <1>4, FaultEffect DEF Handshake, Acknowledged, Used
<1>. QED  BY <1>2, <1>3, <1>5 DEF HInv, Handshake

LEMMA HNext ==
    ASSUME HInv, [Next]_vars
    PROVE  HInv'
<1>1. CASE UNCHANGED vars
  BY <1>1, HandshakeKept DEF vars, HInv, TypeOK
<1>2. CASE RendererNext
  BY <1>2, HConnect, HSend, HReceiveAck, HRendererRings, HKilled DEF RendererNext
<1>. QED  BY <1>1, <1>2, HServerNext, HCapture, HFault DEF Next

LEMMA HInit == Init => HInv
<1>. SUFFICES ASSUME Init PROVE HInv
  OBVIOUS
<1>1. NewRing \in RingType
  BY DEF NewRing, RingType
<1>2. 0 \in Buffers
  BY Constants DEF Buffers
<1>3. TypeOK
  BY <1>1, <1>2, IdleTyped, Constants, Zenon DEF Init, TypeOK, RendererType, ConnType
<1>4. Handshake
  BY DEF Init, Handshake, InTurn, Acknowledged
<1>. QED  BY <1>3, <1>4 DEF HInv

(***************************************************************************)
(* A renderer whose initialize() returned true is the one the HAL has      *)
(* mapped, received the buffers of and set HalInterface up for, unless a   *)
(* later connection was set up since: whatever connections came, failed,   *)
(* died or waited before, and whoever is still connected.                  *)
(***************************************************************************)
THEOREM AcknowledgedIsUsed == Spec => []AcknowledgedPoolIsUsed
<1>1. HInv => AcknowledgedPoolIsUsed
  BY DEF HInv, Handshake, Acknowledged, Used, AcknowledgedPoolIsUsed
<1>. QED  BY HInit, HNext, <1>1, PTL DEF Spec

-----------------------------------------------------------------------------
\* A step that leaves a pool alone keeps what is known of it.

LEMMA UntouchedKept ==
    ASSUME Untouched, New' \subseteq New,
           \A p \in New': /\ ring'[p] = ring[p] /\ drawing'[p] = drawing[p]
                          /\ p \notin {attached', received', iface', capture'.pool, capture'.from}
    PROVE  Untouched'
  BY DEF Untouched

LEMMA PoolTakes ==
    ASSUME NEW q \in Pools, PoolOK(q), ring'[q] = ring[q], drawing'[q] = drawing[q],
           \A b \in Buffers: Takes(q, b)' => ring[q].state[b] = 1 /\ b # drawing[q],
           HasCopied(q)' => capture'.copied \in Buffers,
           capture'.pc \in {"skip", "skipped", "taken", "reading", "release", "released"}
               /\ capture'.from = q => capture'.held \in Buffers
    PROVE  PoolOK(q)'
<1>1. Rings(q)' /\ Drawn(q)'
  BY DEF PoolOK, Rings, Drawn
<1>2. Queues(q)'
  BY DEF PoolOK, Queues, Slot, Waiting
<1>3. Taken(q)'
  BY DEF PoolOK, Taken
<1>. QED  BY <1>1, <1>2, <1>3 DEF PoolOK

LEMMA PoolKept ==
    ASSUME NEW q \in Pools, PoolOK(q), ring'[q] = ring[q], drawing'[q] = drawing[q],
           \A b \in Buffers: Takes(q, b)' => Takes(q, b),
           HasCopied(q)' => capture'.copied \in Buffers,
           capture'.pc \in {"skip", "skipped", "taken", "reading", "release", "released"}
               /\ capture'.from = q => capture'.held \in Buffers
    PROVE  PoolOK(q)'
<1>1. \A b \in Buffers: Takes(q, b)' => ring[q].state[b] = 1 /\ b # drawing[q]
  BY DEF PoolOK, Taken
<1>. QED  BY <1>1, PoolTakes

LEMMA PoolStays ==
    ASSUME NEW q \in Pools, PoolOK(q), ring'[q] = ring[q], drawing'[q] = drawing[q],
           capture' = capture
    PROVE  PoolOK(q)'
<1>1. /\ \A b \in Buffers: Takes(q, b)' => Takes(q, b)
      /\ HasCopied(q)' => capture'.copied \in Buffers
      /\ capture'.pc \in {"skip", "skipped", "taken", "reading", "release", "released"}
               /\ capture'.from = q => capture'.held \in Buffers
  BY DEF PoolOK, Taken, Takes, HasHeld, HasCopied
<1>. QED  BY <1>1, PoolKept

LEMMA BoundRelaxes ==
    ASSUME NEW q \in Pools, renderer'[q].pc = "drained" => renderer[q].pc = "drained"
    PROVE  Bound(q) \in Nat /\ Bound(q)' \in Nat /\ Bound(q) <= Bound(q)'
  BY Constants DEF Bound

LEMMA UsedKept ==
    ASSUME NEW q \in Pools, TypeOK, UsedOK(q), ring'[q] = ring[q],
           \A b \in Buffers: Takes(q, b)' => Takes(q, b),
           HasHeld(q)' /\ HasCopied(q)' => capture'.held # capture'.copied,
           Owed(q)' \in 0 .. Owed(q), Freeing(q)' \in 0 .. Freeing(q),
           capture'.from \notin {NoPool, q} => ring[q].relWrite = 0,
           renderer'[q].pc = "drained" => renderer[q].pc = "drained"
    PROVE  UsedOK(q)'
<1>1. Apart(q)'
  BY DEF UsedOK, Apart, Slot, Waiting
<1>2. ring[q] \in RingType /\ Owed(q) \in 0 .. 2 /\ Freeing(q) \in 0 .. 1
  BY DEF TypeOK, Owed, Freeing
<1>3. ring[q].relWrite \in Nat /\ ring[q].read \in Nat /\ ring[q].relRead \in Nat
  BY <1>2 DEF RingType
<1>4. Paid(q)'
  BY <1>2, <1>3 DEF UsedOK, Paid
<1>5. Marked(q)' = Marked(q)
  BY DEF Marked
<1>6. Cardinality(Marked(q)) \in Nat
  <2>1. IsFiniteSet(Buffers)
    BY FS_Interval, Constants DEF Buffers
  <2>. QED  BY <2>1, FS_Subset, FS_CardinalityType DEF Marked
<1>7. Room(q)'
  <2>1. ring[q].relWrite - ring[q].relRead + Freeing(q) + Cardinality(Marked(q)) <= Bound(q)
    BY DEF UsedOK, Room
  <2>2. Bound(q) \in Nat /\ Bound(q)' \in Nat /\ Bound(q) <= Bound(q)'
    BY BoundRelaxes
  <2>3. ring[q].relWrite - ring[q].relRead + Freeing(q)' + Cardinality(Marked(q)) <= Bound(q)'
    BY <1>2, <1>3, <1>6, <2>1, <2>2
  <2>. QED  BY <1>5, <2>3 DEF Room
<1>. QED  BY <1>1, <1>4, <1>7 DEF UsedOK

LEMMA UsedStays ==
    ASSUME NEW q \in Pools, TypeOK, UsedOK(q), ring'[q] = ring[q], capture' = capture,
           renderer'[q].pc = "drained" => renderer[q].pc = "drained"
    PROVE  UsedOK(q)'
<1>1. (HasHeld(q)' => HasHeld(q)) /\ (HasCopied(q)' => HasCopied(q))
      /\ \A b \in Buffers: Takes(q, b)' => Takes(q, b)
  BY DEF Takes, HasHeld, HasCopied
<1>2. /\ Owed(q)' = Owed(q) /\ Owed(q) \in Nat
      /\ Freeing(q)' = Freeing(q) /\ Freeing(q) \in Nat
  BY DEF Owed, HasCopied, Freeing
<1>. QED  BY <1>1, <1>2, UsedKept DEF UsedOK, Apart, Paid

\* The steps of the connections: rings and capture are left alone.
LEMMA ConnectionStep ==
    ASSUME IInv, UNCHANGED <<ring, frames, drawing, capture, foreign>>,
           New' \subseteq New, Ordered',
           \A p \in New': p \notin {attached', received', iface'},
           \A p \in Pools: renderer'[p].pc \in {"drained", "filled"}
                             => renderer[p].pc = renderer'[p].pc,
           \A p \in Pools \ foreign: p = attached' => UsedOK(p)'
    PROVE  PInv'
<1>1. Untouched'
  BY UntouchedKept DEF IInv, PInv, Untouched
<1>2. Counted' /\ Copied'
  BY DEF IInv, PInv, Counted, Copied, Slot
<1>3. Filled'
  BY DEF IInv, PInv, Filled, Filling, Slot
<1>4. \A p \in Pools \ foreign': PoolOK(p)'
  BY PoolStays DEF IInv, PInv
<1>. QED  BY <1>1, <1>2, <1>3, <1>4 DEF PInv

LEMMA ConnectionRests ==
    ASSUME IInv, UNCHANGED <<ring, frames, drawing, capture, foreign>>,
           New' \subseteq New, UNCHANGED <<attached, received, iface>>,
           \A p \in Pools: renderer'[p].pc \in {"drained", "filled"}
                             => renderer[p].pc = renderer'[p].pc
    PROVE  PInv'
<1>1. Ordered'
  BY DEF IInv, PInv, Ordered
<1>2. \A p \in New': p \notin {attached', received', iface'}
  BY DEF IInv, PInv, Untouched
<1>3. \A p \in Pools \ foreign: p = attached' => UsedOK(p)'
  BY UsedStays DEF IInv, HInv, PInv
<1>. QED  BY <1>1, <1>2, <1>3, ConnectionStep

LEMMA PConnect ==
    ASSUME IInv, NEW p \in Pools, Connect(p)
    PROVE  PInv'
<1>1. /\ TypeOK /\ InTurn /\ renderer[p].pc = "new"
      /\ Renderer(p, "sending") /\ Answer(p, "backlog")
      /\ UNCHANGED <<ring, frames, drawing, HalVars>>
  BY DEF IInv, HInv, Handshake, Connect
<1>2. conn[p].state = "none"
  BY <1>1 DEF InTurn
<1>3. New' \subseteq New
  BY <1>1, <1>2, AnswerEffect DEF New
<1>4. \A q \in Pools: renderer'[q].pc \in {"drained", "filled"} => renderer[q].pc = renderer'[q].pc
  BY <1>1, RendererEffect
<1>. QED  BY <1>1, <1>3, <1>4, ConnectionRests DEF HalVars

LEMMA PSend ==
    ASSUME IInv, NEW p \in Pools, SendRing(p) \/ SendBuffers(p)
    PROVE  PInv'
<1>1. /\ TypeOK /\ UNCHANGED <<ring, frames, drawing, HalVars>>
      /\ \/ conn' = [conn EXCEPT ![p].sent = "ring"]
         \/ conn' = [conn EXCEPT ![p].sent = "all"]
      /\ renderer' = renderer \/ Renderer(p, "waiting")
  BY DEF IInv, HInv, SendRing, SendBuffers
<1>2. New' \subseteq New
  BY <1>1, SentEffect DEF New
<1>3. \A q \in Pools: renderer'[q].pc \in {"drained", "filled"} => renderer[q].pc = renderer'[q].pc
  BY <1>1, RendererEffect
<1>. QED  BY <1>1, <1>2, <1>3, ConnectionRests DEF HalVars

LEMMA PRendererRests ==
    ASSUME IInv, NEW p \in Pools, ReceiveAck(p) \/ Killed(p)
    PROVE  PInv'
<1>1. /\ TypeOK /\ UNCHANGED <<ring, frames, drawing, conn, HalVars>>
      /\ Renderer(p, "ready") \/ Renderer(p, "off")
  BY DEF IInv, HInv, ReceiveAck, Killed
<1>2. New' \subseteq New
  BY <1>1 DEF New
<1>3. \A q \in Pools: renderer'[q].pc \in {"drained", "filled"} => renderer[q].pc = renderer'[q].pc
  BY <1>1, RendererEffect
<1>. QED  BY <1>1, <1>2, <1>3, ConnectionRests DEF HalVars

LEMMA PRefuseConnection ==
    ASSUME IInv, NEW p \in Pools, RefuseConnection(p)
    PROVE  PInv'
<1>1. /\ conn'[p].state = "refused" /\ \A q \in Pools: q # p => conn'[q] = conn[q]
      /\ conn[p].state = "backlog" /\ UNCHANGED <<Server, attached, received, iface>>
  BY HServer DEF IInv, RefuseConnection, Turn
<1>2. New' \subseteq New
  BY <1>1 DEF New
<1>. QED  BY <1>1, <1>2, ConnectionRests DEF Server

\* A pool is attached as it was allocated.
LEMMA NewIsUsedOK ==
    ASSUME TypeOK, Untouched, NEW p \in New, ring'[p] = ring[p], capture' = capture
    PROVE  UsedOK(p)'
<1>1. ring'[p] = NewRing /\ capture'.pool # p /\ capture'.from # p
  BY DEF Untouched
<1>2. /\ ring'[p].relWrite = 0 /\ ring'[p].relRead = 0 /\ ring'[p].read = 0 /\ ring'[p].write = 0
      /\ \A b \in Buffers: ring'[p].state[b] = 0
  BY <1>1 DEF NewRing
<1>3. ~HasHeld(p)' /\ ~HasCopied(p)'
  BY <1>1 DEF HasHeld, HasCopied
<1>4. Owed(p)' = 0 /\ Freeing(p)' = 0
  BY <1>1, <1>3 DEF Owed, Freeing
<1>5. Apart(p)'
  BY <1>3 DEF Apart, Takes
<1>6. Paid(p)'
  BY <1>2, <1>4 DEF Paid
<1>7. Marked(p)' = {}
  BY <1>2 DEF Marked
<1>8. Cardinality(Marked(p)') = 0
  BY <1>7, FS_EmptySet
<1>9. Room(p)'
  BY <1>2, <1>4, <1>8, Constants DEF Room, Bound
<1>. QED  BY <1>5, <1>6, <1>9 DEF UsedOK

\* The pools from p on are new to the capture thread when p has its turn.
LEMMA NothingLater ==
    ASSUME IInv, NEW p \in Pools, conn[p].state = "backlog"
    PROVE  capture.pool <= p /\ capture.from <= p
<1>1. \A q \in Pools: p < q => q \in New
  BY DEF IInv, HInv, Handshake, InTurn, New
<1>2. \A q \in Pools: p < q => q \notin {capture.pool, capture.from}
  BY <1>1 DEF IInv, PInv, Untouched
<1>3. capture.pool \in Pools \cup {0} /\ capture.from \in Pools \cup {0}
  BY DEF IInv, HInv, TypeOK, CaptureType, NoPool
<1>4. ASSUME NEW q \in Pools \cup {0}, q = capture.pool \/ q = capture.from PROVE q <= p
  <2>1. q \in Nat /\ p \in Nat
    BY Constants
  <2>2. q \in Pools => ~(p < q)
    BY <1>2, <1>4
  <2>. QED  BY <2>1, <2>2
<1>. QED  BY <1>3, <1>4

LEMMA PReplacePool ==
    ASSUME IInv, NEW p \in Pools, NEW f \in BOOLEAN, ReplacePool(p, f)
    PROVE  PInv'
<1>1. /\ PInv /\ TypeOK /\ conn[p].state = "backlog" /\ received' = NoPool
      /\ UNCHANGED <<Server, iface>> /\ attached' \in {NoPool, p}
  BY DEF IInv, HInv, ReplacePool, Turn
<1>2. conn'[p].state \in {"setup", "dropped"} /\ \A q \in Pools: q # p => conn'[q] = conn[q]
  <2>1. ReplacePool(p, FALSE) \/ ReplacePool(p, TRUE)
    BY Zenon
  <2>. QED  BY <2>1, HServer DEF IInv
<1>3. p \in New /\ p \notin New' /\ New' \subseteq New
  BY <1>1, <1>2 DEF New
<1>4. capture.pool <= p /\ capture.from <= p
  BY <1>1, NothingLater
<1>5. Ordered'
  BY <1>1, <1>4 DEF PInv, Ordered, Server
<1>6. \A q \in New': q \notin {attached', received', iface'}
  BY <1>1, <1>3, Constants DEF PInv, Untouched, New
<1>7. \A q \in Pools \ foreign: q = attached' => UsedOK(q)'
  BY <1>1, <1>3, NewIsUsedOK, Constants DEF PInv, Server
<1>. QED  BY <1>1, <1>3, <1>5, <1>6, <1>7, ConnectionStep DEF Server

LEMMA PFinishSetup ==
    ASSUME IInv, NEW p \in Pools, FinishSetup(p)
    PROVE  PInv'
<1>1. /\ PInv /\ TypeOK /\ attached = p /\ attached' = p /\ received' = p /\ iface' = p
      /\ UNCHANGED Server
  BY DEF IInv, HInv, Handshake, Acknowledged, FinishSetup
<1>2. conn'[p].state = "acked" /\ \A q \in Pools: q # p => conn'[q] = conn[q]
  BY HServer DEF IInv
<1>3. New' \subseteq New /\ p \notin New'
  BY <1>2 DEF New
<1>4. Ordered'
  BY <1>1 DEF PInv, Ordered, Server
<1>5. \A q \in New': q \notin {attached', received', iface'}
  BY <1>1, <1>3
<1>6. \A q \in Pools \ foreign: q = attached' => UsedOK(q)'
  BY <1>1, UsedStays DEF PInv, Server
<1>. QED  BY <1>1, <1>3, <1>4, <1>5, <1>6, ConnectionStep DEF Server

LEMMA PBuffersFail ==
    ASSUME IInv, NEW p \in Pools, BuffersFail(p)
    PROVE  PInv'
<1>1. /\ PInv /\ attached' = NoPool /\ received' = received /\ iface' = iface /\ received = NoPool
      /\ UNCHANGED Server
  BY DEF IInv, HInv, Handshake, Acknowledged, BuffersFail
<1>2. conn'[p].state = "dropped" /\ \A q \in Pools: q # p => conn'[q] = conn[q]
  BY HServer DEF IInv
<1>3. New' \subseteq New
  BY <1>2 DEF New
<1>4. Ordered'
  BY <1>1 DEF PInv, Ordered, Server
<1>5. \A q \in New': q \notin {attached', received', iface'}
  BY <1>1, <1>3, Constants DEF New, PInv, Untouched
<1>6. \A q \in Pools \ foreign: q = attached' => UsedOK(q)'
  BY <1>1, Constants
<1>. QED  BY <1>1, <1>3, <1>4, <1>5, <1>6, ConnectionStep DEF Server

-----------------------------------------------------------------------------
\* The capture thread's steps that write no ring.

\* Nothing is in the capture thread's hands that was not before.
KeepsTaken(q) ==
    /\ \A b \in Buffers: Takes(q, b)' => Takes(q, b)
    /\ HasCopied(q)' => capture'.copied \in Buffers
    /\ capture'.pc \in {"skip", "skipped", "taken", "reading", "release", "released"}
          /\ capture'.from = q => capture'.held \in Buffers
    /\ q = attached => /\ HasHeld(q)' /\ HasCopied(q)' => capture'.held # capture'.copied
                       /\ Owed(q)' \in 0 .. Owed(q) /\ Freeing(q)' \in 0 .. Freeing(q)
                       /\ capture'.from \notin {NoPool, q} => ring[q].relWrite = 0

LEMMA CaptureStep ==
    ASSUME IInv, UNCHANGED <<ring, frames, drawing, attached, received, iface, renderer>>,
           New' \subseteq New, foreign \subseteq foreign', Ordered', Copied',
           capture'.pool \in {capture.pool, NoPool, attached},
           capture'.from \in {capture.from, capture.pool, NoPool},
           \A q \in Pools \ foreign': KeepsTaken(q)
    PROVE  PInv'
<1>1. Untouched'
  BY UntouchedKept, Constants DEF IInv, PInv, Untouched, New
<1>2. Counted'
  BY DEF IInv, PInv, Counted
<1>3. Filled'
  BY DEF IInv, PInv, Filled, Filling, Slot
<1>4. ASSUME NEW q \in Pools \ foreign' PROVE PoolOK(q)'
  BY <1>4, PoolKept DEF IInv, PInv, KeepsTaken
<1>5. ASSUME NEW q \in Pools \ foreign', q = attached' PROVE UsedOK(q)'
  BY <1>5, UsedKept DEF IInv, HInv, PInv, KeepsTaken
<1>. QED  BY <1>1, <1>2, <1>3, <1>4, <1>5 DEF PInv

LEMMA NewStays ==
    ASSUME UNCHANGED conn
    PROVE  New' \subseteq New
  BY DEF New

\* The capture thread lets go of everything.
LEMMA LetsGo ==
    ASSUME IInv, UNCHANGED <<ring, frames, drawing, attached, received, iface, renderer>>,
           New' \subseteq New, foreign' = foreign,
           capture'.pc \in {"idle", "drain", "faulted"},
           capture'.pool = NoPool, capture'.from = NoPool, capture'.held = NoBuffer
    PROVE  PInv'
<1>1. Ordered' /\ Copied'
  <2>1. NoPool <= attached
    BY Constants DEF IInv, HInv, TypeOK, NoPool
  <2>2. Ordered'
    BY <2>1 DEF IInv, PInv, Ordered
  <2>. QED  BY <2>2 DEF Copied
<1>2. ASSUME NEW q \in Pools PROVE KeepsTaken(q)
  <2>1. ~HasHeld(q)' /\ ~HasCopied(q)'
    BY DEF HasHeld, HasCopied
  <2>2. Owed(q)' = 0 /\ Freeing(q)' = 0
    BY <2>1 DEF Owed, Freeing
  <2>3. 0 \in 0 .. Owed(q) /\ 0 \in 0 .. Freeing(q)
    BY DEF Owed, Freeing
  <2>. QED  BY <2>1, <2>2, <2>3 DEF KeepsTaken, Takes
<1>. QED  BY <1>1, <1>2, CaptureStep

LEMMA PLetsGo ==
    ASSUME IInv, GetHalInterface \/ GiveUp \/ Fault
    PROVE  PInv'
<1>1. /\ UNCHANGED <<ring, frames, drawing, attached, received, iface, renderer, foreign>>
      /\ capture'.pc \in {"idle", "drain", "faulted"}
      /\ capture'.pool = NoPool /\ capture'.from = NoPool /\ capture'.held = NoBuffer
  BY DEF GetHalInterface, GiveUp, Fault, Others, Idle
<1>2. New' \subseteq New
  <2>1. CASE Fault
    BY <2>1, FaultEffect DEF IInv, New
  <2>2. CASE GetHalInterface \/ GiveUp
    BY <2>2, NewStays DEF GetHalInterface, GiveUp, Others
  <2>. QED  BY <2>1, <2>2
<1>. QED  BY <1>1, <1>2, LetsGo

LEMMA PDrained ==
    ASSUME IInv, NEW p \in Pools, Drained(p)
    PROVE  PInv'
<1>. DEFINE s == IF capture.held = NoBuffer THEN "wait" ELSE "taken"
<1>1. TypeOK /\ PInv /\ capture.pc = "drain" /\ UNCHANGED <<Others, ring, foreign>>
      /\ capture' = [capture EXCEPT !.pc = s]
  BY DEF IInv, HInv, Drained, At
<1>2. /\ capture'.pc = s /\ capture'.pool = capture.pool /\ capture'.copied = capture.copied
      /\ capture'.held = capture.held /\ capture'.from = capture.from
      /\ capture.held \in Buffers \cup {NoBuffer}
  BY <1>1, StepTyped DEF Pcs, TypeOK, CaptureType
<1>3. Ordered' /\ Copied'
  BY <1>1, <1>2 DEF PInv, Ordered, Copied, Others
<1>4. New' \subseteq New
  BY <1>1, NewStays DEF Others
<1>5. ASSUME NEW q \in Pools \ foreign PROVE KeepsTaken(q)
  <2>1. (HasHeld(q)' => HasHeld(q)) /\ ~HasCopied(q)' /\ ~HasCopied(q)
    BY <1>1, <1>2 DEF HasHeld, HasCopied
  <2>2. Owed(q)' = Owed(q) /\ Owed(q) \in Nat /\ Freeing(q)' = 0 /\ Freeing(q) \in Nat
    BY <1>1, <1>2, <2>1 DEF Owed, Freeing
  <2>3. q = attached => (capture.from \notin {NoPool, q} => ring[q].relWrite = 0)
    BY <1>1 DEF PInv, UsedOK, Paid
  <2>4. \A b \in Buffers: Takes(q, b)' => Takes(q, b)
    BY <1>2, <2>1 DEF Takes
  <2>. QED  BY <1>2, <2>1, <2>2, <2>3, <2>4 DEF KeepsTaken
<1>. QED  BY <1>1, <1>2, <1>3, <1>4, <1>5, CaptureStep DEF Others

\* The frame held is to be released, read or not.
LEMMA PToRelease ==
    ASSUME IInv, capture.pc \in {"taken", "reading"}, UNCHANGED <<Others, ring, foreign>>,
           capture' = [capture EXCEPT !.pc = "release"]
    PROVE  PInv'
<1>1. TypeOK /\ PInv
  BY DEF IInv, HInv
<1>2. /\ capture'.pc = "release" /\ capture'.pool = capture.pool /\ capture'.copied = capture.copied
      /\ capture'.held = capture.held /\ capture'.from = capture.from
  BY <1>1, StepTyped DEF Pcs, TypeOK, CaptureType
<1>3. Ordered' /\ Copied'
  BY <1>1, <1>2 DEF PInv, Ordered, Copied, Others
<1>4. New' \subseteq New
  BY <1>1, NewStays DEF Others
<1>5. ASSUME NEW q \in Pools \ foreign PROVE KeepsTaken(q)
  <2>1. (HasHeld(q)' => HasHeld(q)) /\ ~HasCopied(q)' /\ ~HasCopied(q)
    BY <1>1, <1>2 DEF HasHeld, HasCopied
  <2>2. Owed(q)' = Owed(q) /\ Owed(q) \in Nat /\ Freeing(q)' = 0 /\ Freeing(q) \in Nat
    BY <1>1, <1>2, <2>1 DEF Owed, Freeing
  <2>3. q = attached => (capture.from \notin {NoPool, q} => ring[q].relWrite = 0)
    BY <1>1 DEF PInv, UsedOK, Paid
  <2>4. \A b \in Buffers: Takes(q, b)' => Takes(q, b)
    BY <1>2, <2>1 DEF Takes
  <2>5. capture.from = q => capture.held \in Buffers
    BY <1>1 DEF PInv, PoolOK, Taken
  <2>. QED  BY <1>2, <2>1, <2>2, <2>3, <2>4, <2>5 DEF KeepsTaken
<1>. QED  BY <1>1, <1>2, <1>3, <1>4, <1>5, CaptureStep DEF Others

LEMMA PFrameCopied ==
    ASSUME IInv, FrameCopied
    PROVE  PInv'
  BY PToRelease DEF FrameCopied, At

LEMMA PAcquireLatest ==
    ASSUME IInv, AcquireLatest
    PROVE  PInv'
<1>1. TypeOK /\ PInv /\ capture.pc = "taken" /\ UNCHANGED <<Others, ring>>
  BY DEF IInv, HInv, AcquireLatest, At
<1>2. CASE received = NoPool
  <2>1. capture' = [capture EXCEPT !.pc = "release"] /\ foreign' = foreign
    BY <1>2 DEF AcquireLatest
  <2>. QED  BY <1>1, <2>1, PToRelease DEF Others
<1>3. CASE received # NoPool
  <2>. DEFINE c == [capture EXCEPT !.pc = "reading", !.pool = received]
  <2>1. capture' = c /\ received = attached /\ attached \in Pools
    BY <1>1, <1>3 DEF AcquireLatest, PInv, Ordered, TypeOK
  <2>2. /\ capture'.pc = "reading" /\ capture'.pool = attached
        /\ capture'.held = capture.held /\ capture'.from = capture.from
    BY <1>1, <2>1 DEF TypeOK, CaptureType
  <2>3. foreign' = IF attached = capture.from THEN foreign ELSE foreign \cup {attached}
    BY <1>3, <2>1 DEF AcquireLatest
  <2>4. capture.from \in Pools /\ capture.from <= attached
    BY <1>1, <2>1, Constants DEF PInv, Ordered, TypeOK, CaptureType
  <2>5. attached # capture.from => attached > 1
    BY <2>1, <2>4, Constants
  <2>6. attached <= attached
    BY <2>1, Constants
  <2>7. Ordered'
    BY <1>1, <2>1, <2>2, <2>3, <2>4, <2>5, <2>6, Constants DEF PInv, Ordered, Others
  <2>8. Copied'
    BY <2>2 DEF Copied
  <2>9. New' \subseteq New
    BY <1>1, NewStays DEF Others
  <2>10. ASSUME NEW q \in Pools \ foreign PROVE KeepsTaken(q)
    <3>1. (HasHeld(q)' => HasHeld(q)) /\ ~HasCopied(q)' /\ ~HasCopied(q)
      BY <1>1, <2>2 DEF HasHeld, HasCopied
    <3>2. Owed(q)' = Owed(q) /\ Owed(q) \in Nat /\ Freeing(q)' = 0 /\ Freeing(q) \in Nat
      BY <1>1, <2>2, <3>1 DEF Owed, Freeing
    <3>3. q = attached => (capture.from \notin {NoPool, q} => ring[q].relWrite = 0)
      BY <1>1 DEF PInv, UsedOK, Paid
    <3>4. \A b \in Buffers: Takes(q, b)' => Takes(q, b)
      BY <2>2, <3>1 DEF Takes
    <3>5. capture.from = q => capture.held \in Buffers
      BY <1>1 DEF PInv, PoolOK, Taken
    <3>. QED  BY <2>2, <3>1, <3>2, <3>3, <3>4, <3>5 DEF KeepsTaken
  <2>. QED  BY <1>1, <2>2, <2>3, <2>7, <2>8, <2>9, <2>10, CaptureStep DEF Others
<1>. QED  BY <1>2, <1>3

LEMMA PCopySlot ==
    ASSUME IInv, NEW p \in Pools, CopySlot(p)
    PROVE  PInv'
<1>. DEFINE s == IF At("drain") THEN "copied" ELSE "copiedLast"
            c == [capture EXCEPT !.pc = s, !.pool = p, !.index = ring[p].read,
                                 !.copied = ring[p].slots[ring[p].read % RingSize]]
<1>1. /\ TypeOK /\ PInv /\ capture.pc \in {"drain", "wait"} /\ p = attached
      /\ UNCHANGED <<Others, ring, foreign>> /\ ~(ring[p].read >= ring[p].write)
      /\ capture' = c
  BY ReachedIsAttached DEF IInv, HInv, CopySlot, At, Empty
<1>2. /\ capture'.pc = IF capture.pc = "drain" THEN "copied" ELSE "copiedLast"
      /\ capture'.pool = p /\ capture'.index = ring[p].read
      /\ capture'.copied = Slot(p, ring[p].read)
      /\ capture'.held = capture.held /\ capture'.from = capture.from
  BY <1>1 DEF TypeOK, CaptureType, At, Slot
<1>3. capture.from <= attached /\ attached <= attached
  BY <1>1, Constants DEF PInv, Ordered
<1>4. Ordered'
  BY <1>1, <1>2, <1>3, Constants DEF PInv, Ordered, Others
<1>5. Copied'
  <2>1. ring[p] \in RingType
    BY <1>1 DEF TypeOK
  <2>2. ring[p].read < ring[p].write
    BY <1>1, <2>1 DEF RingType
  <2>. QED  BY <1>1, <1>2, <2>2 DEF Copied, Slot
<1>6. New' \subseteq New
  BY <1>1, NewStays DEF Others
<1>7. ASSUME NEW q \in Pools \ foreign PROVE KeepsTaken(q)
  <2>1. (HasHeld(q)' => HasHeld(q)) /\ ~HasCopied(q)' /\ ~HasCopied(q)
    BY <1>1, <1>2 DEF HasHeld, HasCopied, PInv, Ordered
  <2>2. Owed(q)' = Owed(q) /\ Owed(q) \in Nat /\ Freeing(q)' = 0 /\ Freeing(q) \in Nat
    BY <1>1, <1>2, <2>1 DEF Owed, Freeing
  <2>3. q = attached => (capture.from \notin {NoPool, q} => ring[q].relWrite = 0)
    BY <1>1 DEF PInv, UsedOK, Paid
  <2>4. \A b \in Buffers: Takes(q, b)' => Takes(q, b)
    BY <1>2, <2>1 DEF Takes
  <2>. QED  BY <1>2, <2>1, <2>2, <2>3, <2>4 DEF KeepsTaken
<1>. QED  BY <1>1, <1>2, <1>4, <1>5, <1>6, <1>7, CaptureStep DEF Others

-----------------------------------------------------------------------------
\* The renderer's steps on its ring.

\* The frames submitted are counted.
LEMMA WriteBounded ==
    ASSUME IInv, NEW p \in Pools
    PROVE  ring[p].write \in Nat /\ ring[p].write <= frames /\ frames <= MaxFrames
           /\ frames \in Nat /\ ring[p].write <= MaxFrames
<1>1. ring[p].write \in Nat /\ frames \in Nat /\ MaxFrames \in Nat
  BY Constants DEF IInv, HInv, TypeOK, RingType
<1>2. frames <= MaxFrames /\ ring[p].write + (IF drawing[p] = NoBuffer THEN 0 ELSE 1) <= frames
  BY DEF IInv, PInv, Counted
<1>. QED  BY <1>1, <1>2

\* The renderer touches ring m alone, and leaves it and what it has of it in order.
RendererMoves(m) ==
    /\ \A q \in Pools: q # m => /\ ring'[q] = ring[q] /\ drawing'[q] = drawing[q]
                               /\ renderer'[q] = renderer[q]
    /\ frames <= frames' /\ frames' <= MaxFrames /\ frames' \in Nat
    /\ ring'[m].write + (IF drawing'[m] = NoBuffer THEN 0 ELSE 1) <= frames'
    /\ Filling(m)'
    /\ m \notin foreign => /\ PoolOK(m)' /\ (m = attached => UsedOK(m)')
                           /\ \A i \in Waiting(m): Slot(m, i)' = Slot(m, i)
                           /\ ring'[m].read = ring[m].read
                           /\ \A i \in Int: i < ring[m].write => i < ring'[m].write

LEMMA RendererStep ==
    ASSUME IInv, NEW m \in Pools, renderer[m].pc \in {"ready", "drained", "filled"},
           UNCHANGED <<conn, HalVars>>, RendererMoves(m)
    PROVE  PInv'
<1>. USE DEF RendererMoves
<1>1. PInv /\ HInv /\ TypeOK /\ capture' = capture /\ foreign' = foreign
      /\ attached' = attached
  BY DEF IInv, HInv, HalVars
<1>2. Untouched'
  <2>1. conn[m].state = "acked"
    BY <1>1 DEF HInv, Handshake, Acknowledged
  <2>2. New' = New /\ m \notin New
    BY <2>1 DEF New
  <2>3. \A p \in New': p \in Pools /\ p # m
    BY <2>2 DEF New
  <2>. QED  BY <1>1, <2>2, <2>3, UntouchedKept DEF PInv, Untouched, HalVars
<1>21. ASSUME NEW q \in Pools
       PROVE  ring'[q].write + (IF drawing'[q] = NoBuffer THEN 0 ELSE 1) <= frames'
  <2>1. CASE q = m
    BY <2>1
  <2>2. CASE q # m
    <3>1. ring'[q] = ring[q] /\ drawing'[q] = drawing[q]
      BY <2>2
    <3>2. ring[q].write + (IF drawing[q] = NoBuffer THEN 0 ELSE 1) <= frames
      BY <1>1 DEF PInv, Counted
    <3>3. ring[q].write \in Nat /\ frames \in Nat
      BY <1>1 DEF TypeOK, RingType
    <3>. QED  BY <3>1, <3>2, <3>3
  <2>. QED  BY <2>1, <2>2
<1>22. Filled'
  BY <1>1 DEF PInv, Filled, Filling, Slot
<1>3. Counted'
  BY <1>21 DEF Counted
<1>4. Ordered'
  BY <1>1 DEF PInv, Ordered, HalVars
<1>5. Copied'
  <2>. SUFFICES ASSUME capture.pc \in {"copied", "copiedLast"}, capture.pool \notin foreign
                PROVE  /\ capture.index = ring'[capture.pool].read
                       /\ capture.index < ring'[capture.pool].write
                       /\ capture.copied = ring'[capture.pool].slots[capture.index % RingSize]
    BY <1>1 DEF Copied, Slot
  <2>1. /\ capture.index = ring[capture.pool].read
        /\ capture.index < ring[capture.pool].write
        /\ capture.copied = Slot(capture.pool, capture.index)
        /\ capture.pool \in Pools
    BY <1>1 DEF PInv, Copied, Ordered, TypeOK, CaptureType
  <2>2. CASE capture.pool # m
    BY <2>1, <2>2 DEF Slot
  <2>3. CASE capture.pool = m
    <3>1. ring[m].read \in Nat /\ ring[m].write \in Nat
      <4>1. ring[m] \in RingType
        BY <1>1 DEF TypeOK
      <4>. QED  BY <4>1 DEF RingType
    <3>2. capture.index \in Waiting(m) /\ capture.index \in Int
      BY <2>1, <2>3, <3>1 DEF Waiting
    <3>3. Slot(m, capture.index)' = Slot(m, capture.index)
      <4>1. \A i \in Waiting(m): ring'[m].slots[i % RingSize] = Slot(m, i)
        BY <2>3 DEF Slot
      <4>. QED  BY <1>1, <3>2, <4>1 DEF Slot
    <3>. QED  BY <1>1, <2>1, <2>3, <3>2, <3>3 DEF Slot
  <2>. QED  BY <2>2, <2>3
<1>6. ASSUME NEW q \in Pools \ foreign' PROVE PoolOK(q)' /\ (q = attached' => UsedOK(q)')
  <2>1. CASE q = m
    BY <1>1, <1>6, <2>1
  <2>2. CASE q # m
    BY <1>1, <1>6, <2>2, PoolStays, UsedStays DEF PInv
  <2>. QED  BY <2>1, <2>2
<1>. QED  BY <1>2, <1>3, <1>4, <1>5, <1>6, <1>22 DEF PInv

LEMMA MarkedCount ==
    ASSUME NEW q, NEW S \in SUBSET Marked(q)
    PROVE  /\ IsFiniteSet(Marked(q)) /\ Cardinality(Marked(q)) \in Nat
           /\ Cardinality(Marked(q)) <= NumBuffers
           /\ IsFiniteSet(S) /\ Cardinality(S) \in Nat /\ Cardinality(S) <= Cardinality(Marked(q))
<1>1. IsFiniteSet(Buffers) /\ Cardinality(Buffers) = NumBuffers
  BY FS_Interval, Constants DEF Buffers
<1>2. Marked(q) \subseteq Buffers
  BY DEF Marked
<1>. QED  BY <1>1, <1>2, FS_Subset, FS_CardinalityType

\* A pool whose buffers are marked as they were, but for one nobody uses.
LEMMA Unmarked ==
    ASSUME TypeOK, NEW m \in Pools, NEW b, PoolOK(m), UNCHANGED capture,
           ring'[m] = [ring[m] EXCEPT !.state = [ring[m].state EXCEPT ![b] = 0]],
           drawing'[m] = NoBuffer, drawing[m] = b,
           renderer'[m].pc # "drained"
    PROVE  PoolOK(m)' /\ (UsedOK(m) => UsedOK(m)')
<1>1. ring[m] \in RingType
  BY DEF TypeOK
<1>2. /\ ring'[m].write = ring[m].write /\ ring'[m].read = ring[m].read
      /\ ring'[m].slots = ring[m].slots /\ ring'[m].relWrite = ring[m].relWrite
      /\ ring'[m].relRead = ring[m].relRead
      /\ \A c \in Buffers: ring'[m].state[c] = IF c = b THEN 0 ELSE ring[m].state[c]
  BY <1>1 DEF RingType
<1>3. Rings(m)' /\ Drawn(m)'
  BY <1>2 DEF PoolOK, Rings, Drawn
<1>4. Queues(m)'
  BY <1>2, Constants DEF PoolOK, Queues, Slot, Waiting
<1>5. Taken(m)'
  BY <1>2, Constants DEF PoolOK, Taken, Takes, HasHeld, HasCopied
<1>6. ASSUME UsedOK(m) PROVE UsedOK(m)'
  <2>1. Apart(m)'
    BY <1>2, <1>6 DEF UsedOK, Apart, Slot, Waiting, Takes, HasHeld, HasCopied
  <2>2. Paid(m)'
    BY <1>2, <1>6 DEF UsedOK, Paid, Owed, HasCopied
  <2>3. Marked(m)' \subseteq Marked(m)
    BY <1>2 DEF Marked
  <2>4. Cardinality(Marked(m)') \in Nat /\ Cardinality(Marked(m)') <= Cardinality(Marked(m))
        /\ Cardinality(Marked(m)) \in Nat
    BY <2>3, MarkedCount
  <2>5. ring[m].relWrite \in Nat /\ ring[m].relRead \in Nat /\ Freeing(m) \in Nat /\ Freeing(m)' = Freeing(m)
    BY <1>1 DEF RingType, Freeing
  <2>6. Room(m)'
    <3>1. ring[m].relWrite - ring[m].relRead + Freeing(m) + Cardinality(Marked(m)) <= Bound(m)
      BY <1>6 DEF UsedOK, Room
    <3>2. Bound(m) \in Nat /\ Bound(m)' \in Nat /\ Bound(m) <= Bound(m)'
      BY BoundRelaxes
    <3>3. ring'[m].relWrite - ring'[m].relRead + Freeing(m)' + Cardinality(Marked(m)') <= Bound(m)'
      BY <1>2, <2>4, <2>5, <3>1, <3>2
    <3>. QED  BY <3>3 DEF Room
  <2>. QED  BY <2>1, <2>2, <2>6 DEF UsedOK
<1>. QED  BY <1>3, <1>4, <1>5, <1>6 DEF PoolOK

LEMMA RingFields ==
    ASSUME TypeOK, NEW m \in Pools
    PROVE  /\ ring[m] \in RingType /\ ring[m].read \in Nat /\ ring[m].write \in Nat
           /\ ring[m].relRead \in Nat /\ ring[m].relWrite \in Nat
           /\ ring[m].state \in [Buffers -> {0, 1}]
           /\ ring[m].slots \in [0 .. RingSize - 1 -> Buffers \cup {NoBuffer}]
           /\ Freeing(m) \in Nat /\ Owed(m) \in Nat
<1>1. ring[m] \in RingType
  <2>1. ring \in [Pools -> RingType]
    BY DEF TypeOK
  <2>. QED  BY <2>1
<1>. QED  BY <1>1 DEF RingType, Freeing, Owed

LEMMA PDrainReleases ==
    ASSUME IInv, NEW m \in Pools, DrainReleases(m)
    PROVE  PInv'
<1>1. /\ PInv /\ HInv /\ TypeOK /\ renderer[m].pc = "ready" /\ UNCHANGED <<frames, drawing, conn, HalVars>>
      /\ Renderer(m, "drained") /\ drawing[m] = NoBuffer
  BY DEF IInv, HInv, DrainReleases
<1>2. /\ \A q \in Pools: q # m => ring'[q] = ring[q] /\ renderer'[q] = renderer[q]
      /\ ring'[m] = [ring[m] EXCEPT !.relRead = ReleasesRead(m)] /\ renderer'[m].pc = "drained"
  BY <1>1, DrainEffect, RendererEffect
<1>3. /\ ring'[m].write = ring[m].write /\ ring'[m].read = ring[m].read
      /\ ring'[m].slots = ring[m].slots /\ ring'[m].relWrite = ring[m].relWrite
      /\ ring'[m].relRead = ReleasesRead(m) /\ ring'[m].state = ring[m].state
  BY <1>1, <1>2, RingFields DEF RingType
<1>4. ASSUME m \notin foreign PROVE PoolOK(m)' /\ (m = attached => UsedOK(m)')
  <2>1. PoolOK(m) /\ (m = attached => UsedOK(m)) /\ UNCHANGED capture
    BY <1>1, <1>4 DEF PInv, HalVars
  <2>2. ring'[m].relRead = ring[m].relWrite
    BY <1>1, <1>3, <2>1, RingFields DEF PoolOK, Rings, ReleasesRead, Empty
  <2>3. Rings(m)'
    BY <1>1, <1>3, <2>1, <2>2, RingFields DEF PoolOK, Rings
  <2>4. Drawn(m)' /\ Queues(m)'
    BY <1>1, <1>3, <2>1 DEF PoolOK, Drawn, Queues, Slot, Waiting
  <2>5. Taken(m)'
    BY <1>1, <1>3, <2>1 DEF PoolOK, Taken, Takes, HasHeld, HasCopied
  <2>6. ASSUME m = attached PROVE UsedOK(m)'
    <3>1. Apart(m)'
      BY <1>3, <2>1, <2>6 DEF UsedOK, Apart, Slot, Waiting, Takes, HasHeld, HasCopied
    <3>2. Paid(m)'
      BY <1>3, <2>1, <2>6 DEF UsedOK, Paid, Owed, HasCopied
    <3>3. Marked(m)' = Marked(m)
      BY <1>3 DEF Marked
    <3>4. Cardinality(Marked(m)) \in Nat /\ Cardinality(Marked(m)) <= NumBuffers
      BY MarkedCount
    <3>5. Freeing(m)' \in 0 .. 1 /\ Bound(m)' = NumBuffers + 1
      BY <1>2 DEF Freeing, Bound
    <3>6. ring'[m].relWrite - ring'[m].relRead + Freeing(m)' + Cardinality(Marked(m)') <= Bound(m)'
      BY <1>1, <1>3, <2>2, <3>3, <3>4, <3>5, RingFields, Constants
    <3>. QED  BY <3>1, <3>2, <3>6 DEF UsedOK, Room
  <2>. QED  BY <2>3, <2>4, <2>5, <2>6 DEF PoolOK
<1>5. ring'[m].write + (IF drawing'[m] = NoBuffer THEN 0 ELSE 1) <= frames'
      /\ frames <= frames' /\ frames' <= MaxFrames /\ frames' \in Nat
  BY <1>1, <1>3 DEF PInv, Counted, TypeOK
<1>6. Filling(m)'
  BY <1>1, <1>2 DEF Filling
<1>7. /\ \A i \in Waiting(m): Slot(m, i)' = Slot(m, i)
      /\ ring'[m].read = ring[m].read
      /\ \A i \in Int: i < ring[m].write => i < ring'[m].write
  BY <1>3 DEF Slot
<1>8. RendererMoves(m)
  BY <1>1, <1>2, <1>4, <1>5, <1>6, <1>7 DEF RendererMoves
<1>. QED  BY <1>1, <1>8, RendererStep

\* A buffer is taken that nobody had.
LEMMA PAcquireTakes ==
    ASSUME IInv, NEW m \in Pools, NEW b \in Buffers, UNCHANGED <<conn, HalVars>>,
           renderer[m].pc = "drained", renderer'[m].pc = "ready",
           \A q \in Pools: q # m => /\ ring'[q] = ring[q] /\ drawing'[q] = drawing[q]
                                   /\ renderer'[q] = renderer[q],
           ring[m].state[b] = 0, drawing'[m] = b, frames < MaxFrames, frames' = frames + 1,
           ring'[m] = [ring[m] EXCEPT !.state = [ring[m].state EXCEPT ![b] = 1]]
    PROVE  PInv'
<1>1. PInv /\ HInv /\ TypeOK /\ drawing[m] = NoBuffer /\ frames \in Nat
  BY DEF IInv, HInv, PInv, Filled, Filling, TypeOK
<1>2. /\ ring'[m].write = ring[m].write /\ ring'[m].read = ring[m].read
      /\ ring'[m].slots = ring[m].slots /\ ring'[m].relWrite = ring[m].relWrite
      /\ ring'[m].relRead = ring[m].relRead
      /\ ring'[m].state = [ring[m].state EXCEPT ![b] = 1]
  BY <1>1, RingFields DEF RingType
<1>3. \A c \in Buffers: /\ ring'[m].state[c] = 1 <=> (ring[m].state[c] = 1 \/ c = b)
                         /\ ring[m].state[c] = 1 => c # b
  BY <1>1, <1>2, RingFields
<1>4. ASSUME m \notin foreign PROVE PoolOK(m)' /\ (m = attached => UsedOK(m)')
  <2>1. PoolOK(m) /\ (m = attached => UsedOK(m)) /\ UNCHANGED capture
    BY <1>1, <1>4 DEF PInv, HalVars
  <2>2. Rings(m)' /\ Drawn(m)'
    BY <1>2, <1>3, <2>1 DEF PoolOK, Rings, Drawn
  <2>3. Queues(m)'
    BY <1>2, <1>3, <2>1 DEF PoolOK, Queues, Slot, Waiting
  <2>4. Taken(m)'
    BY <1>2, <1>3, <2>1 DEF PoolOK, Taken, Takes, HasHeld, HasCopied
  <2>5. ASSUME m = attached PROVE UsedOK(m)'
    <3>1. Apart(m)'
      BY <1>2, <2>1, <2>5 DEF UsedOK, Apart, Slot, Waiting, Takes, HasHeld, HasCopied
    <3>2. Paid(m)'
      BY <1>2, <2>1, <2>5 DEF UsedOK, Paid, Owed, HasCopied
    <3>3. Room(m)'
      <4>1. Marked(m)' = Marked(m) \cup {b} /\ b \notin Marked(m)
        BY <1>3 DEF Marked
      <4>2. IsFiniteSet(Marked(m)) /\ Cardinality(Marked(m)) \in Nat
        BY MarkedCount
      <4>3. Cardinality(Marked(m)') = Cardinality(Marked(m)) + 1
        BY <4>1, <4>2, FS_AddElement, Zenon
      <4>4. ring[m].relWrite - ring[m].relRead + Freeing(m) + Cardinality(Marked(m)) <= NumBuffers + 1
        BY <2>1, <2>5 DEF UsedOK, Room, Bound
      <4>5. /\ ring[m].relWrite \in Nat /\ ring[m].relRead \in Nat
            /\ Freeing(m)' = Freeing(m) /\ Freeing(m) \in Nat
        BY <1>1, <2>1, RingFields DEF Freeing
      <4>6. Bound(m)' = NumBuffers + 2 /\ NumBuffers \in Nat
        BY Constants DEF Bound
      <4>7. ring[m].relWrite - ring[m].relRead + Freeing(m)' + Cardinality(Marked(m)') <= Bound(m)'
        BY <4>2, <4>3, <4>4, <4>5, <4>6
      <4>. QED  BY <1>2, <4>7 DEF Room
    <3>. QED  BY <3>1, <3>2, <3>3 DEF UsedOK
  <2>. QED  BY <2>2, <2>3, <2>4, <2>5 DEF PoolOK
<1>5. ring'[m].write + (IF drawing'[m] = NoBuffer THEN 0 ELSE 1) <= frames'
      /\ frames <= frames' /\ frames' <= MaxFrames /\ frames' \in Nat
  <2>1. ring[m].write \in Nat /\ MaxFrames \in Nat
    BY <1>1, RingFields, Constants
  <2>2. ring[m].write + 0 <= frames
    BY <1>1 DEF PInv, Counted
  <2>. QED  BY <1>1, <1>2, <2>1, <2>2
<1>6. Filling(m)'
  BY DEF Filling
<1>7. /\ \A i \in Waiting(m): Slot(m, i)' = Slot(m, i)
      /\ ring'[m].read = ring[m].read
      /\ \A i \in Int: i < ring[m].write => i < ring'[m].write
  BY <1>2 DEF Slot
<1>8. RendererMoves(m)
  BY <1>4, <1>5, <1>6, <1>7 DEF RendererMoves
<1>. QED  BY <1>8, RendererStep

LEMMA PAcquireFreeBuffer ==
    ASSUME IInv, NEW m \in Pools, AcquireFreeBuffer(m)
    PROVE  PInv'
<1>1. TypeOK /\ UNCHANGED <<conn, HalVars>> /\ renderer[m].pc = "drained"
  BY DEF IInv, HInv, AcquireFreeBuffer
<1>2. CASE ring' = ring /\ drawing' = drawing /\ frames' = frames
  <2>1. New' \subseteq New
    BY <1>1, NewStays
  <2>2. \A q \in Pools: renderer'[q].pc \in {"drained", "filled"} => renderer[q].pc = renderer'[q].pc
    BY <1>1, AcquireEffect
  <2>. QED  BY <1>1, <1>2, <2>1, <2>2, ConnectionRests DEF HalVars
<1>3. ASSUME NEW b \in Buffers,
             ring[m].state[b] = 0, drawing'[m] = b, renderer'[m].pc = "ready",
             ring'[m] = [ring[m] EXCEPT !.state = [ring[m].state EXCEPT ![b] = 1]],
             frames < MaxFrames, frames' = frames + 1
      PROVE  PInv'
  <2>1. \A q \in Pools: q # m => /\ ring'[q] = ring[q] /\ drawing'[q] = drawing[q]
                                /\ renderer'[q] = renderer[q]
    BY <1>1, AcquireEffect, Zenon
  <2>. QED  BY <1>1, <1>3, <2>1, PAcquireTakes
<1>. QED  BY <1>1, <1>2, <1>3, AcquireEffect, Zenon

LEMMA PShutdown ==
    ASSUME IInv, NEW m \in Pools, Shutdown(m)
    PROVE  PInv'
<1>1. /\ PInv /\ HInv /\ TypeOK /\ renderer[m].pc = "ready" /\ UNCHANGED <<frames, conn, HalVars>>
      /\ Renderer(m, "off")
  BY DEF IInv, HInv, Shutdown
<1>2. renderer'[m].pc = "off" /\ \A q \in Pools: q # m => renderer'[q] = renderer[q]
  BY <1>1, RendererEffect
<1>3. /\ \A q \in Pools: q # m => ring'[q] = ring[q] /\ drawing'[q] = drawing[q]
      /\ drawing'[m] = NoBuffer
      /\ \/ drawing[m] = NoBuffer /\ ring' = ring
         \/ /\ drawing[m] \in Buffers
            /\ ring'[m] = [ring[m] EXCEPT !.state = [ring[m].state EXCEPT ![drawing[m]] = 0]]
  BY <1>1, ShutdownEffect
<1>4. /\ ring'[m].write = ring[m].write /\ ring'[m].read = ring[m].read
      /\ ring'[m].slots = ring[m].slots
  BY <1>1, <1>3, RingFields, Zenon DEF RingType
<1>5. ASSUME m \notin foreign PROVE PoolOK(m)' /\ (m = attached => UsedOK(m)')
  <2>1. PoolOK(m) /\ (m = attached => UsedOK(m)) /\ UNCHANGED capture
    BY <1>1, <1>5 DEF PInv, HalVars
  <2>2. CASE drawing[m] = NoBuffer /\ ring' = ring
    BY <1>1, <1>2, <1>3, <2>1, <2>2, PoolStays, UsedStays
  <2>3. CASE ring'[m] = [ring[m] EXCEPT !.state = [ring[m].state EXCEPT ![drawing[m]] = 0]]
    BY <1>1, <1>2, <1>3, <2>1, <2>3, Unmarked, Zenon
  <2>. QED  BY <1>3, <2>2, <2>3
<1>6. /\ ring'[m].write + (IF drawing'[m] = NoBuffer THEN 0 ELSE 1) <= frames'
      /\ frames <= frames' /\ frames' <= MaxFrames /\ frames' \in Nat
  BY <1>1, <1>3, <1>4, WriteBounded
<1>7. Filling(m)'
  BY <1>1, <1>2 DEF Filling
<1>8. /\ \A i \in Waiting(m): Slot(m, i)' = Slot(m, i)
      /\ ring'[m].read = ring[m].read
      /\ \A i \in Int: i < ring[m].write => i < ring'[m].write
  BY <1>4 DEF Slot
<1>20. RendererMoves(m)
  BY <1>1, <1>2, <1>3, <1>5, <1>6, <1>7, <1>8 DEF RendererMoves
<1>. QED  BY <1>1, <1>20, RendererStep

LEMMA PFillSlotFull ==
    ASSUME IInv, NEW m \in Pools, FillSlot(m), Full(ring[m].write, ring[m].read)
    PROVE  PInv'
<1>1. /\ PInv /\ HInv /\ TypeOK /\ renderer[m].pc = "ready" /\ UNCHANGED <<frames, conn, HalVars>>
  BY DEF IInv, HInv, FillSlot
<1>2. renderer' = renderer
  BY <1>1, FillSlotEffect
<1>3. /\ \A q \in Pools: q # m => ring'[q] = ring[q] /\ drawing'[q] = drawing[q]
      /\ drawing'[m] = NoBuffer
      /\ ring'[m] = [ring[m] EXCEPT !.state = [ring[m].state EXCEPT ![drawing[m]] = 0]]
  BY <1>1, FillSlotEffect DEF TypeOK
<1>4. /\ ring'[m].write = ring[m].write /\ ring'[m].read = ring[m].read
      /\ ring'[m].slots = ring[m].slots
  BY <1>1, <1>3, RingFields DEF RingType
<1>5. ASSUME m \notin foreign PROVE PoolOK(m)' /\ (m = attached => UsedOK(m)')
  <2>1. /\ PoolOK(m) /\ (m = attached => UsedOK(m)) /\ UNCHANGED <<capture, attached>>
        /\ renderer'[m].pc # "drained"
    BY <1>1, <1>2, <1>5 DEF PInv, HalVars
  <2>. QED  BY <1>1, <1>3, <2>1, Unmarked, Zenon
<1>6. /\ ring'[m].write + (IF drawing'[m] = NoBuffer THEN 0 ELSE 1) <= frames'
      /\ frames <= frames' /\ frames' <= MaxFrames /\ frames' \in Nat
  BY <1>1, <1>3, <1>4, WriteBounded
<1>7. Filling(m)'
  BY <1>1, <1>2 DEF Filling
<1>8. /\ \A i \in Waiting(m): Slot(m, i)' = Slot(m, i)
      /\ ring'[m].read = ring[m].read
      /\ \A i \in Int: i < ring[m].write => i < ring'[m].write
  BY <1>4 DEF Slot
<1>20. RendererMoves(m)
  BY <1>1, <1>2, <1>3, <1>5, <1>6, <1>7, <1>8 DEF RendererMoves
<1>. QED  BY <1>1, <1>20, RendererStep

\* The number of frames in the ring, below the span of the indices.
LEMMA InRing ==
    ASSUME NEW w \in Nat, NEW r \in Nat, r <= w, w <= MaxFrames, MaxFrames < IndexSpan
    PROVE  Wrap(w - r) = w - r /\ (Full(w, r) <=> w - r >= RingSize)
<1>1. w - r \in Nat /\ w - r <= MaxFrames
  BY Constants
<1>2. Wrap(w - r) = w - r
  BY <1>1, WrapSmall
<1>. QED  BY <1>2 DEF Full

LEMMA PFillSlot ==
    ASSUME MaxFrames < IndexSpan, IInv, NEW m \in Pools, FillSlot(m), ~Full(ring[m].write, ring[m].read)
    PROVE  PInv'
<1>1. /\ PInv /\ HInv /\ TypeOK /\ renderer[m].pc = "ready" /\ UNCHANGED <<frames, conn, HalVars>>
      /\ drawing[m] \in Buffers /\ drawing' = drawing /\ Renderer(m, "filled")
  BY FillSlotEffect DEF IInv, HInv, FillSlot
<1>2. renderer'[m].pc = "filled" /\ \A q \in Pools: q # m => renderer'[q] = renderer[q]
  BY <1>1, RendererEffect
<1>. DEFINE k == ring[m].write % RingSize
<1>3. /\ \A q \in Pools: q # m => ring'[q] = ring[q] /\ drawing'[q] = drawing[q]
      /\ ring'[m] = [ring[m] EXCEPT !.slots = [ring[m].slots EXCEPT ![k] = drawing[m]]]
  BY <1>1, FillSlotEffect
<1>4. k \in 0 .. RingSize - 1
  <2>1. ring[m].write \in Int /\ RingSize \in Nat \ {0}
    BY <1>1, RingFields, Constants
  <2>. QED  BY <2>1, ModRange, Zenon
<1>5. /\ ring'[m].write = ring[m].write /\ ring'[m].read = ring[m].read
      /\ ring'[m].relWrite = ring[m].relWrite /\ ring'[m].relRead = ring[m].relRead
      /\ ring'[m].state = ring[m].state
      /\ ring'[m].slots = [ring[m].slots EXCEPT ![k] = drawing[m]]
  BY <1>1, <1>3, RingFields DEF RingType
<1>. HIDE DEF k
<1>6. ring'[m].slots[k] = drawing[m]
      /\ \A i \in 0 .. RingSize - 1: i # k => ring'[m].slots[i] = ring[m].slots[i]
  BY <1>1, <1>4, <1>5, RingFields, Zenon
<1>7. ASSUME m \notin foreign
      PROVE  /\ ring[m].write < ring[m].read + RingSize
             /\ \A i \in Waiting(m): ring'[m].slots[i % RingSize] = Slot(m, i)
  <2>1. /\ ring[m].read <= ring[m].write /\ ring[m].write <= MaxFrames
    BY <1>1, <1>7, WriteBounded DEF PInv, PoolOK, Rings
  <2>2. ring[m].write - ring[m].read < RingSize
    BY <1>1, <2>1, RingFields, InRing, Constants
  <2>3. ASSUME NEW i \in Waiting(m) PROVE ring'[m].slots[i % RingSize] = Slot(m, i)
    <3>1. i \in Nat /\ i < ring[m].write /\ ring[m].write - i < RingSize
      <4>1. ring[m].read \in Nat /\ ring[m].write \in Nat
        BY <1>1, RingFields
      <4>2. i \in ring[m].read .. ring[m].write - 1
        BY DEF Waiting
      <4>. QED  BY <2>2, <4>1, <4>2, BehindWrite, Zenon
    <3>2. ring[m].write \in Nat /\ RingSize \in Nat /\ i \in Int /\ RingSize \in Nat \ {0}
      BY <1>1, <3>1, RingFields, Constants
    <3>3. i % RingSize # k
      BY <3>1, <3>2, ModApart DEF k
    <3>4. i % RingSize \in 0 .. RingSize - 1
      BY <3>2, ModRange
    <3>. QED  BY <1>6, <3>3, <3>4 DEF Slot
  <2>. QED  BY <1>1, <2>2, <2>3, RingFields, Constants
<1>8. ASSUME m \notin foreign PROVE \A i \in Waiting(m): Slot(m, i)' = Slot(m, i)
  BY <1>7, <1>8 DEF Slot
<1>9. ASSUME m \notin foreign PROVE PoolOK(m)' /\ (m = attached => UsedOK(m)')
  <2>1. PoolOK(m) /\ (m = attached => UsedOK(m)) /\ UNCHANGED capture
    BY <1>1, <1>9 DEF PInv, HalVars
  <2>2. Waiting(m)' = Waiting(m)
    BY <1>5 DEF Waiting
  <2>3. Rings(m)' /\ Drawn(m)'
    BY <1>1, <1>5, <2>1 DEF PoolOK, Rings, Drawn
  <2>4. Queues(m)'
    BY <1>1, <1>5, <1>8, <1>9, <2>1, <2>2 DEF PoolOK, Queues
  <2>5. Taken(m)'
    BY <1>1, <1>5, <2>1 DEF PoolOK, Taken, Takes, HasHeld, HasCopied
  <2>6. ASSUME m = attached PROVE UsedOK(m)'
    <3>1. Apart(m)'
      BY <1>8, <1>9, <2>1, <2>2, <2>6 DEF UsedOK, Apart, Takes, HasHeld, HasCopied
    <3>2. Paid(m)'
      BY <1>5, <2>1, <2>6 DEF UsedOK, Paid, Owed, HasCopied
    <3>3. Room(m)'
      BY <1>1, <1>2, <1>5, <2>1, <2>6 DEF UsedOK, Room, Bound, Freeing, Marked
    <3>. QED  BY <3>1, <3>2, <3>3 DEF UsedOK
  <2>. QED  BY <2>3, <2>4, <2>5, <2>6 DEF PoolOK
<1>10. /\ ring'[m].write + (IF drawing'[m] = NoBuffer THEN 0 ELSE 1) <= frames'
      /\ frames <= frames' /\ frames' <= MaxFrames /\ frames' \in Nat
   BY <1>1, <1>5 DEF PInv, Counted, TypeOK
<1>11. Filling(m)'
  <2>1. foreign' = foreign /\ drawing'[m] # NoBuffer /\ renderer'[m].pc # "drained"
    BY <1>1, <1>2, Constants DEF HalVars
  <2>2. ring'[m].slots[ring'[m].write % RingSize] = drawing'[m]
    BY <1>1, <1>5, <1>6 DEF k
  <2>. QED  BY <1>5, <1>7, <2>1, <2>2, Zenon DEF Filling, Slot
<1>12. /\ ring'[m].read = ring[m].read
       /\ \A i \in Int: i < ring[m].write => i < ring'[m].write
  BY <1>5
<1>20. RendererMoves(m)
  BY <1>1, <1>2, <1>3, <1>8, <1>9, <1>10, <1>11, <1>12 DEF RendererMoves
<1>. QED  BY <1>1, <1>20, RendererStep

LEMMA PPublishSlot ==
    ASSUME MaxFrames < IndexSpan, IInv, NEW m \in Pools, PublishSlot(m)
    PROVE  PInv'
<1>1. /\ PInv /\ HInv /\ TypeOK /\ renderer[m].pc = "filled" /\ UNCHANGED <<frames, conn, HalVars>>
      /\ Renderer(m, "ready")
  BY DEF IInv, HInv, PublishSlot
<1>2. renderer'[m].pc = "ready" /\ \A q \in Pools: q # m => renderer'[q] = renderer[q]
  BY <1>1, RendererEffect
<1>3. /\ \A q \in Pools: q # m => ring'[q] = ring[q] /\ drawing'[q] = drawing[q]
      /\ drawing'[m] = NoBuffer
      /\ ring'[m] = [ring[m] EXCEPT !.write = Wrap(ring[m].write + 1)]
  BY <1>1, PublishSlotEffect
<1>4. drawing[m] # NoBuffer /\ ring[m].write \in Nat /\ frames \in Nat /\ frames <= MaxFrames
      /\ (m \notin foreign => /\ ring[m].write < ring[m].read + RingSize
                               /\ Slot(m, ring[m].write) = drawing[m])
  BY <1>1, WriteBounded DEF PInv, Filled, Filling
<1>5. /\ ring[m].write + 1 \in Nat /\ ring[m].write + 1 <= frames
      /\ ring[m].write + 1 <= MaxFrames
  <2>1. ring[m].write + (IF drawing[m] = NoBuffer THEN 0 ELSE 1) <= frames
    BY <1>1 DEF PInv, Counted
  <2>. QED  BY <1>4, <2>1, Constants
<1>6. Wrap(ring[m].write + 1) = ring[m].write + 1
  BY <1>5, WrapSmall
<1>7. /\ ring'[m].write = ring[m].write + 1 /\ ring'[m].read = ring[m].read
      /\ ring'[m].relWrite = ring[m].relWrite /\ ring'[m].relRead = ring[m].relRead
      /\ ring'[m].state = ring[m].state /\ ring'[m].slots = ring[m].slots
  BY <1>1, <1>3, <1>6, RingFields DEF RingType
<1>8. ASSUME NEW i \in Int PROVE Slot(m, i)' = Slot(m, i)
  BY <1>7 DEF Slot
<1>9. ASSUME m \notin foreign PROVE PoolOK(m)' /\ (m = attached => UsedOK(m)')
  <2>1. /\ PoolOK(m) /\ (m = attached => UsedOK(m)) /\ UNCHANGED capture
        /\ ring[m].write < ring[m].read + RingSize /\ Slot(m, ring[m].write) = drawing[m]
        /\ drawing[m] \in Buffers /\ ring[m].state[drawing[m]] = 1
    BY <1>1, <1>4, <1>9 DEF PInv, HalVars, TypeOK, PoolOK, Drawn
  <2>2. /\ \A i \in Waiting(m)': i \in Int /\ (i \in Waiting(m) \/ i = ring[m].write)
        /\ ring[m].write \notin Waiting(m)
    BY <1>1, <1>7, RingFields DEF Waiting
  <2>3. Rings(m)' /\ Drawn(m)'
    <3>1. /\ ring[m].read <= ring[m].write /\ ring[m].write < ring[m].read + RingSize
          /\ ring[m].relRead <= ring[m].relWrite
      BY <2>1 DEF PoolOK, Rings
    <3>2. /\ ring[m].read <= ring[m].write + 1 /\ ring[m].write + 1 <= ring[m].read + RingSize
      <4>1. ring[m].read \in Nat /\ ring[m].write \in Nat /\ RingSize \in Nat
        BY <1>1, RingFields, Constants
      <4>. QED  BY <3>1, <4>1
    <3>. QED  BY <1>3, <1>7, <3>1, <3>2 DEF Rings, Drawn
  <2>4. \A i \in Waiting(m)': Slot(m, i) \in Buffers /\ ring[m].state[Slot(m, i)] = 1
    BY <2>1, <2>2 DEF PoolOK, Queues
  <2>5. \A i, j \in Waiting(m)': i # j => Slot(m, i) # Slot(m, j)
    BY <2>1, <2>2 DEF PoolOK, Queues
  <2>6. Queues(m)'
    BY <1>3, <1>7, <1>8, <2>2, <2>4, <2>5, Constants DEF Queues
  <2>7. Taken(m)'
    BY <1>3, <1>7, <2>1, Constants DEF PoolOK, Taken, Takes, HasHeld, HasCopied
  <2>8. ASSUME m = attached PROVE UsedOK(m)'
    <3>1. ASSUME NEW b \in Buffers, Takes(m, b), NEW i \in Waiting(m)' PROVE Slot(m, i) # b
      BY <2>1, <2>2, <2>8, <3>1 DEF PoolOK, Taken, UsedOK, Apart
    <3>2. Apart(m)'
      BY <1>8, <2>1, <2>2, <2>8, <3>1 DEF UsedOK, Apart, Takes, HasHeld, HasCopied
    <3>3. Paid(m)'
      BY <1>7, <2>1, <2>8 DEF UsedOK, Paid, Owed, HasCopied
    <3>4. Room(m)'
      BY <1>1, <1>2, <1>7, <2>1, <2>8 DEF UsedOK, Room, Bound, Freeing, Marked
    <3>. QED  BY <3>2, <3>3, <3>4 DEF UsedOK
  <2>. QED  BY <2>3, <2>6, <2>7, <2>8 DEF PoolOK
<1>10. /\ ring'[m].write + (IF drawing'[m] = NoBuffer THEN 0 ELSE 1) <= frames'
      /\ frames <= frames' /\ frames' <= MaxFrames /\ frames' \in Nat
   BY <1>1, <1>3, <1>4, <1>5, <1>7
<1>11. Filling(m)'
  BY <1>1, <1>2 DEF Filling
<1>12. /\ \A i \in Waiting(m): Slot(m, i)' = Slot(m, i)
       /\ ring'[m].read = ring[m].read
       /\ \A i \in Int: i < ring[m].write => i < ring'[m].write
  BY <1>1, <1>7, <1>8, RingFields DEF Waiting
<1>20. RendererMoves(m)
  BY <1>1, <1>2, <1>3, <1>9, <1>10, <1>11, <1>12 DEF RendererMoves
<1>. QED  BY <1>1, <1>20, RendererStep

-----------------------------------------------------------------------------
\* The capture thread's steps on the ring attached.

LEMMA HalRingStep ==
    ASSUME IInv, NEW p \in Pools, p = attached, UNCHANGED Others,
           \A q \in Pools: q # p => ring'[q] = ring[q],
           ring'[p].write = ring[p].write, ring'[p].slots = ring[p].slots,
           p \notin foreign' => ring[p].read <= ring'[p].read /\ ring'[p].read \in Nat,
           capture'.pc \notin {"copied", "copiedLast"},
           capture'.pool \in {capture.pool, NoPool},
           capture'.from \in {capture.from, capture.pool, NoPool},
           foreign \subseteq foreign', Ordered',
           \A q \in Pools \ foreign': q # p => KeepsTaken(q) \/ PoolOK(q)',
           p \notin foreign' => PoolOK(p)' /\ UsedOK(p)'
    PROVE  PInv'
<1>1. PInv /\ HInv /\ TypeOK
  BY DEF IInv, HInv
<1>2. Untouched'
  <2>1. New' \subseteq New
    BY NewStays DEF Others
  <2>2. p \notin New'
    BY <1>1, <2>1 DEF PInv, Untouched
  <2>3. \A q \in New': q \in Pools /\ q # p
    BY <2>2 DEF New
  <2>. QED  BY <1>1, <2>1, <2>3, Constants, UntouchedKept DEF PInv, Untouched, Others
<1>3. Counted'
  BY <1>1 DEF PInv, Counted, Others
<1>4. Copied'
  BY DEF Copied
<1>5. Filled'
  <2>. SUFFICES ASSUME NEW m \in Pools PROVE Filling(m)'
    BY DEF Filled
  <2>1. Filling(m) /\ renderer' = renderer /\ drawing' = drawing
    BY <1>1 DEF PInv, Filled, Others
  <2>2. CASE m # p
    BY <2>1, <2>2 DEF Filling, Slot
  <2>3. CASE m = p
    <3>1. ring[p].read \in Nat /\ ring[p].write \in Nat /\ RingSize \in Nat
      BY <1>1, RingFields, Constants
    <3>2. ASSUME renderer[p].pc = "filled", p \notin foreign'
          PROVE  /\ ring'[p].write < ring'[p].read + RingSize
                 /\ ring'[p].slots[ring'[p].write % RingSize] = drawing[p]
      <4>1. /\ ring[p].read <= ring'[p].read /\ ring'[p].read \in Nat
            /\ ring[p].write < ring[p].read + RingSize
            /\ ring[p].slots[ring[p].write % RingSize] = drawing[p]
        BY <2>1, <2>3, <3>2 DEF Filling, Slot
      <4>. QED  BY <3>1, <4>1
    <3>. QED  BY <2>1, <2>3, <3>2 DEF Filling, Slot
  <2>. QED  BY <2>2, <2>3
<1>6. ASSUME NEW q \in Pools \ foreign' PROVE PoolOK(q)' /\ (q = attached' => UsedOK(q)')
  <2>1. CASE q = p
    BY <1>6, <2>1 DEF Others
  <2>2. CASE q # p
    BY <1>1, <1>6, <2>2, PoolKept DEF PInv, KeepsTaken, Others
  <2>. QED  BY <2>1, <2>2
<1>. QED  BY <1>2, <1>3, <1>4, <1>5, <1>6 DEF PInv

LEMMA PFreeBuffer ==
    ASSUME IInv, NEW p \in Pools, FreeBuffer(p)
    PROVE  PInv'
<1>1. /\ PInv /\ HInv /\ TypeOK /\ capture.pc \in {"skip", "release"} /\ p = attached
      /\ UNCHANGED Others /\ foreign' = IF p = capture.from THEN foreign ELSE foreign \cup {p}
  BY ReachedIsAttached DEF IInv, HInv, FreeBuffer, At, Reaches
<1>2. /\ capture.from \in Pools /\ capture.from <= p /\ capture.pool \in Pools \cup {NoPool}
      /\ capture.pool <= p /\ p <= p
      /\ capture.pc = "skip" => capture.pool \in Pools /\ capture.from <= capture.pool
  BY <1>1, Constants DEF PInv, Ordered, TypeOK, CaptureType
<1>3. foreign \subseteq foreign' /\ \A q \in foreign': q > 1
  <2>1. capture.from \in Nat \ {0} /\ p \in Nat \ {0}
    BY <1>2, Constants, Zenon
  <2>2. p # capture.from => p > 1
    BY <1>2, <2>1
  <2>. QED  BY <1>1, <2>2 DEF PInv, Ordered
<1>4. /\ \A q \in Pools: q # p => ring'[q] = ring[q]
      /\ \/ ring' = ring /\ capture' = AfterRelease
         \/ /\ capture' = [capture EXCEPT !.pc = IF At("skip") THEN "skipped" ELSE "released"]
            /\ ring'[p] = [ring[p] EXCEPT !.state = [ring[p].state EXCEPT ![capture.held] = 0]]
  BY <1>1, FreeBufferEffect
<1>5. CASE ring' = ring /\ capture' = AfterRelease /\ capture.pc = "release"
  <2>1. capture' = Idle
    BY <1>1, <1>5 DEF AfterRelease
  <2>2. Ordered'
    <3>1. NoPool <= attached
      BY <1>1, Constants DEF NoPool
    <3>. QED  BY <1>1, <1>3, <2>1, <3>1 DEF PInv, Ordered, Idle, Others
  <2>3. ASSUME NEW q \in Pools PROVE KeepsTaken(q)
    <3>1. ~HasHeld(q)' /\ ~HasCopied(q)'
      BY <2>1 DEF HasHeld, HasCopied, Idle
    <3>2. Owed(q)' = 0 /\ Freeing(q)' = 0
      BY <2>1, <3>1 DEF Owed, Freeing, Idle
    <3>3. 0 \in 0 .. Owed(q) /\ 0 \in 0 .. Freeing(q)
      BY DEF Owed, Freeing
    <3>. QED  BY <2>1, <3>1, <3>2, <3>3 DEF KeepsTaken, Takes, Idle
  <2>4. New' \subseteq New
    BY <1>1, NewStays DEF Others
  <2>. QED  BY <1>1, <1>3, <1>5, <2>1, <2>2, <2>3, <2>4, CaptureStep DEF Others, Idle, Copied
<1>6. CASE ring' = ring /\ capture' = AfterRelease /\ capture.pc = "skip"
  <2>1. capture' = Keep("drain")
    BY <1>1, <1>6 DEF AfterRelease
  <2>2. /\ capture'.pc = "drain" /\ capture'.pool = capture.pool /\ capture'.copied = NoBuffer
        /\ capture'.held = capture.copied /\ capture'.from = capture.pool
    BY <1>1, <2>1, KeepTyped DEF Pcs
  <2>3. Ordered'
    BY <1>1, <1>2, <1>3, <1>6, <2>2, Constants DEF PInv, Ordered, Others
  <2>4. ASSUME NEW q \in Pools \ foreign' PROVE KeepsTaken(q)
    <3>1. ~HasCopied(q)' /\ (HasHeld(q)' => HasCopied(q))
      BY <1>6, <2>2 DEF HasHeld, HasCopied
    <3>2. \A b \in Buffers: Takes(q, b)' => Takes(q, b)
      BY <2>2, <3>1 DEF Takes
    <3>3. Owed(q)' \in 0 .. Owed(q) /\ Freeing(q)' = 0 /\ 0 \in 0 .. Freeing(q)
      BY <1>6, <2>2, <3>1 DEF Owed, Freeing, HasCopied
    <3>4. ASSUME q = attached, capture.pool \notin {NoPool, q} PROVE ring[q].relWrite = 0
      <4>1. capture.from \notin {NoPool, q}
        <5>1. q \in Nat /\ capture.from \in Nat \ {0} /\ capture.pool \in Nat
          BY <1>2, <1>6, Constants, Zenon
        <5>2. capture.from <= capture.pool /\ capture.pool <= q /\ capture.pool # q
          BY <1>1, <1>2, <1>6, <3>4
        <5>. QED  BY <5>1, <5>2 DEF NoPool
      <4>. QED  BY <1>1, <1>3, <3>4, <4>1 DEF PInv, UsedOK, Paid
    <3>. QED  BY <2>2, <3>1, <3>2, <3>3, <3>4 DEF KeepsTaken
  <2>5. New' \subseteq New
    BY <1>1, NewStays DEF Others
  <2>. QED  BY <1>1, <1>3, <1>6, <2>2, <2>3, <2>4, <2>5, CaptureStep DEF Others, Copied
<1>7. CASE /\ capture' = [capture EXCEPT !.pc = IF At("skip") THEN "skipped" ELSE "released"]
           /\ ring'[p] = [ring[p] EXCEPT !.state = [ring[p].state EXCEPT ![capture.held] = 0]]
  <2>1. /\ capture'.pc = IF capture.pc = "skip" THEN "skipped" ELSE "released"
        /\ capture'.pool = capture.pool /\ capture'.copied = capture.copied
        /\ capture'.held = capture.held /\ capture'.from = capture.from
    BY <1>1, <1>7, StepTyped DEF Pcs, At
  <2>2. /\ ring'[p].write = ring[p].write /\ ring'[p].read = ring[p].read
        /\ ring'[p].slots = ring[p].slots /\ ring'[p].relWrite = ring[p].relWrite
        /\ ring'[p].relRead = ring[p].relRead
        /\ \A b \in Buffers: ring'[p].state[b] = IF b = capture.held THEN 0 ELSE ring[p].state[b]
    BY <1>1, <1>7, RingFields DEF RingType
  <2>3. Ordered'
    BY <1>1, <1>2, <1>3, <2>1 DEF PInv, Ordered, Others
  <2>4. ASSUME NEW q \in Pools PROVE /\ ~HasHeld(q)' /\ (HasCopied(q)' <=> HasCopied(q))
                                     /\ \A b \in Buffers: Takes(q, b)' => Takes(q, b)
    <3>1. ~HasHeld(q)' /\ (HasCopied(q)' <=> HasCopied(q))
      BY <1>1, <2>1 DEF HasHeld, HasCopied
    <3>. QED  BY <2>1, <3>1 DEF Takes
  <2>5. ASSUME NEW q \in Pools \ foreign', q # p PROVE PoolOK(q)'
    <3>1. PoolOK(q) /\ ring'[q] = ring[q] /\ drawing'[q] = drawing[q]
      BY <1>1, <1>3, <1>4, <2>5 DEF PInv, Others
    <3>2. HasCopied(q)' => capture'.copied \in Buffers
      BY <2>1, <2>4, <3>1 DEF PoolOK, Taken
    <3>3. capture.from = q => capture.held \in Buffers
      BY <1>1, <3>1 DEF PoolOK, Taken
    <3>. QED  BY <2>1, <2>4, <3>1, <3>2, <3>3, PoolKept
  <2>6. ASSUME p \notin foreign' PROVE PoolOK(p)' /\ UsedOK(p)'
    <3>1. PoolOK(p) /\ UsedOK(p) /\ capture.from = p /\ drawing' = drawing
      BY <1>1, <2>6 DEF PInv, Others
    <3>2. capture.held \in Buffers
      BY <1>1, <3>1 DEF PoolOK, Taken
    <3>3. HasHeld(p) /\ Takes(p, capture.held)
      BY <1>1, <3>1, <3>2, Constants DEF HasHeld, Takes
    <3>4. /\ ring[p].state[capture.held] = 1 /\ drawing[p] # capture.held
          /\ \A i \in Waiting(p): Slot(p, i) # capture.held
          /\ HasCopied(p) => capture.copied # capture.held
      BY <3>1, <3>2, <3>3 DEF PoolOK, UsedOK, Apart, Taken
    <3>5. Waiting(p)' = Waiting(p) /\ \A i \in Waiting(p): Slot(p, i)' = Slot(p, i)
      BY <2>2 DEF Waiting, Slot
    <3>6. Rings(p)'
      BY <2>2, <3>1 DEF PoolOK, Rings
    <3>7. Drawn(p)'
      <4>1. drawing[p] # NoBuffer => drawing[p] \in Buffers
        BY <1>1 DEF TypeOK
      <4>. QED  BY <2>2, <3>1, <3>4, <4>1 DEF PoolOK, Drawn
    <3>8. Queues(p)'
      BY <2>2, <3>1, <3>4, <3>5 DEF PoolOK, Queues
    <3>9. Taken(p)'
      <4>1. \A b \in Buffers: Takes(p, b)' => Takes(p, b) /\ b # capture.held
        BY <2>1, <2>4, <3>4 DEF Takes
      <4>2. HasCopied(p)' => capture'.copied \in Buffers
        BY <2>1, <2>4, <3>1 DEF PoolOK, Taken
      <4>. QED  BY <2>1, <2>2, <3>1, <3>2, <4>1, <4>2 DEF PoolOK, Taken
    <3>10. Apart(p)'
      BY <2>4, <3>1, <3>5 DEF UsedOK, Apart
    <3>11. Owed(p)' = Owed(p) /\ Freeing(p)' = 1 /\ Freeing(p) = 0
      BY <1>1, <2>1, <2>4, <3>1 DEF Owed, Freeing
    <3>12. Paid(p)'
      BY <2>1, <2>2, <3>1, <3>11 DEF UsedOK, Paid
    <3>13. Room(p)'
      <4>1. Marked(p)' = Marked(p) \ {capture.held} /\ capture.held \in Marked(p)
        <5>1. \A b \in Buffers: ring'[p].state[b] = 1 <=> ring[p].state[b] = 1 /\ b # capture.held
          BY <2>2
        <5>. QED  BY <3>2, <3>4, <5>1 DEF Marked
      <4>2. IsFiniteSet(Marked(p)) /\ Cardinality(Marked(p)) \in Nat
        BY MarkedCount
      <4>3. Cardinality(Marked(p)') = Cardinality(Marked(p)) - 1
        BY <4>1, <4>2, FS_RemoveElement, Zenon
      <4>4. ring[p].relWrite - ring[p].relRead + Freeing(p) + Cardinality(Marked(p)) <= Bound(p)
        BY <3>1 DEF UsedOK, Room
      <4>5. ring'[p].relWrite - ring'[p].relRead + Freeing(p)' + Cardinality(Marked(p)') <= Bound(p)'
        <5>1. /\ ring[p].relWrite \in Nat /\ ring[p].relRead \in Nat
              /\ Bound(p) \in Nat /\ Bound(p)' = Bound(p)
              /\ ring'[p].relWrite = ring[p].relWrite /\ ring'[p].relRead = ring[p].relRead
          BY <1>1, <2>2, RingFields, Constants DEF Bound, Others
        <5>. QED  BY <3>11, <4>2, <4>3, <4>4, <5>1
      <4>. QED  BY <4>5 DEF Room
    <3>. QED  BY <3>6, <3>7, <3>8, <3>9, <3>10, <3>12, <3>13 DEF PoolOK, UsedOK
  <2>. QED  BY <1>1, <1>2, <1>3, <1>4, <2>1, <2>2, <2>3, <2>5, <2>6, RingFields, HalRingStep
<1>. QED  BY <1>1, <1>4, <1>5, <1>6, <1>7

LEMMA PAdvanceRead ==
    ASSUME MaxFrames < IndexSpan, IInv, NEW p \in Pools, AdvanceRead(p)
    PROVE  PInv'
<1>1. /\ PInv /\ HInv /\ TypeOK /\ capture.pc \in {"copied", "copiedLast"} /\ p = attached
      /\ UNCHANGED Others /\ foreign' = IF p = capture.pool THEN foreign ELSE foreign \cup {p}
  BY ReachedIsAttached DEF IInv, HInv, AdvanceRead, At, Reaches
<1>2. /\ capture.pool \in Pools /\ capture.pool <= p /\ capture.from <= capture.pool /\ p <= p
      /\ capture.from \in Pools \cup {NoPool} /\ capture.from <= p
      /\ capture.held # NoBuffer => capture.from \in Pools
      /\ capture.held \in Buffers \cup {NoBuffer} /\ capture.index \in Nat
      /\ capture.pc = "copiedLast" => capture.held = NoBuffer
  BY <1>1, Constants DEF PInv, Ordered, TypeOK, CaptureType
<1>3. foreign \subseteq foreign' /\ \A q \in foreign': q > 1
  <2>1. capture.pool \in Nat \ {0} /\ p \in Nat \ {0}
    BY <1>2, Constants, Zenon
  <2>2. p # capture.pool => p > 1
    BY <1>2, <2>1
  <2>. QED  BY <1>1, <2>2 DEF PInv, Ordered
<1>4. /\ \A q \in Pools: q # p => ring'[q] = ring[q]
      /\ ring'[p] = [ring[p] EXCEPT !.read = Wrap(capture.index + 1)]
  BY <1>1, AdvanceReadEffect
<1>5. /\ ring'[p].write = ring[p].write /\ ring'[p].read = Wrap(capture.index + 1)
      /\ ring'[p].slots = ring[p].slots /\ ring'[p].relWrite = ring[p].relWrite
      /\ ring'[p].relRead = ring[p].relRead /\ ring'[p].state = ring[p].state
  BY <1>1, <1>4, RingFields DEF RingType
\* What was copied is the oldest frame of its pool.
<1>6. ASSUME capture.pool \notin foreign
      PROVE  /\ capture.index = ring[capture.pool].read /\ capture.index < ring[capture.pool].write
             /\ capture.index \in Waiting(capture.pool)
             /\ capture.copied = Slot(capture.pool, capture.index)
             /\ capture.copied \in Buffers /\ ring[capture.pool].state[capture.copied] = 1
             /\ capture.copied # drawing[capture.pool]
  <2>1. /\ capture.index = ring[capture.pool].read /\ capture.index < ring[capture.pool].write
        /\ capture.copied = Slot(capture.pool, capture.index)
    BY <1>1, <1>6 DEF PInv, Copied
  <2>2. capture.index \in Waiting(capture.pool)
    BY <1>1, <1>2, <2>1, RingFields DEF Waiting
  <2>. QED  BY <1>1, <1>2, <1>6, <2>1, <2>2 DEF PInv, PoolOK, Queues
\* The frame copied is held, or is held back while the older one is skipped.
<1>7. \/ /\ capture.held = NoBuffer /\ capture'.pc \in {"taken", "drain"}
         /\ capture'.held = capture.copied /\ capture'.from = capture.pool
         /\ capture'.pool = capture.pool /\ capture'.copied = NoBuffer
      \/ /\ capture.held # NoBuffer /\ capture.pc = "copied" /\ capture'.pc = "skip"
         /\ capture'.held = capture.held /\ capture'.from = capture.from
         /\ capture'.pool = capture.pool /\ capture'.copied = capture.copied
  <2>1. CASE capture.pc = "copiedLast" \/ capture.held = NoBuffer
    <3>1. capture' = Keep("taken") \/ capture' = Keep("drain")
      BY <1>1, <2>1 DEF AdvanceRead, At
    <3>. QED  BY <1>1, <1>2, <2>1, <3>1, KeepTyped DEF Pcs
  <2>2. CASE capture.pc = "copied" /\ capture.held # NoBuffer
    <3>1. capture' = [capture EXCEPT !.pc = "skip"]
      BY <2>2 DEF AdvanceRead, At
    <3>. QED  BY <1>1, <2>2, <3>1, StepTyped DEF Pcs
  <2>. QED  BY <1>1, <2>1, <2>2
<1>8. Ordered'
  BY <1>1, <1>2, <1>3, <1>7, Constants DEF PInv, Ordered, Others
<1>9. ASSUME NEW q \in Pools, NEW b \in Buffers, Takes(q, b)'
      PROVE  Takes(q, b) \/ (q = capture.pool /\ b = capture.copied)
  BY <1>1, <1>7, <1>9, Constants DEF Takes, HasHeld, HasCopied
<1>10. ASSUME NEW q \in Pools \ foreign', PoolOK(q)
       PROVE  /\ \A b \in Buffers: Takes(q, b)' => ring[q].state[b] = 1 /\ b # drawing[q]
              /\ HasCopied(q)' => capture'.copied \in Buffers
              /\ capture'.pc \in {"skip", "skipped", "taken", "reading", "release", "released"}
                    /\ capture'.from = q => capture'.held \in Buffers
  <2>1. \A b \in Buffers: Takes(q, b)' => ring[q].state[b] = 1 /\ b # drawing[q]
    BY <1>3, <1>6, <1>9, <1>10 DEF PoolOK, Taken
  <2>2. HasCopied(q)' => capture'.copied \in Buffers
    BY <1>3, <1>6, <1>7, <1>10 DEF HasCopied
  <2>3. capture'.from = q => capture'.held \in Buffers
    BY <1>2, <1>3, <1>6, <1>7, <1>10
  <2>. QED  BY <2>1, <2>2, <2>3
<1>11. ASSUME NEW q \in Pools \ foreign', q # p PROVE PoolOK(q)'
  BY <1>1, <1>3, <1>4, <1>10, <1>11, PoolTakes DEF PInv, Others
<1>12. ASSUME p \notin foreign'
       PROVE /\ PoolOK(p)' /\ UsedOK(p)'
             /\ ring[p].read <= ring'[p].read /\ ring'[p].read \in Nat
  <2>1. /\ PoolOK(p) /\ UsedOK(p) /\ p = capture.pool /\ drawing' = drawing /\ p \notin foreign
        /\ ring[p].write <= MaxFrames
    BY <1>1, <1>3, <1>12, WriteBounded DEF PInv, Others
  <2>2. /\ capture.index = ring[p].read /\ ring[p].read < ring[p].write
        /\ ring[p].read \in Waiting(p) /\ capture.copied = Slot(p, ring[p].read)
    BY <1>6, <2>1
  <2>3. ring'[p].read = ring[p].read + 1
    <3>1. ring[p].read + 1 \in Nat /\ ring[p].read + 1 <= MaxFrames
      <4>1. ring[p].read \in Nat /\ ring[p].write \in Nat
        BY <1>1, RingFields
      <4>. QED  BY <2>1, <2>2, <4>1, NextFrame
    <3>. QED  BY <1>5, <2>2, <3>1, WrapSmall
  <2>4. /\ \A i \in Waiting(p)': i \in Waiting(p) /\ i # ring[p].read
        /\ \A i \in Waiting(p): Slot(p, i)' = Slot(p, i)
    BY <1>1, <1>5, <2>3, RingFields DEF Waiting, Slot
  <2>5. Rings(p)'
    <3>1. /\ ring[p].write <= ring[p].read + RingSize /\ ring[p].relRead <= ring[p].relWrite
      BY <2>1 DEF PoolOK, Rings
    <3>2. ring[p].read + 1 <= ring[p].write /\ ring[p].write <= ring[p].read + 1 + RingSize
      <4>1. ring[p].read \in Nat /\ ring[p].write \in Nat /\ RingSize \in Nat
        BY <1>1, RingFields, Constants
      <4>. QED  BY <2>2, <3>1, <4>1
    <3>. QED  BY <1>5, <2>3, <3>1, <3>2 DEF Rings
  <2>6. Drawn(p)'
    BY <1>5, <2>1 DEF PoolOK, Drawn
  <2>7. Queues(p)'
    BY <1>5, <2>1, <2>4 DEF PoolOK, Queues
  <2>8. Taken(p)'
    BY <1>5, <1>10, <1>12, <2>1 DEF Taken
  <2>9. \A i \in Waiting(p)': Slot(p, i) # capture.copied
    BY <2>1, <2>2, <2>4 DEF PoolOK, Queues
  <2>10. HasHeld(p) => capture.held # capture.copied
    <3>1. HasHeld(p) => Takes(p, capture.held) /\ capture.held \in Buffers
      BY <1>2 DEF HasHeld, Takes
    <3>. QED  BY <2>1, <2>2, <3>1 DEF UsedOK, Apart
  <2>11. Apart(p)'
    <3>1. ASSUME NEW b \in Buffers, Takes(p, b)', NEW i \in Waiting(p)' PROVE Slot(p, i)' # b
      <4>1. Slot(p, i)' = Slot(p, i) /\ i \in Waiting(p)
        BY <2>4, <3>1
      <4>2. Slot(p, i) # b
        BY <1>9, <2>1, <2>9, <3>1, <4>1 DEF UsedOK, Apart
      <4>. QED  BY <4>1, <4>2
    <3>2. HasHeld(p)' /\ HasCopied(p)' => capture'.held # capture'.copied
      BY <1>1, <1>7, <2>10 DEF HasHeld, HasCopied
    <3>. QED  BY <3>1, <3>2 DEF Apart
  <2>12. Owed(p)' <= Owed(p) + 1 /\ Owed(p)' \in Nat /\ Freeing(p)' = 0 /\ Freeing(p) = 0
    BY <1>1, <1>7, Constants DEF Owed, Freeing, HasCopied
  <2>13. Paid(p)'
    <3>1. ring[p].relWrite + Owed(p) <= ring[p].read
          /\ (capture.from \notin {NoPool, p} => ring[p].relWrite = 0)
      BY <2>1 DEF UsedOK, Paid
    <3>2. ring[p].relWrite + Owed(p)' <= ring[p].read + 1
      BY <1>1, <2>12, <3>1, RingFields
    <3>. QED  BY <1>5, <1>7, <2>1, <2>3, <3>1, <3>2 DEF Paid
  <2>14. Room(p)'
    BY <1>1, <1>5, <2>1, <2>12 DEF UsedOK, Room, Bound, Marked, Others
  <2>. QED
    BY <1>1, <2>3, <2>5, <2>6, <2>7, <2>8, <2>11, <2>13, <2>14, RingFields DEF PoolOK, UsedOK
<1>. QED  BY <1>1, <1>3, <1>4, <1>5, <1>7, <1>8, <1>11, <1>12, HalRingStep, Zenon

LEMMA PPublishRelease ==
    ASSUME MaxFrames < IndexSpan, IInv, NEW p \in Pools, PublishRelease(p)
    PROVE  PInv'
<1>1. /\ PInv /\ HInv /\ TypeOK /\ capture.pc \in {"skipped", "released"} /\ p = attached
      /\ UNCHANGED Others /\ foreign' = IF p = capture.from THEN foreign ELSE foreign \cup {p}
      /\ capture' = AfterRelease
  BY ReachedIsAttached DEF IInv, HInv, PublishRelease, At, Reaches
<1>2. /\ capture.from \in Pools /\ capture.from <= p /\ capture.pool \in Pools \cup {NoPool}
      /\ capture.pool <= p /\ p <= p
      /\ capture.pc = "skipped" => capture.pool \in Pools /\ capture.from <= capture.pool
  BY <1>1, Constants DEF PInv, Ordered, TypeOK, CaptureType
<1>3. foreign \subseteq foreign' /\ \A q \in foreign': q > 1
  <2>1. capture.from \in Nat \ {0} /\ p \in Nat \ {0}
    BY <1>2, Constants, Zenon
  <2>2. p # capture.from => p > 1
    BY <1>2, <2>1
  <2>. QED  BY <1>1, <2>2 DEF PInv, Ordered
<1>4. /\ \A q \in Pools: q # p => ring'[q] = ring[q]
      /\ ring'[p] = [ring[p] EXCEPT !.relWrite = Wrap(ring[p].relWrite + 1)]
  BY <1>1, PublishReleaseEffect
<1>5. /\ ring'[p].write = ring[p].write /\ ring'[p].read = ring[p].read
      /\ ring'[p].slots = ring[p].slots /\ ring'[p].relWrite = Wrap(ring[p].relWrite + 1)
      /\ ring'[p].relRead = ring[p].relRead /\ ring'[p].state = ring[p].state
  BY <1>1, <1>4, RingFields DEF RingType
<1>6. \/ /\ capture.pc = "skipped" /\ capture'.pc = "drain" /\ capture'.pool = capture.pool
         /\ capture'.copied = NoBuffer /\ capture'.held = capture.copied
         /\ capture'.from = capture.pool
      \/ /\ capture'.pc = "idle" /\ capture'.pool = NoPool /\ capture'.from = NoPool
         /\ capture'.held = NoBuffer /\ capture'.copied = NoBuffer
  <2>1. CASE capture.pc = "skipped"
    <3>1. capture' = Keep("drain")
      BY <1>1, <2>1 DEF AfterRelease
    <3>. QED  BY <1>1, <2>1, <3>1, KeepTyped DEF Pcs
  <2>2. CASE capture.pc # "skipped"
    BY <1>1, <2>2 DEF AfterRelease, Idle
  <2>. QED  BY <2>1, <2>2
<1>7. Ordered'
  <2>1. NoPool <= attached
    BY <1>1, Constants DEF NoPool
  <2>. QED  BY <1>1, <1>2, <1>3, <1>6, <2>1, Constants DEF PInv, Ordered, Others
<1>8. ASSUME NEW q \in Pools
      PROVE  ~HasCopied(q)' /\ \A b \in Buffers: Takes(q, b)' => Takes(q, b)
  BY <1>6 DEF Takes, HasHeld, HasCopied
<1>9. ASSUME NEW q \in Pools \ foreign', q # p PROVE PoolOK(q)'
  <2>1. PoolOK(q) /\ drawing' = drawing
    BY <1>1, <1>3, <1>9 DEF PInv, Others
  <2>. QED  BY <1>4, <1>6, <1>8, <1>9, <2>1, PoolKept
<1>10. ASSUME p \notin foreign' PROVE PoolOK(p)' /\ UsedOK(p)'
  <2>1. /\ PoolOK(p) /\ UsedOK(p) /\ p = capture.from /\ drawing' = drawing
        /\ ring[p].write <= MaxFrames /\ ring[p].read <= ring[p].write
    BY <1>1, <1>3, <1>10, WriteBounded DEF PInv, Others, PoolOK, Rings
  <2>2. capture.held \in Buffers
    BY <1>1, <2>1 DEF PoolOK, Taken
  <2>3. ring[p].relWrite + Owed(p) <= ring[p].read /\ Owed(p) >= 1
    BY <2>1, <2>2, Constants DEF UsedOK, Paid, Owed
  <2>4. ring'[p].relWrite = ring[p].relWrite + 1
    <3>1. ring[p].relWrite + 1 \in Nat /\ ring[p].relWrite + 1 <= MaxFrames
      <4>1. /\ ring[p].read \in Nat /\ ring[p].write \in Nat /\ ring[p].relWrite \in Nat
            /\ Owed(p) \in Nat
        BY <1>1, RingFields
      <4>2. ring[p].relWrite < ring[p].write
        BY <2>1, <2>3, <4>1
      <4>. QED  BY <2>1, <4>1, <4>2, NextFrame
    <3>. QED  BY <1>5, <3>1, WrapSmall
  <2>5. Rings(p)'
    <3>1. ring[p].relRead <= ring[p].relWrite
      BY <2>1 DEF PoolOK, Rings
    <3>2. ring[p].relRead <= ring[p].relWrite + 1
      <4>1. ring[p].relRead \in Nat /\ ring[p].relWrite \in Nat
        BY <1>1, RingFields
      <4>. QED  BY <3>1, <4>1
    <3>3. /\ ring[p].read <= ring[p].write /\ ring[p].write <= ring[p].read + RingSize
      BY <2>1 DEF PoolOK, Rings
    <3>. QED  BY <1>5, <2>4, <3>2, <3>3 DEF Rings
  <2>6. Drawn(p)' /\ Queues(p)'
    BY <1>5, <2>1 DEF PoolOK, Drawn, Queues, Slot, Waiting
  <2>7. Taken(p)'
    BY <1>5, <1>6, <1>8, <2>1 DEF PoolOK, Taken
  <2>8. Apart(p)'
    BY <1>5, <1>8, <2>1 DEF UsedOK, Apart, Slot, Waiting
  <2>9. capture'.from \in {NoPool, p}
    BY <1>1, <1>2, <1>6, <2>1, Constants
  <2>10. Owed(p)' + 1 <= Owed(p) /\ Owed(p)' \in Nat
    BY <1>6, <1>8, <2>1, <2>2, Constants DEF Owed, HasCopied
  <2>11. Paid(p)'
    <3>1. ring[p].relWrite + 1 + Owed(p)' <= ring[p].read
      BY <1>1, <2>3, <2>10, RingFields
    <3>. QED  BY <1>5, <2>4, <2>9, <3>1 DEF Paid
  <2>12. Room(p)'
    <3>1. Freeing(p) = 1 /\ Freeing(p)' = 0
      BY <1>1, <1>6, <2>1 DEF Freeing
    <3>2. Marked(p)' = Marked(p) /\ Cardinality(Marked(p)) \in Nat
      BY <1>5, MarkedCount, Zenon DEF Marked
    <3>3. ring[p].relWrite - ring[p].relRead + 1 + Cardinality(Marked(p)) <= Bound(p)
      BY <2>1, <3>1 DEF UsedOK, Room
    <3>4. (ring[p].relWrite + 1) - ring[p].relRead + 0 + Cardinality(Marked(p)) <= Bound(p)'
      <4>1. /\ ring[p].relWrite \in Nat /\ ring[p].relRead \in Nat
            /\ Bound(p) \in Nat /\ Bound(p)' = Bound(p)
        BY <1>1, RingFields, Constants DEF Bound, Others
      <4>. QED  BY <3>2, <3>3, <4>1
    <3>. QED  BY <1>5, <2>4, <3>1, <3>2, <3>4 DEF Room
  <2>. QED
    BY <2>5, <2>6, <2>7, <2>8, <2>11, <2>12 DEF PoolOK, UsedOK
<1>11. ring[p].read <= ring'[p].read /\ ring'[p].read \in Nat
  BY <1>1, <1>5, RingFields
<1>12. /\ capture'.pc \notin {"copied", "copiedLast"} /\ capture'.pool \in {capture.pool, NoPool}
       /\ capture'.from \in {capture.from, capture.pool, NoPool}
  BY <1>6
<1>. QED  BY <1>1, <1>3, <1>4, <1>5, <1>7, <1>9, <1>10, <1>11, <1>12, HalRingStep, Zenon

-----------------------------------------------------------------------------
LEMMA Stutters ==
    ASSUME IInv, UNCHANGED vars
    PROVE  PInv'
<1>1. /\ UNCHANGED <<ring, frames, drawing, capture, foreign, renderer>>
      /\ UNCHANGED <<attached, received, iface, conn>>
  BY DEF vars
<1>2. New' \subseteq New
  BY <1>1, NewStays
<1>. QED  BY <1>1, <1>2, ConnectionRests

LEMMA Init_IInv == Init => IInv
<1>. SUFFICES ASSUME Init PROVE IInv
  OBVIOUS
<1>1. HInv /\ TypeOK
  BY HInit DEF HInv
<1>2. /\ capture = Idle /\ foreign = {} /\ \A p \in Pools: renderer[p].pc = "new"
      /\ attached = NoPool /\ received = NoPool /\ iface = NoPool
      /\ ring = [p \in Pools |-> NewRing] /\ frames = 0
      /\ drawing = [p \in Pools |-> NoBuffer]
  BY DEF Init
<1>3. Untouched
  BY <1>2, Constants DEF Untouched, New, Idle
<1>4. Ordered
  BY <1>2, Constants DEF Ordered, Idle
<1>5. Counted /\ Filled /\ Copied
  BY <1>2, Constants DEF Counted, Filled, Filling, Copied, Idle, NewRing
<1>6. ASSUME NEW p \in Pools PROVE PoolOK(p)
  <2>1. Waiting(p) = {}
    BY <1>2 DEF Waiting, NewRing
  <2>2. Rings(p)
    BY <1>2, Constants DEF Rings, NewRing
  <2>3. Drawn(p) /\ Queues(p) /\ Taken(p)
    BY <1>2, <2>1 DEF Drawn, Queues, Taken, Takes, HasHeld, HasCopied, Idle
  <2>. QED  BY <2>2, <2>3 DEF PoolOK
<1>. QED  BY <1>1, <1>2, <1>3, <1>4, <1>5, <1>6, Constants DEF IInv, PInv

(***************************************************************************)
(* The invariant of the rings, while no index wraps.  It is the handshake, *)
(* and of every pool that was reached only with its own pointers: indices  *)
(* in order, no buffer in two places, and a release for every frame read.  *)
(***************************************************************************)
THEOREM Inductive ==
    ASSUME MaxFrames < IndexSpan
    PROVE  Spec => []IInv
<1>1. ASSUME IInv, [Next]_vars PROVE IInv'
  <2>1. HInv'
    BY <1>1, HNext DEF IInv
  <2>2. ASSUME UNCHANGED vars PROVE PInv'
    BY <1>1, <2>2, Stutters
  <2>3. ASSUME RendererNext PROVE PInv'
    <3>1. PICK p \in Pools:
             \/ Connect(p) \/ SendRing(p) \/ SendBuffers(p) \/ ReceiveAck(p) \/ Killed(p)
             \/ DrainReleases(p) \/ AcquireFreeBuffer(p) \/ FillSlot(p) \/ PublishSlot(p)
             \/ Shutdown(p)
      BY <2>3 DEF RendererNext
    <3>2. CASE Connect(p) \/ SendRing(p) \/ SendBuffers(p) \/ ReceiveAck(p) \/ Killed(p)
      BY <1>1, <3>2, PConnect, PSend, PRendererRests
    <3>3. CASE DrainReleases(p) \/ AcquireFreeBuffer(p)
      BY <1>1, <3>3, PDrainReleases, PAcquireFreeBuffer
    <3>4. CASE FillSlot(p)
      BY <1>1, <3>4, PFillSlotFull, PFillSlot
    <3>5. CASE PublishSlot(p) \/ Shutdown(p)
      BY <1>1, <3>5, PPublishSlot, PShutdown
    <3>. QED  BY <3>1, <3>2, <3>3, <3>4, <3>5
  <2>4. ASSUME ServerNext PROVE PInv'
    BY <1>1, <2>4, PRefuseConnection, PReplacePool, PFinishSetup, PBuffersFail DEF ServerNext
  <2>5. ASSUME CaptureNext PROVE PInv'
    BY <1>1, <2>5, PLetsGo, PAcquireLatest, PFrameCopied, PCopySlot, PAdvanceRead,
       PDrained, PFreeBuffer, PPublishRelease DEF CaptureNext
  <2>6. ASSUME Fault PROVE PInv'
    BY <1>1, <2>6, PLetsGo
  <2>7. PInv'
    BY <1>1, <2>2, <2>3, <2>4, <2>5, <2>6 DEF Next
  <2>. QED  BY <2>1, <2>7 DEF IInv
<1>. QED  BY Init_IInv, <1>1, PTL DEF Spec

\* The frames of the ring, by their indices.
LEMMA QueueIsWaiting ==
    ASSUME MaxFrames < IndexSpan, IInv, NEW p \in Pools \ foreign
    PROVE  /\ Available(p) = ring[p].write - ring[p].read
           /\ \A i \in DOMAIN Queue(p): /\ ring[p].read + i - 1 \in Waiting(p)
                                        /\ Queue(p)[i] = Slot(p, ring[p].read + i - 1)
<1>1. /\ TypeOK /\ ring[p].read <= ring[p].write /\ ring[p].write <= MaxFrames
  BY WriteBounded DEF IInv, HInv, PInv, PoolOK, Rings
<1>2. Available(p) = ring[p].write - ring[p].read
  BY <1>1, RingFields, InRing DEF Available
<1>3. \A i \in 1 .. Available(p): ring[p].read + i - 1 \in Waiting(p)
  BY <1>1, <1>2, RingFields DEF Waiting
<1>. QED  BY <1>2, <1>3 DEF Queue, Slot

(***************************************************************************)
(* A buffer that is drawn, submitted or read is marked in use in the ring  *)
(* both processes map, so acquireFreeBuffer never hands it out twice.      *)
(***************************************************************************)
THEOREM NoBufferTwice ==
    ASSUME MaxFrames < IndexSpan
    PROVE  Spec => []InUseIsMarked
<1>1. ASSUME IInv PROVE InUseIsMarked
  <2>. SUFFICES ASSUME NEW p \in Pools \ foreign, NEW b \in Buffers, InUse(p, b)
                PROVE  ring[p].state[b] = 1
    BY DEF InUseIsMarked
  <2>1. PoolOK(p)
    BY <1>1 DEF IInv, PInv
  <2>2. CASE drawing[p] = b
    BY <2>1, <2>2, Constants DEF PoolOK, Drawn
  <2>3. CASE Queued(p, b)
    BY <1>1, <2>1, <2>3, QueueIsWaiting DEF Queued, PoolOK, Queues
  <2>4. CASE At("reading") /\ capture.pool = p /\ capture.held = b
    <3>1. capture.from = p
      BY <1>1, <2>4 DEF IInv, PInv, Ordered, At
    <3>2. Takes(p, b)
      BY <2>4, <3>1, Constants DEF At, Takes, HasHeld
    <3>. QED  BY <2>1, <3>2 DEF PoolOK, Taken
  <2>. QED  BY <2>2, <2>3, <2>4 DEF InUse
<1>. QED  BY <1>1, Inductive, PTL

\* A buffer being drawn is in no slot, so the slots hold fewer than there are.
LEMMA FewerQueued ==
    ASSUME MaxFrames < IndexSpan, IInv, NEW p \in Pools \ foreign, drawing[p] # NoBuffer
    PROVE  ring[p].write - ring[p].read < RingSize
<1>. DEFINE W == Waiting(p)
            n == ring[p].write - ring[p].read
            S == [i \in W |-> Slot(p, i)]
<1>1. TypeOK /\ PoolOK(p) /\ ring[p].read <= ring[p].write
  BY DEF IInv, HInv, PInv, PoolOK, Rings
<1>2. IsFiniteSet(W) /\ Cardinality(W) = n
  <2>1. ring[p].read \in Int /\ ring[p].write - 1 \in Int
    BY <1>1, RingFields
  <2>4. ring[p].read \in Nat /\ ring[p].write \in Nat
    BY <1>1, RingFields
  <2>2. ring[p].read > ring[p].write - 1 => n = 0
    BY <1>1, <2>4
  <2>3. (ring[p].write - 1) - ring[p].read + 1 = n
    BY <2>4
  <2>. QED  BY <2>1, <2>2, <2>3, FS_Interval, Zenon DEF Waiting
<1>3. IsFiniteSet(Buffers) /\ Cardinality(Buffers) = NumBuffers
  BY FS_Interval, Constants DEF Buffers
<1>4. S \in Injection(W, Buffers)
  BY <1>1 DEF PoolOK, Queues, Injection, IsInjective
<1>5. Cardinality(W) <= Cardinality(Buffers)
  BY <1>2, <1>3, <1>4, FS_Injection
<1>. QED  BY <1>1, <1>2, <1>3, <1>5, RingFields, Constants

(***************************************************************************)
(* tryWrite finds room for every frame drawn and tryWriteRelease for every *)
(* release: what endFrame and the HAL would lose to a full ring, they      *)
(* never do, although the renderer drains releases only in beginFrame, and *)
(* one may come between its last look and the buffer it takes.  It needs   *)
(* two slots of the ring more than there are buffers.                      *)
(***************************************************************************)
THEOREM NothingIsRefused ==
    ASSUME MaxFrames < IndexSpan
    PROVE  Spec => []RingsHaveRoom
<1>1. ASSUME IInv PROVE RingsHaveRoom
  <2>. SUFFICES ASSUME NEW p \in Pools \ foreign
                PROVE  /\ drawing[p] # NoBuffer => ~Full(ring[p].write, ring[p].read)
                       /\ capture.pc \in {"skip", "release"} /\ p \in Reached
                             => ~Full(ring[p].relWrite, ring[p].relRead)
    BY DEF RingsHaveRoom
  <2>1. /\ PInv /\ TypeOK /\ PoolOK(p) /\ ring[p].read <= ring[p].write
        /\ ring[p].write <= MaxFrames /\ ring[p].relRead <= ring[p].relWrite
    BY <1>1, WriteBounded DEF IInv, HInv, PInv, PoolOK, Rings
  <2>2. ASSUME drawing[p] # NoBuffer PROVE ~Full(ring[p].write, ring[p].read)
    <3>1. ring[p].write - ring[p].read < RingSize
      BY <1>1, <2>2, FewerQueued
    <3>. QED  BY <2>1, <3>1, RingFields, InRing, Constants
  <2>3. ASSUME capture.pc \in {"skip", "release"}, p \in Reached
        PROVE  ~Full(ring[p].relWrite, ring[p].relRead)
    <3>1. p = attached /\ UsedOK(p) /\ capture.from # NoPool
      BY <2>1, <2>3, ReachedIsAttached DEF PInv, Ordered
    <3>2. ring[p].relWrite <= MaxFrames
      <4>1. ring[p].relWrite + Owed(p) <= ring[p].read
        BY <3>1 DEF UsedOK, Paid
      <4>. QED  BY <2>1, <4>1, RingFields, Constants
    <3>3. ring[p].relWrite - ring[p].relRead < RingSize
      <4>1. CASE capture.from # p
        <5>1. ring[p].relWrite = 0
          BY <3>1, <4>1 DEF UsedOK, Paid
        <5>. QED  BY <2>1, <5>1, RingFields, Constants
      <4>2. CASE capture.from = p
        <5>1. capture.held \in Buffers
          BY <2>1, <2>3, <4>2 DEF PoolOK, Taken
        <5>2. Takes(p, capture.held)
          BY <2>3, <4>2, <5>1, Constants DEF Takes, HasHeld
        <5>3. {capture.held} \in SUBSET Marked(p)
          BY <2>1, <5>1, <5>2 DEF PoolOK, Taken, Marked
        <5>4. Cardinality({capture.held}) = 1
          BY FS_Singleton, Zenon
        <5>5. Cardinality(Marked(p)) \in Nat /\ 1 <= Cardinality(Marked(p))
          BY <5>3, <5>4, MarkedCount
        <5>6. ring[p].relWrite - ring[p].relRead + Freeing(p) + Cardinality(Marked(p)) <= Bound(p)
          BY <3>1 DEF UsedOK, Room
        <5>7. /\ ring[p].relWrite \in Nat /\ ring[p].relRead \in Nat /\ Freeing(p) \in Nat
              /\ RingSize \in Nat /\ NumBuffers \in Nat /\ NumBuffers + 1 < RingSize
              /\ Bound(p) \in Nat /\ Bound(p) <= NumBuffers + 2
          BY <2>1, RingFields, Constants DEF Bound
        <5>. QED  BY <5>5, <5>6, <5>7
      <4>. QED  BY <4>1, <4>2
    <3>. QED  BY <2>1, <3>2, <3>3, RingFields, InRing, Constants
  <2>. QED  BY <2>2, <2>3
<1>. QED  BY <1>1, Inductive, PTL

-----------------------------------------------------------------------------
\* The first pool implements the exchange of buffers.

LEMMA FunctionIsSeq ==
    ASSUME NEW S, NEW n \in Nat, NEW f \in [1 .. n -> S]
    PROVE  f \in Seq(S) /\ Len(f) = n
  OBVIOUS

\* A difference when one of its terms has moved by one.
LEMMA MovedByOne ==
    ASSUME NEW r \in Nat, NEW w \in Nat
    PROVE  (w + 1) - r = (w - r) + 1 /\ w - (r + 1) = (w - r) - 1
  OBVIOUS

\* A place behind the first is another place that waits.
LEMMA BehindFirst ==
    ASSUME NEW r \in Nat, NEW w \in Nat, NEW i \in Nat \ {0}, i + 1 <= w - r
    PROVE  r \in r .. w - 1 /\ r + (i + 1) - 1 \in r .. w - 1 /\ r + (i + 1) - 1 # r
  OBVIOUS

\* The queue is a sequence of the frames in the ring.
LEMMA QueueIsSeq ==
    ASSUME MaxFrames < IndexSpan, IInv, NEW p \in Pools \ foreign
    PROVE  /\ Queue(p) \in Seq(Buffers) /\ Len(Queue(p)) = ring[p].write - ring[p].read
           /\ \A i \in 1 .. Len(Queue(p)): Queue(p)[i] = Slot(p, ring[p].read + i - 1)
           /\ \A b \in Buffers: Queued(p, b) <=> \E i \in Waiting(p): Slot(p, i) = b
<1>1. /\ TypeOK /\ PoolOK(p) /\ ring[p].read <= ring[p].write
  BY DEF IInv, HInv, PInv, PoolOK, Rings
<1>. DEFINE n == ring[p].write - ring[p].read
<1>2. n \in Nat /\ Available(p) = n
  BY <1>1, RingFields, QueueIsWaiting
<1>3. \A i \in 1 .. n: /\ ring[p].read + i - 1 \in Waiting(p)
                       /\ Queue(p)[i] = Slot(p, ring[p].read + i - 1)
  BY <1>2, QueueIsWaiting DEF Queue
<1>4. Queue(p) \in [1 .. n -> Buffers]
  BY <1>1, <1>2, <1>3, Zenon DEF Queue, PoolOK, Queues
<1>5. Queue(p) \in Seq(Buffers) /\ Len(Queue(p)) = n
  BY <1>2, <1>4, FunctionIsSeq
<1>6. \A i \in Waiting(p): i - ring[p].read + 1 \in 1 .. n /\ ring[p].read + (i - ring[p].read + 1) - 1 = i
  BY <1>1, RingFields DEF Waiting
<1>7. ASSUME NEW b \in Buffers PROVE Queued(p, b) <=> \E i \in Waiting(p): Slot(p, i) = b
  <2>1. DOMAIN Queue(p) = 1 .. n
    BY <1>4
  <2>2. ASSUME NEW i \in Waiting(p), Slot(p, i) = b PROVE Queued(p, b)
    <3>1. Queue(p)[i - ring[p].read + 1] = b
      BY <1>3, <1>6, <2>2
    <3>. QED  BY <1>6, <2>1, <3>1 DEF Queued
  <2>. QED  BY <1>3, <2>1, <2>2 DEF Queued
<1>. QED  BY <1>3, <1>5, <1>7

\* The queue of pool p after a step that leaves it with ring r.
NextQueue(p, r) ==
    /\ Queue(p)' \in Seq(Buffers) /\ Len(Queue(p)') = r.write - r.read
    /\ r.write \in Nat /\ r.read \in Nat
    /\ \A i \in 1 .. Len(Queue(p)'): Queue(p)'[i] = r.slots[(r.read + i - 1) % RingSize]
    /\ \A b \in Buffers: Queued(p, b)' <=> \E i \in 1 .. Len(Queue(p)'): Queue(p)'[i] = b

\* The queue is a sequence after a step too.
LEMMA NextQueueIsSeq ==
    ASSUME MaxFrames < IndexSpan, IInv', NEW p \in Pools, p \notin foreign', NEW r, r = ring'[p]
    PROVE  NextQueue(p, r)
<1>1. /\ ring' \in [Pools -> RingType] /\ r.read <= r.write
      /\ \A i \in r.read .. r.write - 1: r.slots[i % RingSize] \in Buffers
  BY DEF IInv, HInv, PInv, PoolOK, Rings, TypeOK, Queues, Waiting, Slot
<1>2. r \in RingType
  BY <1>1
<1>3. r.write \in Nat /\ r.read \in Nat /\ r.write <= MaxFrames
  <2>1. r.write \in Nat /\ r.read \in Nat
    BY <1>2 DEF RingType
  <2>2. /\ frames' \in Nat /\ frames' <= MaxFrames
        /\ r.write + (IF drawing'[p] = NoBuffer THEN 0 ELSE 1) <= frames'
    BY DEF IInv, HInv, PInv, TypeOK, Counted
  <2>. QED  BY <2>1, <2>2, Constants
<1>. DEFINE n == r.write - r.read
<1>4. n \in Nat /\ Available(p)' = n
  BY <1>1, <1>3, InRing DEF Available
<1>5. Queue(p)' = [i \in 1 .. n |-> r.slots[(r.read + i - 1) % RingSize]]
  BY <1>4 DEF Queue
<1>6. \A i \in 1 .. n: r.read + i - 1 \in r.read .. r.write - 1
  BY <1>3
<1>7. Queue(p)' \in [1 .. n -> Buffers]
  BY <1>1, <1>5, <1>6
<1>8. Queue(p)' \in Seq(Buffers) /\ Len(Queue(p)') = n
  BY <1>4, <1>7, FunctionIsSeq
<1>9. \A b \in Buffers: Queued(p, b)' <=> \E i \in 1 .. n: Queue(p)'[i] = b
  BY <1>7 DEF Queued
<1>. QED  BY <1>3, <1>5, <1>8, <1>9, Zenon DEF NextQueue

Own == [b \in Buffers |-> Owner(1, b)]
ExchangeStep == Exchange!Next \/ UNCHANGED <<Own, Queue(1)>>

LEMMA FirstIsOwn ==
    ASSUME IInv
    PROVE  1 \notin foreign /\ TypeOK /\ (1 \in Pools => PoolOK(1))
<1>1. 1 \notin foreign /\ TypeOK
  BY DEF IInv, HInv, PInv, Ordered
<1>. QED  BY <1>1 DEF IInv, PInv

LEMMA QueueKept ==
    ASSUME MaxFrames < IndexSpan, IInv, IInv', 1 \in Pools,
           ring'[1].write = ring[1].write, ring'[1].read = ring[1].read,
           \A i \in Waiting(1): ring'[1].slots[i % RingSize] = Slot(1, i)
    PROVE  Queue(1)' = Queue(1) /\ \A b \in Buffers: Queued(1, b)' <=> Queued(1, b)
<1>1. Available(1)' = Available(1)
  BY DEF Available
<1>2. \A i \in 1 .. Available(1): ring[1].read + i - 1 \in Waiting(1)
                                  /\ Queue(1)[i] = Slot(1, ring[1].read + i - 1)
  BY FirstIsOwn, QueueIsWaiting DEF Queue
<1>3. Queue(1)' = Queue(1)
  BY <1>1, <1>2 DEF Queue, Slot
<1>. QED  BY <1>3 DEF Queued

LEMMA SameExchange ==
    ASSUME MaxFrames < IndexSpan, IInv, IInv', 1 \in Pools,
           ring'[1].write = ring[1].write, ring'[1].read = ring[1].read,
           \A i \in Waiting(1): ring'[1].slots[i % RingSize] = Slot(1, i),
           ring'[1].state = ring[1].state, drawing'[1] = drawing[1]
    PROVE  ExchangeStep
<1>1. Queue(1)' = Queue(1) /\ \A b \in Buffers: Queued(1, b)' <=> Queued(1, b)
  BY QueueKept
<1>2. \A b \in Buffers: Owner(1, b)' = Owner(1, b)
  BY <1>1 DEF Owner
<1>3. Own' = Own
  BY <1>2 DEF Own
<1>. QED  BY <1>1, <1>3 DEF ExchangeStep

LEMMA SameRing ==
    ASSUME MaxFrames < IndexSpan, IInv, IInv', 1 \in Pools,
           ring'[1] = ring[1], drawing'[1] = drawing[1]
    PROVE  ExchangeStep
  BY SameExchange DEF Slot

\* One buffer changes hands.
LEMMA Passes ==
    ASSUME NEW b \in Buffers, NEW f, NEW t, Owner(1, b) = f, Owner(1, b)' = t,
           \A c \in Buffers: c # b => Owner(1, c)' = Owner(1, c)
    PROVE  Own[b] = f /\ Own' = [Own EXCEPT ![b] = t]
  BY Zenon DEF Own

LEMMA Cancels ==
    ASSUME MaxFrames < IndexSpan, IInv, IInv', 1 \in Pools, drawing[1] \in Buffers,
           drawing'[1] = NoBuffer,
           ring'[1] = [ring[1] EXCEPT !.state = [ring[1].state EXCEPT ![drawing[1]] = 0]]
    PROVE  ExchangeStep
<1>1. TypeOK /\ PoolOK(1) /\ 1 \in Pools \ foreign
  BY FirstIsOwn
<1>0. PICK b \in Buffers: b = drawing[1]
  OBVIOUS
<1>2. /\ ring'[1].write = ring[1].write /\ ring'[1].read = ring[1].read
      /\ ring'[1].slots = ring[1].slots
      /\ \A c \in Buffers: ring'[1].state[c] = IF c = b THEN 0 ELSE ring[1].state[c]
  BY <1>0, <1>1, RingFields DEF RingType
<1>3. Queue(1)' = Queue(1) /\ \A c \in Buffers: Queued(1, c)' <=> Queued(1, c)
  BY <1>2, QueueKept DEF Slot
<1>4. ~Queued(1, b)
  BY <1>0, <1>1, QueueIsSeq DEF PoolOK, Queues
<1>5. Owner(1, b) = "renderer" /\ Owner(1, b)' = "free"
  BY <1>0, <1>2, <1>3, <1>4, Constants DEF Owner
<1>6. \A c \in Buffers: c # b => Owner(1, c)' = Owner(1, c)
  BY <1>0, <1>2, <1>3, Constants DEF Owner
<1>7. Own[b] = "renderer" /\ Own' = [Own EXCEPT ![b] = "free"]
  BY <1>5, <1>6, Passes
<1>8. Exchange!Cancel(b)
  BY <1>3, <1>7 DEF Exchange!Cancel, Exchange!Pass, Own
<1>. QED  BY <1>8 DEF ExchangeStep, Exchange!Next

LEMMA DrainsExchange ==
    ASSUME MaxFrames < IndexSpan, IInv, IInv', 1 \in Pools, NEW p \in Pools, DrainReleases(p)
    PROVE  ExchangeStep
<1>1. TypeOK /\ drawing' = drawing
  BY FirstIsOwn DEF DrainReleases
<1>2. CASE p # 1
  BY <1>1, <1>2, DrainEffect, SameRing, Zenon
<1>3. CASE p = 1
  <2>1. /\ ring'[1].write = ring[1].write /\ ring'[1].read = ring[1].read
        /\ ring'[1].slots = ring[1].slots /\ ring'[1].state = ring[1].state
    BY <1>1, <1>3, DrainEffect, RingFields, Zenon DEF RingType
  <2>. QED  BY <1>1, <2>1, SameExchange DEF Slot
<1>. QED  BY <1>2, <1>3

LEMMA BeginsExchange ==
    ASSUME MaxFrames < IndexSpan, IInv, IInv', 1 \in Pools, NEW p \in Pools, AcquireFreeBuffer(p)
    PROVE  ExchangeStep
<1>1. TypeOK /\ PInv /\ PoolOK(1) /\ 1 \in Pools \ foreign
  BY FirstIsOwn DEF IInv
<1>2. CASE p # 1
  BY <1>1, <1>2, AcquireEffect, SameRing, Zenon
<1>3. CASE ring' = ring /\ drawing' = drawing
  BY <1>1, <1>3, SameRing
<1>4. ASSUME p = 1, NEW b \in Buffers, ring[1].state[b] = 0, drawing'[1] = b,
             ring'[1] = [ring[1] EXCEPT !.state = [ring[1].state EXCEPT ![b] = 1]]
      PROVE  ExchangeStep
  <2>1. drawing[1] = NoBuffer
    <3>1. renderer[1].pc = "drained"
      BY <1>4 DEF AcquireFreeBuffer
    <3>. QED  BY <1>1, <3>1 DEF PInv, Filled, Filling
  <2>2. /\ ring'[1].write = ring[1].write /\ ring'[1].read = ring[1].read
        /\ ring'[1].slots = ring[1].slots
        /\ ring'[1].state = [ring[1].state EXCEPT ![b] = 1]
    BY <1>1, <1>4, RingFields DEF RingType
  <2>3. Queue(1)' = Queue(1) /\ \A c \in Buffers: Queued(1, c)' <=> Queued(1, c)
    BY <2>2, QueueKept DEF Slot
  <2>4. ~Queued(1, b)
    BY <1>1, <1>4, QueueIsSeq DEF PoolOK, Queues
  <2>5. Owner(1, b) = "free" /\ Owner(1, b)' = "renderer"
    BY <1>4, <2>1, <2>4, Constants DEF Owner
  <2>6. \A c \in Buffers: c # b => ring'[1].state[c] = ring[1].state[c]
    BY <1>1, <2>2, RingFields
  <2>7. \A c \in Buffers: c # b => Owner(1, c)' = Owner(1, c)
    BY <1>4, <2>1, <2>3, <2>6, Constants DEF Owner
  <2>8. Own[b] = "free" /\ Own' = [Own EXCEPT ![b] = "renderer"]
    BY <2>5, <2>7, Passes
  <2>9. Exchange!Begin(b)
    BY <2>3, <2>8 DEF Exchange!Begin, Exchange!Pass, Own
  <2>. QED  BY <2>9 DEF ExchangeStep, Exchange!Next
<1>. QED  BY <1>1, <1>2, <1>3, <1>4, AcquireEffect, Zenon

LEMMA FillsExchange ==
    ASSUME MaxFrames < IndexSpan, IInv, IInv', 1 \in Pools, NEW p \in Pools, FillSlot(p)
    PROVE  ExchangeStep
<1>1. TypeOK /\ PoolOK(1) /\ 1 \in Pools \ foreign /\ drawing[p] \in Buffers
  BY FirstIsOwn, FillSlotEffect DEF IInv
<1>2. CASE p # 1
  <2>1. ring'[1] = ring[1]
    BY <1>1, <1>2, FillSlotEffect
  <2>2. drawing'[1] = drawing[1]
    BY <1>1, <1>2 DEF FillSlot, TypeOK
  <2>. QED  BY <2>1, <2>2, SameRing
<1>3. CASE p = 1
  <2>1. CASE Full(ring[1].write, ring[1].read)
    <3>1. /\ ring'[1] = [ring[1] EXCEPT !.state = [ring[1].state EXCEPT ![drawing[1]] = 0]]
          /\ drawing' = [drawing EXCEPT ![1] = NoBuffer]
      BY <1>1, <1>3, <2>1, FillSlotEffect
    <3>. QED  BY <1>1, <1>3, <3>1, Cancels DEF TypeOK
  <2>2. CASE ~Full(ring[1].write, ring[1].read)
    <3>. DEFINE k == ring[1].write % RingSize
    <3>1. /\ ring'[1] = [ring[1] EXCEPT !.slots = [ring[1].slots EXCEPT ![k] = drawing[1]]]
          /\ drawing' = drawing
      BY <1>1, <1>3, <2>2, FillSlotEffect
    <3>2. /\ ring'[1].write = ring[1].write /\ ring'[1].read = ring[1].read
          /\ ring'[1].state = ring[1].state
          /\ ring'[1].slots = [ring[1].slots EXCEPT ![k] = drawing[1]]
      BY <1>1, <3>1, RingFields DEF RingType
    <3>. HIDE DEF k
    <3>3. ASSUME NEW i \in Waiting(1) PROVE ring'[1].slots[i % RingSize] = Slot(1, i)
      <4>1. /\ i \in Nat /\ i \in Int /\ ring[1].write \in Nat /\ RingSize \in Nat
            /\ RingSize \in Nat \ {0} /\ ring[1].read <= i /\ i < ring[1].write
            /\ ring[1].read \in Nat
        BY <1>1, <3>3, RingFields, Constants DEF Waiting
      <4>2. ring[1].write - ring[1].read < RingSize
        BY <1>1, <1>3, Constants, FewerQueued
      <4>3. i % RingSize # k
        BY <4>1, <4>2, ModApart DEF k
      <4>4. i % RingSize \in 0 .. RingSize - 1
        BY <4>1, ModRange
      <4>. QED  BY <1>1, <3>2, <4>3, <4>4, RingFields DEF Slot
    <3>. QED  BY <3>1, <3>2, <3>3, SameExchange
  <2>. QED  BY <2>1, <2>2
<1>. QED  BY <1>2, <1>3

LEMMA ShutsExchange ==
    ASSUME MaxFrames < IndexSpan, IInv, IInv', 1 \in Pools, NEW p \in Pools, Shutdown(p)
    PROVE  ExchangeStep
<1>1. TypeOK
  BY FirstIsOwn
<1>2. CASE p # 1
  BY <1>1, <1>2, ShutdownEffect, SameRing
<1>3. CASE p = 1
  BY <1>1, <1>3, ShutdownEffect, SameRing, Cancels
<1>. QED  BY <1>2, <1>3

LEMMA PublishesExchange ==
    ASSUME MaxFrames < IndexSpan, IInv, IInv', 1 \in Pools, NEW p \in Pools, PublishSlot(p)
    PROVE  ExchangeStep
<1>1. TypeOK /\ PInv /\ PoolOK(1) /\ 1 \in Pools \ foreign /\ 1 \notin foreign'
  BY FirstIsOwn DEF IInv, PInv, Ordered
<1>2. CASE p # 1
  BY <1>1, <1>2, PublishSlotEffect, SameRing
<1>3. CASE p = 1
  <2>1. /\ drawing'[1] = NoBuffer
        /\ ring'[1] = [ring[1] EXCEPT !.write = Wrap(ring[1].write + 1)]
    BY <1>1, <1>3, PublishSlotEffect
  <2>2. /\ drawing[1] \in Buffers /\ Slot(1, ring[1].write) = drawing[1]
    BY <1>1, <1>3 DEF PInv, Filled, Filling, PublishSlot, TypeOK
  <2>3. PICK b \in Buffers: b = drawing[1]
    BY <2>2
  <2>4. Wrap(ring[1].write + 1) = ring[1].write + 1
    <3>1. ring[1].write + 1 \in Nat /\ ring[1].write + 1 <= MaxFrames
      <4>1. ring[1].write \in Nat /\ frames <= MaxFrames /\ frames \in Nat
        BY WriteBounded
      <4>2. ring[1].write + 1 <= frames
        BY <1>1, <2>2, Constants DEF PInv, Counted
      <4>. QED  BY <4>1, <4>2, Constants
    <3>. QED  BY <3>1, WrapSmall
  <2>5. /\ ring'[1].write = ring[1].write + 1 /\ ring'[1].read = ring[1].read
        /\ ring'[1].slots = ring[1].slots /\ ring'[1].state = ring[1].state
    BY <1>1, <2>1, <2>4, RingFields DEF RingType
  <2>6. /\ Queue(1) \in Seq(Buffers) /\ Len(Queue(1)) = ring[1].write - ring[1].read
        /\ \A i \in 1 .. Len(Queue(1)): Queue(1)[i] = Slot(1, ring[1].read + i - 1)
        /\ \A c \in Buffers: Queued(1, c) <=> \E i \in 1 .. Len(Queue(1)): Queue(1)[i] = c
    <3>1. /\ Queue(1) \in Seq(Buffers) /\ Len(Queue(1)) = ring[1].write - ring[1].read
          /\ \A i \in 1 .. Len(Queue(1)): Queue(1)[i] = Slot(1, ring[1].read + i - 1)
      BY <1>1, QueueIsSeq
    <3>2. DOMAIN Queue(1) = 1 .. Len(Queue(1))
      BY <3>1
    <3>. QED  BY <3>1, <3>2 DEF Queued
  <2>. DEFINE r == ring'[1]
  <2>7. /\ Queue(1)' \in Seq(Buffers) /\ Len(Queue(1)') = Len(Queue(1)) + 1
        /\ \A i \in 1 .. Len(Queue(1)'): Queue(1)'[i] = Slot(1, ring[1].read + i - 1)
        /\ \A c \in Buffers: Queued(1, c)' <=> \E i \in 1 .. Len(Queue(1)'): Queue(1)'[i] = c
    <3>1. /\ Queue(1)' \in Seq(Buffers) /\ Len(Queue(1)') = r.write - r.read
          /\ \A i \in 1 .. Len(Queue(1)'): Queue(1)'[i] = r.slots[(r.read + i - 1) % RingSize]
          /\ \A c \in Buffers: Queued(1, c)' <=> \E i \in 1 .. Len(Queue(1)'): Queue(1)'[i] = c
      <4>. HIDE DEF r
      <4>1. r = ring'[1] /\ 1 \notin foreign'
        BY <1>1 DEF r
      <4>2. NextQueue(1, r)
        BY <4>1, NextQueueIsSeq
      <4>. QED  BY <4>2, Zenon DEF NextQueue
    <3>2. Len(Queue(1)') = Len(Queue(1)) + 1
      <4>1. ring[1].read \in Nat /\ ring[1].write \in Nat
        BY <1>1, RingFields
      <4>2. Len(Queue(1)') = (ring[1].write + 1) - ring[1].read
        BY <2>5, <3>1
      <4>. QED  BY <2>6, <4>1, <4>2, MovedByOne
    <3>3. \A i \in 1 .. Len(Queue(1)'): Queue(1)'[i] = Slot(1, ring[1].read + i - 1)
      BY <2>5, <3>1 DEF Slot
    <3>. QED  BY <3>1, <3>2, <3>3, Zenon
  <2>8. Queue(1)' = Append(Queue(1), b)
    <3>1. /\ Append(Queue(1), b) \in Seq(Buffers)
          /\ Len(Append(Queue(1), b)) = Len(Queue(1)) + 1
          /\ \A i \in 1 .. Len(Queue(1)): Append(Queue(1), b)[i] = Queue(1)[i]
          /\ Append(Queue(1), b)[Len(Queue(1)) + 1] = b
      BY <2>6, AppendProperties
    <3>2. Len(Queue(1)) \in Nat /\ ring[1].read + (Len(Queue(1)) + 1) - 1 = ring[1].write
      BY <1>1, <2>6, RingFields
    <3>3. ASSUME NEW i \in 1 .. Len(Queue(1)') PROVE Queue(1)'[i] = Append(Queue(1), b)[i]
      <4>1. CASE i = Len(Queue(1)) + 1
        <5>1. Queue(1)'[i] = Slot(1, ring[1].write)
          BY <2>7, <3>2, <3>3, <4>1
        <5>. QED  BY <2>2, <2>3, <3>1, <4>1, <5>1
      <4>2. CASE i # Len(Queue(1)) + 1
        <5>1. i \in 1 .. Len(Queue(1))
          BY <2>7, <3>2, <3>3, <4>2
        <5>. QED  BY <2>6, <2>7, <3>1, <3>3, <5>1
      <4>. QED  BY <4>1, <4>2, Zenon
    <3>. QED  BY <2>7, <3>1, <3>3, SeqEqual, Zenon
  <2>9. \A c \in Buffers: Queued(1, c)' <=> Queued(1, c) \/ c = b
    <3>1. Len(Queue(1)) \in Nat /\ ring[1].read + (Len(Queue(1)) + 1) - 1 = ring[1].write
      BY <1>1, <2>6, RingFields
    <3>2. Queue(1)'[Len(Queue(1)) + 1] = b
      BY <2>2, <2>3, <2>7, <3>1
    <3>3. \A i \in 1 .. Len(Queue(1)): i \in 1 .. Len(Queue(1)') /\ Queue(1)'[i] = Queue(1)[i]
      BY <2>6, <2>7, <3>1
    <3>4. \A i \in 1 .. Len(Queue(1)'): i \in 1 .. Len(Queue(1)) \/ i = Len(Queue(1)) + 1
      BY <2>7, <3>1
    <3>5. Len(Queue(1)) + 1 \in 1 .. Len(Queue(1)')
      BY <2>7, <3>1
    <3>. QED  BY <2>6, <2>7, <3>2, <3>3, <3>4, <3>5, Zenon
  <2>10. Owner(1, b) = "renderer" /\ Owner(1, b)' = "queued"
    BY <2>1, <2>3, <2>9, Constants DEF Owner
  <2>11. \A c \in Buffers: c # b => Owner(1, c)' = Owner(1, c)
    BY <2>1, <2>3, <2>5, <2>9, Constants DEF Owner
  <2>12. Own[b] = "renderer" /\ Own' = [Own EXCEPT ![b] = "queued"]
    BY <2>10, <2>11, Passes
  <2>13. Exchange!Submit(b)
    BY <2>8, <2>12 DEF Exchange!Submit, Exchange!Pass, Own
  <2>. QED  BY <2>13 DEF ExchangeStep, Exchange!Next
<1>. QED  BY <1>2, <1>3

LEMMA TakesExchange ==
    ASSUME MaxFrames < IndexSpan, IInv, IInv', 1 \in Pools, NEW p \in Pools, AdvanceRead(p)
    PROVE  ExchangeStep
<1>1. TypeOK /\ PInv /\ PoolOK(1) /\ 1 \in Pools \ foreign /\ 1 \notin foreign' /\ drawing' = drawing
  BY FirstIsOwn DEF IInv, PInv, Ordered, AdvanceRead, Others
<1>2. CASE p # 1
  BY <1>1, <1>2, AdvanceReadEffect, SameRing, Zenon
<1>3. CASE p = 1
  <2>1. capture.pool = 1 /\ capture.pc \in {"copied", "copiedLast"}
    BY <1>1, <1>3 DEF AdvanceRead, Reaches, At
  <2>2. /\ capture.index = ring[1].read /\ ring[1].read < ring[1].write
        /\ ring[1].write <= MaxFrames
    BY <1>1, <2>1, WriteBounded DEF PInv, Copied
  <2>3. Wrap(capture.index + 1) = ring[1].read + 1
    <3>1. ring[1].read + 1 \in Nat /\ ring[1].read + 1 <= MaxFrames
      <4>1. ring[1].read \in Nat /\ ring[1].write \in Nat
        BY <1>1, RingFields
      <4>. QED  BY <2>2, <4>1, NextFrame
    <3>. QED  BY <2>2, <3>1, WrapSmall
  <2>4. /\ ring'[1].write = ring[1].write /\ ring'[1].read = ring[1].read + 1
        /\ ring'[1].slots = ring[1].slots /\ ring'[1].state = ring[1].state
    BY <1>1, <1>3, <2>3, AdvanceReadEffect, RingFields, Zenon DEF RingType
  <2>5. /\ Queue(1) \in Seq(Buffers) /\ Len(Queue(1)) = ring[1].write - ring[1].read
        /\ \A i \in 1 .. Len(Queue(1)): Queue(1)[i] = Slot(1, ring[1].read + i - 1)
        /\ \A c \in Buffers: Queued(1, c) <=> \E i \in 1 .. Len(Queue(1)): Queue(1)[i] = c
    <3>1. /\ Queue(1) \in Seq(Buffers) /\ Len(Queue(1)) = ring[1].write - ring[1].read
          /\ \A i \in 1 .. Len(Queue(1)): Queue(1)[i] = Slot(1, ring[1].read + i - 1)
      BY <1>1, QueueIsSeq
    <3>2. DOMAIN Queue(1) = 1 .. Len(Queue(1))
      BY <3>1
    <3>. QED  BY <3>1, <3>2 DEF Queued
  <2>6. Len(Queue(1)) \in Nat \ {0} /\ Queue(1) # <<>>
    BY <1>1, <2>2, <2>5, RingFields
  <2>7. PICK b \in Buffers: b = Slot(1, ring[1].read)
    <3>1. ring[1].read \in Waiting(1)
      BY <1>1, <2>2, RingFields DEF Waiting
    <3>. QED  BY <1>1, <3>1 DEF PoolOK, Queues
  <2>8. Queue(1)[1] = b /\ Head(Queue(1)) = b
    <3>1. 1 \in 1 .. Len(Queue(1)) /\ ring[1].read + 1 - 1 = ring[1].read
      BY <1>1, <2>6, RingFields
    <3>. QED  BY <2>5, <2>7, <3>1
  <2>. DEFINE r == ring'[1]
  <2>9. /\ Queue(1)' \in Seq(Buffers) /\ Len(Queue(1)') = Len(Queue(1)) - 1
        /\ \A i \in 1 .. Len(Queue(1)'): Queue(1)'[i] = Queue(1)[i + 1]
        /\ \A c \in Buffers: Queued(1, c)' <=> \E i \in 1 .. Len(Queue(1)'): Queue(1)'[i] = c
    <3>1. /\ Queue(1)' \in Seq(Buffers) /\ Len(Queue(1)') = r.write - r.read
          /\ \A i \in 1 .. Len(Queue(1)'): Queue(1)'[i] = r.slots[(r.read + i - 1) % RingSize]
          /\ \A c \in Buffers: Queued(1, c)' <=> \E i \in 1 .. Len(Queue(1)'): Queue(1)'[i] = c
      <4>. HIDE DEF r
      <4>1. r = ring'[1] /\ 1 \notin foreign'
        BY <1>1 DEF r
      <4>2. NextQueue(1, r)
        BY <4>1, NextQueueIsSeq
      <4>. QED  BY <4>2 DEF NextQueue
    <3>2. Len(Queue(1)') = Len(Queue(1)) - 1
      <4>1. ring[1].read \in Nat /\ ring[1].write \in Nat
        BY <1>1, RingFields
      <4>2. Len(Queue(1)') = ring[1].write - (ring[1].read + 1)
        BY <2>4, <3>1
      <4>3. ring[1].write - (ring[1].read + 1) = (ring[1].write - ring[1].read) - 1
        BY <4>1
      <4>. QED  BY <2>5, <4>2, <4>3, Zenon
    <3>3. ASSUME NEW i \in 1 .. Len(Queue(1)') PROVE Queue(1)'[i] = Queue(1)[i + 1]
      <4>1. i + 1 \in 1 .. Len(Queue(1)) /\ r.read + i - 1 = ring[1].read + (i + 1) - 1
        <5>1. ring[1].read \in Nat /\ r.read = ring[1].read + 1 /\ Len(Queue(1)) \in Nat
          BY <1>1, <2>4, <2>6, RingFields
        <5>2. i \in Nat /\ 1 <= i /\ i <= Len(Queue(1)) - 1
          BY <3>2, <3>3, <5>1
        <5>. HIDE DEF r
        <5>. QED  BY <5>1, <5>2
      <4>2. Queue(1)'[i] = Slot(1, ring[1].read + (i + 1) - 1)
        BY <2>4, <3>1, <3>3, <4>1 DEF Slot
      <4>. QED  BY <2>5, <4>1, <4>2
    <3>. QED  BY <3>1, <3>2, <3>3
  <2>10. Queue(1)' = Tail(Queue(1))
    <3>1. /\ Tail(Queue(1)) \in Seq(Buffers) /\ Len(Tail(Queue(1))) = Len(Queue(1)) - 1
          /\ \A i \in 1 .. Len(Tail(Queue(1))): Tail(Queue(1))[i] = Queue(1)[i + 1]
      BY <2>5, <2>6, HeadTailProperties
    <3>. QED  BY <2>9, <3>1, SeqEqual
  <2>11. ~Queued(1, b)' /\ \A c \in Buffers: c # b => (Queued(1, c)' <=> Queued(1, c))
    <3>1. ~Queued(1, b)'
      <4>1. ASSUME NEW i \in 1 .. Len(Queue(1)'), Queue(1)'[i] = b PROVE FALSE
        <5>1. i + 1 \in 1 .. Len(Queue(1)) /\ i \in Nat /\ i # 0
          BY <2>6, <2>9, <4>1
        <5>2. Slot(1, ring[1].read + (i + 1) - 1) = b
          BY <2>5, <2>9, <4>1, <5>1
        <5>3. /\ ring[1].read + (i + 1) - 1 \in Waiting(1) /\ ring[1].read \in Waiting(1)
              /\ ring[1].read + (i + 1) - 1 # ring[1].read
          <6>1. ring[1].read \in Nat /\ ring[1].write \in Nat
            BY <1>1, RingFields
          <6>2. i + 1 <= ring[1].write - ring[1].read /\ i \in Nat \ {0}
            BY <2>5, <5>1, <6>1
          <6>. QED  BY <6>1, <6>2, BehindFirst, Zenon DEF Waiting
        <5>. QED  BY <1>1, <2>7, <5>2, <5>3 DEF PoolOK, Queues
      <4>. QED  BY <2>9, <4>1
    <3>2. ASSUME NEW c \in Buffers, c # b PROVE Queued(1, c)' <=> Queued(1, c)
      <4>1. ASSUME NEW i \in 1 .. Len(Queue(1)), Queue(1)[i] = c PROVE Queued(1, c)'
        <5>1. i - 1 \in 1 .. Len(Queue(1)') /\ (i - 1) + 1 = i
          BY <2>6, <2>8, <2>9, <3>2, <4>1
        <5>. QED  BY <2>9, <4>1, <5>1, Zenon
      <4>2. ASSUME NEW i \in 1 .. Len(Queue(1)'), Queue(1)'[i] = c PROVE Queued(1, c)
        <5>1. i + 1 \in 1 .. Len(Queue(1))
          BY <2>6, <2>9, <4>2
        <5>. QED  BY <2>5, <2>9, <4>2, <5>1
      <4>. QED  BY <2>5, <2>9, <4>1, <4>2
    <3>. QED  BY <3>1, <3>2
  <2>12. Queued(1, b) /\ drawing[1] # b /\ ring[1].state[b] = 1
    <3>1. ring[1].read \in Waiting(1)
      BY <1>1, <2>2, RingFields DEF Waiting
    <3>. QED  BY <1>1, <2>7, <3>1, QueueIsSeq DEF PoolOK, Queues
  <2>13. Owner(1, b) = "queued" /\ Owner(1, b)' = "hal"
    BY <1>1, <2>4, <2>11, <2>12 DEF Owner
  <2>14. \A c \in Buffers: c # b => Owner(1, c)' = Owner(1, c)
    BY <1>1, <2>4, <2>11 DEF Owner
  <2>15. Own[b] = "queued" /\ Own' = [Own EXCEPT ![b] = "hal"]
    BY <2>13, <2>14, Passes
  <2>16. Exchange!Take
    BY <2>6, <2>8, <2>10, <2>15, Zenon DEF Exchange!Take, Exchange!Pass, Own
  <2>. QED  BY <2>16 DEF ExchangeStep, Exchange!Next
<1>. QED  BY <1>2, <1>3

LEMMA ReturnsExchange ==
    ASSUME MaxFrames < IndexSpan, IInv, IInv', 1 \in Pools, NEW p \in Pools, FreeBuffer(p)
    PROVE  ExchangeStep
<1>1. TypeOK /\ PInv /\ PoolOK(1) /\ 1 \in Pools \ foreign /\ 1 \notin foreign' /\ drawing' = drawing
  BY FirstIsOwn DEF IInv, PInv, Ordered, FreeBuffer, Others
<1>2. CASE p # 1
  BY <1>1, <1>2, FreeBufferEffect, SameRing, Zenon
<1>3. CASE p = 1
  <2>1. /\ capture.from = 1 /\ capture.pc \in {"skip", "release"} /\ attached = 1 /\ UsedOK(1)
    BY <1>1, <1>3, ReachedIsAttached DEF FreeBuffer, Reaches, At, PInv
  <2>2. PICK b \in Buffers: b = capture.held
    BY <1>1, <2>1 DEF PoolOK, Taken
  <2>3. Takes(1, b)
    BY <2>1, <2>2, Constants DEF Takes, HasHeld
  <2>4. /\ ring[1].state[b] = 1 /\ drawing[1] # b /\ ~Queued(1, b)
    BY <1>1, <2>1, <2>3, QueueIsSeq DEF PoolOK, Taken, UsedOK, Apart
  <2>5. CASE ring' = ring
    BY <1>1, <2>5, SameRing
  <2>6. CASE ring'[1] = [ring[1] EXCEPT !.state = [ring[1].state EXCEPT ![capture.held] = 0]]
    <3>1. /\ ring'[1].write = ring[1].write /\ ring'[1].read = ring[1].read
          /\ ring'[1].slots = ring[1].slots
          /\ \A c \in Buffers: ring'[1].state[c] = IF c = b THEN 0 ELSE ring[1].state[c]
      BY <1>1, <2>2, <2>6, RingFields DEF RingType
    <3>2. Queue(1)' = Queue(1) /\ \A c \in Buffers: Queued(1, c)' <=> Queued(1, c)
      BY <3>1, <1>1, QueueKept DEF Slot
    <3>3. Owner(1, b) = "hal" /\ Owner(1, b)' = "free"
      BY <1>1, <2>4, <3>1, <3>2 DEF Owner
    <3>4. \A c \in Buffers: c # b => Owner(1, c)' = Owner(1, c)
      BY <1>1, <3>1, <3>2 DEF Owner
    <3>5. Own[b] = "hal" /\ Own' = [Own EXCEPT ![b] = "free"]
      BY <3>3, <3>4, Passes
    <3>6. Exchange!Return(b)
      BY <3>2, <3>5 DEF Exchange!Return, Exchange!Pass, Own
    <3>. QED  BY <3>6 DEF ExchangeStep, Exchange!Next
  <2>. QED  BY <1>1, <1>3, <2>5, <2>6, FreeBufferEffect
<1>. QED  BY <1>2, <1>3

LEMMA ReleasesExchange ==
    ASSUME MaxFrames < IndexSpan, IInv, IInv', 1 \in Pools, NEW p \in Pools, PublishRelease(p)
    PROVE  ExchangeStep
<1>1. TypeOK /\ 1 \in Pools \ foreign /\ drawing' = drawing
  BY FirstIsOwn DEF PublishRelease, Others
<1>2. CASE p # 1
  BY <1>1, <1>2, PublishReleaseEffect, SameRing, Zenon
<1>3. CASE p = 1
  <2>1. /\ ring'[1].write = ring[1].write /\ ring'[1].read = ring[1].read
        /\ ring'[1].slots = ring[1].slots /\ ring'[1].state = ring[1].state
    BY <1>1, <1>3, PublishReleaseEffect, RingFields, Zenon DEF RingType
  <2>. QED  BY <1>1, <2>1, SameExchange DEF Slot
<1>. QED  BY <1>2, <1>3

(***************************************************************************)
(* The rings implement the exchange for the first pool: a buffer has one   *)
(* owner at a time, and the HAL takes the frames in the order in which     *)
(* endFrame submitted them.                                                *)
(***************************************************************************)
THEOREM FirstPoolImplementsExchange ==
    ASSUME MaxFrames < IndexSpan, MaxConnections >= 1
    PROVE  Spec => FirstPoolExchanges
<1>1. 1 \in Pools
  BY Constants DEF Pools
<1>2. Init => Exchange!Init
  <2>. SUFFICES ASSUME Init PROVE Exchange!Init
    OBVIOUS
  <2>1. ring[1] = NewRing /\ drawing[1] = NoBuffer
    BY <1>1 DEF Init
  <2>2. Available(1) = 0
    <3>1. ring[1].write = 0 /\ ring[1].read = 0
      BY <2>1 DEF NewRing
    <3>2. 0 \in Nat /\ 0 <= MaxFrames
      BY Constants
    <3>3. Wrap(0) = 0
      BY <3>2, WrapSmall
    <3>. QED  BY <3>1, <3>3 DEF Available
  <2>3. Queue(1) = <<>>
    BY <2>2 DEF Queue
  <2>4. \A b \in Buffers: ~Queued(1, b)
    BY <2>3 DEF Queued
  <2>5. \A b \in Buffers: Owner(1, b) = "free"
    BY <2>1, <2>4, Constants DEF Owner, NewRing
  <2>. QED  BY <2>3, <2>5 DEF Exchange!Init
<1>3. ASSUME IInv, IInv', [Next]_vars PROVE ExchangeStep
  <2>1. CASE RendererNext
    <3>1. PICK p \in Pools:
             \/ Connect(p) \/ SendRing(p) \/ SendBuffers(p) \/ ReceiveAck(p) \/ Killed(p)
             \/ DrainReleases(p) \/ AcquireFreeBuffer(p) \/ FillSlot(p) \/ PublishSlot(p)
             \/ Shutdown(p)
      BY <2>1 DEF RendererNext
    <3>2. CASE Connect(p) \/ SendRing(p) \/ SendBuffers(p) \/ ReceiveAck(p) \/ Killed(p)
      BY <1>1, <1>3, <3>2, SameRing DEF Connect, SendRing, SendBuffers, ReceiveAck, Killed
    <3>3. CASE DrainReleases(p) \/ AcquireFreeBuffer(p)
      BY <1>1, <1>3, <3>3, DrainsExchange, BeginsExchange
    <3>4. CASE FillSlot(p) \/ PublishSlot(p) \/ Shutdown(p)
      BY <1>1, <1>3, <3>4, FillsExchange, PublishesExchange, ShutsExchange
    <3>. QED  BY <3>1, <3>2, <3>3, <3>4
  <2>2. CASE ServerNext
    BY <1>1, <1>3, <2>2, SameRing DEF ServerNext, RefuseConnection, FinishSetup, BuffersFail,
       ReplacePool, Server
  <2>3. CASE CaptureNext
    <3>1. CASE GetHalInterface \/ GiveUp \/ AcquireLatest \/ FrameCopied
      BY <1>1, <1>3, <3>1, SameRing
         DEF GetHalInterface, GiveUp, AcquireLatest, FrameCopied, Others
    <3>2. ASSUME NEW p \in Pools, CopySlot(p) \/ Drained(p) PROVE ExchangeStep
      BY <1>1, <1>3, <3>2, SameRing DEF CopySlot, Drained, Others
    <3>. QED  BY <1>1, <1>3, <2>3, <3>1, <3>2, TakesExchange, ReturnsExchange, ReleasesExchange
              DEF CaptureNext
  <2>4. CASE Fault \/ UNCHANGED vars
    BY <1>1, <1>3, <2>4, SameRing DEF Fault, vars
  <2>. QED  BY <1>3, <2>1, <2>2, <2>3, <2>4 DEF Next
<1>4. IInv /\ IInv' /\ [Next]_vars => [Exchange!Next]_<<[b \in Buffers |-> Owner(1, b)], Queue(1)>>
  BY <1>3 DEF ExchangeStep, Own
<1>. QED  BY <1>2, <1>4, Inductive, PTL DEF Spec, FirstPoolExchanges, Exchange!Spec
=============================================================================
