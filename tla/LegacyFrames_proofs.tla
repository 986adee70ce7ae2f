--------------------------- MODULE LegacyFrames_proofs ---------------------------
(***************************************************************************)
(* Proofs about the legacy HAL's shared-memory path, for any number of     *)
(* writers, clients and descriptors: what the two closers of a descriptor  *)
(* leave open, and what a capture that nothing disturbed converts.         *)
(***************************************************************************)
EXTENDS LegacyFrames, TLAPS, FiniteSetTheorems

HeaderType == [format: Formats \cup {"none"}, size: Nat,
               data: Formats \cup {"none", "partial"},
               active: BOOLEAN, requested: {"none", "yuv"}]

Places == {"off", "size", "send", "loop", "resize", "frame", "copy", "dead"}

RendererType == [pc: Places, format: Formats, tries: Int, gpu: BOOLEAN]

TypeOK ==
    /\ region \in [Regions -> HeaderType] /\ renderer \in [Renderers -> RendererType]
    /\ backlog \in Seq(Regions) /\ fds \in [Fds -> Regions \cup {None}]
    /\ mapped \in Regions \cup {None} /\ steady \in BOOLEAN
    /\ capture \in [pc: {"idle", "buffer", "info", "acquire", "convert", "pattern", "result"},
                    src: Formats \cup {"none"}, got: Formats \cup {"none", "partial"}]

\* Every open descriptor is the socket's own or the one that was just received.
\* From the exchange to the end of onFdReceived they are the same.
OpenFds == {n \in Fds: fds[n] # None}

Held ==
    /\ OpenFds \subseteq {sharedFd, accept.fd}
    /\ accept.pc = "accept" => OpenFds \subseteq {sharedFd}
    /\ accept.pc = "map" => sharedFd = accept.fd
    /\ accept.pc # "accept" => accept.fd \in Fds

\* The header says what its writer draws, and only one writer is alive.
OneWriter == \A v, w \in Writers: Alive(v) /\ Alive(w) => v = w

HeaderAgrees ==
    /\ \A r \in Renderers: Alive(r) => region[Home(r)].format = renderer[r].format
    /\ \A r \in Renderers: At(r, "off") => renderer[r].format = "rgba"

\* A client's region is known to nobody before the client sends it.
Unsent ==
    \A c \in Clients: At(c, "off") =>
        /\ mapped # c
        /\ \A n \in Fds: fds[n] # c
        /\ \A i \in 1 .. Len(backlog): backlog[i] # c

\* What an undisturbed capture is about to copy.
Undisturbed ==
    /\ steady /\ capture.pc \in {"info", "acquire"} =>
          /\ mapped # None
          /\ region[mapped].data \in {region[mapped].format, "partial"}
          /\ capture.pc = "acquire" => capture.src = region[mapped].format
    /\ steady /\ capture.pc = "convert" => capture.got \in {capture.src, "partial"}

IInv == TypeOK /\ Held /\ OneWriter /\ HeaderAgrees /\ Unsent /\ Undisturbed
-----------------------------------------------------------------------------
LEMMA HomeTyped ==
    ASSUME NEW r \in Renderers
    PROVE  Home(r) \in Regions /\ (r \in Clients => Home(r) = r /\ Home(r) # File)
  BY LegacyAssumption DEF Home, Regions, Renderers, File

\* What a renderer's move leaves as it was.
LEMMA GotoEffect ==
    ASSUME TypeOK, NEW r \in Renderers, NEW s \in Places, Goto(r, s)
    PROVE  /\ renderer' \in [Renderers -> RendererType]
           /\ renderer'[r].pc = s /\ renderer'[r].format = renderer[r].format
           /\ \A q \in Renderers: q # r => renderer'[q] = renderer[q]
<1>1. renderer \in [Renderers -> RendererType] /\ renderer[r] \in RendererType
  BY DEF TypeOK
<1>2. [renderer[r] EXCEPT !.pc = s] \in RendererType
  BY <1>1 DEF RendererType
<1>3. renderer' = [renderer EXCEPT ![r] = [renderer[r] EXCEPT !.pc = s]]
  BY DEF Goto
<1>4. renderer'[r] = [renderer[r] EXCEPT !.pc = s]
  BY <1>1, <1>3
<1>5. renderer'[r].pc = s /\ renderer'[r].format = renderer[r].format
  BY <1>1, <1>4 DEF RendererType
<1>. QED  BY <1>1, <1>2, <1>3, <1>5

LEMMA HeaderEffect ==
    ASSUME TypeOK, NEW g \in Regions, NEW h \in HeaderType, region' = [region EXCEPT ![g] = h]
    PROVE  /\ region' \in [Regions -> HeaderType] /\ region'[g] = h
           /\ \A k \in Regions: k # g => region'[k] = region[k]
  BY DEF TypeOK

\* A step of a renderer that was alive and stores no format.
LEMMA HeaderKept ==
    ASSUME IInv, \A k \in Regions: region'[k].format = region[k].format,
           NEW r \in Renderers, Alive(r), ~At(r, "off")', renderer'[r].format = renderer[r].format,
           \A q \in Renderers: q # r => renderer'[q] = renderer[q]
    PROVE  OneWriter' /\ HeaderAgrees'
<1>1. \A q \in Renderers: renderer'[q].format = renderer[q].format /\ (Alive(q)' => Alive(q))
                          /\ (At(q, "off")' => At(q, "off"))
  BY DEF Alive, At
<1>2. \A q \in Renderers: region'[Home(q)].format = region[Home(q)].format
  BY HomeTyped
<1>. QED  BY <1>1, <1>2 DEF IInv, OneWriter, HeaderAgrees, Renderers


LEMMA WriterInitializeStep ==
    ASSUME IInv, NEW w \in Writers, WriterInitialize(w)
    PROVE  IInv'
<1>1. UNCHANGED <<fds, accept, sharedFd, mapped, capture>>
    BY DEF WriterInitialize, Goto, HalIdles, halVars
<1>2. TypeOK  BY DEF IInv
<1>3. /\ region' \in [Regions -> HeaderType]
      /\ region'[File].format = "rgba"
      /\ region'[File].data = region[File].data
      /\ \A k \in Regions: k # File => region'[k] = region[k]
  <2>. DEFINE h == [region[File] EXCEPT !.format = "rgba"]
  <2>1. File \in Regions /\ w \in Renderers
    BY HomeTyped DEF Regions, Renderers
  <2>2. region[File] \in HeaderType /\ renderer[w].format \in Formats
    BY <1>2, <2>1 DEF TypeOK, RendererType
  <2>3. h \in HeaderType /\ h.format = "rgba"
        /\ h.data = region[File].data
    BY <2>2 DEF HeaderType, Formats, Size
  <2>4. region' = [region EXCEPT ![File] = h]
    BY <1>2 DEF TypeOK, WriterInitialize
  <2>. HIDE DEF h
  <2>. QED  BY <1>2, <2>1, <2>3, <2>4, HeaderEffect
<1>4. /\ w \in Renderers /\ renderer' \in [Renderers -> RendererType]
      /\ renderer'[w].pc = "size" /\ renderer'[w].format = renderer[w].format
      /\ \A q \in Renderers: q # w => renderer'[q] = renderer[q]
  <2>1. Goto(w, "size") /\ "size" \in Places /\ w \in Renderers
    BY DEF WriterInitialize, Places, Renderers
  <2>. QED  BY <1>2, <2>1, GotoEffect
<1>5. backlog' \in Seq(Regions) /\ steady' \in BOOLEAN
  BY <1>2 DEF TypeOK, Disturbs, WriterInitialize
<1>6. TypeOK'
  BY <1>1, <1>2, <1>3, <1>4, <1>5 DEF TypeOK
<1>7. Held'
  BY <1>1 DEF IInv, Held, OpenFds
<1>8. OneWriter' /\ HeaderAgrees'
  <2>1. \A v \in Writers: ~Alive(v)
    BY DEF WriterInitialize, Alive
  <2>2. At(w, "off") /\ renderer[w].format = "rgba"
    BY DEF IInv, HeaderAgrees, WriterInitialize, Renderers
  <2>3. \A c \in Clients: Home(c) # File /\ Home(c) \in Regions /\ c # w
    BY HomeTyped, LegacyAssumption DEF Renderers
  <2>4. \A v \in Writers: Home(v) = File
    BY DEF Home
  <2>. QED  BY <1>3, <1>4, <2>1, <2>2, <2>3, <2>4
            DEF IInv, OneWriter, HeaderAgrees, Alive, At, Renderers
<1>9. Unsent'
  BY <1>1, <1>2, <1>4 DEF IInv, TypeOK, Unsent, At, Renderers, WriterInitialize
<1>10. Undisturbed'
  BY <1>1, <1>2, <1>3, <1>4, Zenon DEF IInv, TypeOK, Undisturbed, Disturbs, WriterInitialize
<1>. QED  BY <1>6, <1>7, <1>8, <1>9, <1>10 DEF IInv

LEMMA WriterActivateStep ==
    ASSUME IInv, NEW w \in Writers, WriterActivate(w)
    PROVE  IInv'
<1>1. UNCHANGED <<fds, accept, sharedFd, mapped, capture>>
    BY DEF WriterActivate, Goto, HalIdles, halVars
<1>2. TypeOK  BY DEF IInv
<1>3. /\ region' \in [Regions -> HeaderType]
      /\ region'[File].size = Size("rgba") /\ region'[File].active = TRUE /\ region'[File].data = "rgba"
      /\ region'[File].format = region[File].format
      /\ \A k \in Regions: k # File => region'[k] = region[k]
  <2>. DEFINE h == [region[File] EXCEPT !.size = Size("rgba"), !.active = TRUE, !.data = "rgba"]
  <2>1. File \in Regions /\ w \in Renderers
    BY HomeTyped DEF Regions, Renderers
  <2>2. region[File] \in HeaderType /\ renderer[w].format \in Formats
    BY <1>2, <2>1 DEF TypeOK, RendererType
  <2>3. h \in HeaderType /\ h.size = Size("rgba") /\ h.active = TRUE /\ h.data = "rgba"
        /\ h.format = region[File].format
    BY <2>2, Zenon DEF HeaderType, Formats, Size
  <2>4. region' = [region EXCEPT ![File] = h]
    BY <1>2, Zenon DEF TypeOK, WriterActivate
  <2>. HIDE DEF h
  <2>. QED  BY <1>2, <2>1, <2>3, <2>4, HeaderEffect
<1>4. /\ w \in Renderers /\ renderer' \in [Renderers -> RendererType]
      /\ renderer'[w].pc = "send" /\ renderer'[w].format = renderer[w].format
      /\ \A q \in Renderers: q # w => renderer'[q] = renderer[q]
  <2>1. Goto(w, "send") /\ "send" \in Places /\ w \in Renderers
    BY DEF WriterActivate, Places, Renderers
  <2>. QED  BY <1>2, <2>1, GotoEffect
<1>5. backlog' \in Seq(Regions) /\ steady' \in BOOLEAN
  BY <1>2 DEF TypeOK, Disturbs, WriterActivate
<1>6. TypeOK'
  BY <1>1, <1>2, <1>3, <1>4, <1>5 DEF TypeOK
<1>7. Held'
  BY <1>1 DEF IInv, Held, OpenFds
<1>8. OneWriter' /\ HeaderAgrees'
  <2>1. \A k \in Regions: region'[k].format = region[k].format
    BY <1>3
  <2>2. Alive(w) /\ ~At(w, "off")'
    BY <1>4 DEF WriterActivate, Alive, At
  <2>. QED  BY <1>4, <2>1, <2>2, HeaderKept
<1>9. Unsent'
  BY <1>1, <1>2, <1>4 DEF IInv, TypeOK, Unsent, At, Renderers, WriterActivate
<1>10. Undisturbed'
  BY <1>1, <1>2, <1>3, <1>4, Zenon DEF IInv, TypeOK, Undisturbed, Disturbs, WriterActivate
<1>. QED  BY <1>6, <1>7, <1>8, <1>9, <1>10 DEF IInv

LEMMA WriterSendStep ==
    ASSUME IInv, NEW w \in Writers, WriterSend(w)
    PROVE  IInv'
<1>1. UNCHANGED <<fds, accept, sharedFd, mapped, capture>>
    BY DEF WriterSend, Goto, HalIdles, halVars
<1>2. TypeOK  BY DEF IInv
<1>3. region' = region
  BY DEF WriterSend
<1>4. /\ w \in Renderers /\ renderer' \in [Renderers -> RendererType]
      /\ renderer'[w].pc = "loop" /\ renderer'[w].format = renderer[w].format
      /\ \A q \in Renderers: q # w => renderer'[q] = renderer[q]
  <2>1. Goto(w, "loop") /\ "loop" \in Places /\ w \in Renderers
    BY DEF WriterSend, Places, Renderers
  <2>. QED  BY <1>2, <2>1, GotoEffect
<1>5. backlog' \in Seq(Regions) /\ steady' \in BOOLEAN
  BY <1>2 DEF TypeOK, Regions, WriterSend
<1>6. TypeOK'
  BY <1>1, <1>2, <1>3, <1>4, <1>5 DEF TypeOK
<1>7. Held'
  BY <1>1 DEF IInv, Held, OpenFds
<1>8. OneWriter' /\ HeaderAgrees'
  <2>1. \A k \in Regions: region'[k].format = region[k].format
    BY <1>3
  <2>2. Alive(w) /\ ~At(w, "off")'
    BY <1>4 DEF WriterSend, Alive, At
  <2>. QED  BY <1>4, <2>1, <2>2, HeaderKept
<1>9. Unsent'
  BY <1>1, <1>2, <1>4, LegacyAssumption
     DEF IInv, TypeOK, Unsent, At, Renderers, File, WriterSend
<1>10. Undisturbed'
  BY <1>1, <1>2, <1>3, <1>4 DEF IInv, TypeOK, Undisturbed, WriterSend
<1>. QED  BY <1>6, <1>7, <1>8, <1>9, <1>10 DEF IInv

LEMMA ClientCreateStep ==
    ASSUME IInv, NEW c \in Clients, ClientCreate(c)
    PROVE  IInv'
<1>1. UNCHANGED <<fds, accept, sharedFd, mapped, capture>>
    BY DEF ClientCreate, Goto, HalIdles, halVars
<1>2. TypeOK  BY DEF IInv
<1>3. /\ region' \in [Regions -> HeaderType]
      /\ region'[c].format = "rgba" /\ region'[c].size = Size("rgba") /\ region'[c].active = TRUE /\ region'[c].data = "rgba"
      /\ \A k \in Regions: k # c => region'[k] = region[k]
  <2>. DEFINE h == [region[c] EXCEPT !.format = "rgba", !.size = Size("rgba"), !.active = TRUE, !.data = "rgba"]
  <2>1. c \in Regions /\ c \in Renderers
    BY HomeTyped DEF Regions, Renderers
  <2>2. region[c] \in HeaderType /\ renderer[c].format \in Formats
    BY <1>2, <2>1 DEF TypeOK, RendererType
  <2>3. h \in HeaderType /\ h.format = "rgba" /\ h.size = Size("rgba") /\ h.active = TRUE /\ h.data = "rgba"
    BY <2>2, Zenon DEF HeaderType, Formats, Size
  <2>4. region' = [region EXCEPT ![c] = h]
    BY <1>2 DEF TypeOK, ClientCreate
  <2>. HIDE DEF h
  <2>. QED  BY <1>2, <2>1, <2>3, <2>4, HeaderEffect, Zenon
<1>4. /\ c \in Renderers /\ renderer' \in [Renderers -> RendererType]
      /\ renderer'[c].pc = "send" /\ renderer'[c].format = renderer[c].format
      /\ \A q \in Renderers: q # c => renderer'[q] = renderer[q]
  <2>1. Goto(c, "send") /\ "send" \in Places /\ c \in Renderers
    BY DEF ClientCreate, Places, Renderers
  <2>. QED  BY <1>2, <2>1, GotoEffect
<1>5. backlog' \in Seq(Regions) /\ steady' \in BOOLEAN
  BY <1>2 DEF TypeOK, ClientCreate
<1>6. TypeOK'
  BY <1>1, <1>2, <1>3, <1>4, <1>5 DEF TypeOK
<1>7. Held'
  BY <1>1 DEF IInv, Held, OpenFds
<1>8. OneWriter' /\ HeaderAgrees'
  <2>1. At(c, "off") /\ c \notin Writers
    BY LegacyAssumption DEF ClientCreate
  <2>2. \A q \in Renderers: q # c => Home(q) # c /\ Home(q) \in Regions
    BY HomeTyped, LegacyAssumption DEF Home, File, Renderers
  <2>3. Home(c) = c /\ renderer[c].format = "rgba"
    BY <2>1 DEF Home, IInv, HeaderAgrees, Renderers
  <2>. QED  BY <1>3, <1>4, <2>1, <2>2, <2>3
            DEF IInv, OneWriter, HeaderAgrees, Alive, At, Renderers
<1>9. Unsent'
  BY <1>1, <1>2, <1>4 DEF IInv, TypeOK, Unsent, At, Renderers, ClientCreate
<1>10. Undisturbed'
  BY <1>1, <1>2, <1>3, <1>4 DEF IInv, TypeOK, Undisturbed, Unsent, ClientCreate
<1>. QED  BY <1>6, <1>7, <1>8, <1>9, <1>10 DEF IInv

LEMMA ClientConnectStep ==
    ASSUME IInv, NEW c \in Clients, ClientConnect(c)
    PROVE  IInv'
<1>1. UNCHANGED <<region, fds, accept, sharedFd, mapped, capture, steady>>
  BY DEF ClientConnect, HalIdles, halVars
<1>2. TypeOK /\ c \in Renderers /\ c \in Regions /\ At(c, "send")
  BY DEF IInv, ClientConnect, Renderers, Regions
<1>3. /\ renderer' \in [Renderers -> RendererType]
      /\ renderer'[c].pc \in {"loop", "send", "dead"}
      /\ renderer'[c].format = renderer[c].format
      /\ \A q \in Renderers: q # c => renderer'[q] = renderer[q]
  <2>1. CASE listening
    <3>1. Goto(c, "loop") /\ "loop" \in Places
      BY <2>1 DEF ClientConnect, Places
    <3>. QED  BY <1>2, <3>1, GotoEffect
  <2>2. CASE ~listening
    <3>. DEFINE h == [renderer[c] EXCEPT !.tries = renderer[c].tries - 1,
                                         !.pc = IF renderer[c].tries = 1 THEN "dead" ELSE "send"]
    <3>1. renderer \in [Renderers -> RendererType] /\ renderer[c] \in RendererType
      BY <1>2 DEF TypeOK
    <3>2. h \in RendererType /\ h.pc \in {"send", "dead"} /\ h.format = renderer[c].format
      <4>1. renderer[c].tries - 1 \in Int
        BY <3>1 DEF RendererType
      <4>2. (IF renderer[c].tries = 1 THEN "dead" ELSE "send") \in {"send", "dead"}
        OBVIOUS
      <4>. QED  BY <3>1, <4>1, <4>2, Zenon DEF RendererType, Places
    <3>3. renderer' = [renderer EXCEPT ![c] = h]
      BY <2>2, <3>1, Zenon DEF ClientConnect
    <3>. HIDE DEF h
    <3>. QED  BY <1>2, <3>1, <3>2, <3>3
  <2>. QED  BY <2>1, <2>2
<1>4. backlog' = backlog \/ backlog' = Append(backlog, c)
  BY DEF ClientConnect
<1>5. TypeOK'
  <2>1. backlog' \in Seq(Regions)
    BY <1>2, <1>4 DEF TypeOK
  <2>. QED  BY <1>1, <1>2, <1>3, <2>1 DEF TypeOK
<1>6. Held'
  BY <1>1 DEF IInv, Held, OpenFds
<1>7. OneWriter' /\ HeaderAgrees'
  BY <1>1, <1>2, <1>3 DEF IInv, OneWriter, HeaderAgrees, At, Alive, Renderers
<1>8. Unsent'
  <2>. SUFFICES ASSUME NEW q \in Clients, At(q, "off")'
                PROVE  /\ mapped' # q /\ \A n \in Fds: fds'[n] # q
                       /\ \A i \in 1 .. Len(backlog'): backlog'[i] # q
    BY DEF Unsent
  <2>1. q # c /\ At(q, "off")
    BY <1>3 DEF At, Renderers
  <2>2. /\ mapped # q /\ \A n \in Fds: fds[n] # q
        /\ \A i \in 1 .. Len(backlog): backlog[i] # q
    BY <2>1 DEF IInv, Unsent
  <2>3. CASE backlog' = backlog
    BY <1>1, <2>2, <2>3
  <2>4. CASE backlog' = Append(backlog, c)
    <3>1. backlog \in Seq(Regions)
      BY <1>2 DEF TypeOK
    <3>. QED  BY <1>1, <1>2, <2>1, <2>2, <2>4, <3>1
  <2>. QED  BY <1>4, <2>3, <2>4
<1>9. Undisturbed'
  BY <1>1 DEF IInv, Undisturbed
<1>. QED  BY <1>5, <1>6, <1>7, <1>8, <1>9 DEF IInv

LEMMA StoreFormatStep ==
    ASSUME IInv, NEW w \in Writers, NEW f \in Formats, Alive(w), StoreFormat(w, f)
    PROVE  IInv'
<1>1. UNCHANGED <<backlog, fds, accept, sharedFd, mapped, capture>>
  BY DEF StoreFormat, HalIdles, halVars
<1>2. TypeOK /\ w \in Renderers /\ File \in Regions
  BY DEF IInv, Renderers, Regions
<1>3. /\ region' \in [Regions -> HeaderType] /\ region'[File].format = f
      /\ \A k \in Regions: k # File => region'[k] = region[k]
  <2>. DEFINE h == [region[File] EXCEPT !.format = f]
  <2>1. region[File] \in HeaderType
    BY <1>2 DEF TypeOK
  <2>2. h \in HeaderType /\ h.format = f
    BY <2>1 DEF HeaderType
  <2>3. region' = [region EXCEPT ![File] = h]
    BY <1>2 DEF TypeOK, StoreFormat
  <2>. HIDE DEF h
  <2>. QED  BY <1>2, <2>2, <2>3, HeaderEffect
<1>4. /\ renderer' \in [Renderers -> RendererType]
      /\ renderer'[w].pc = "resize" /\ renderer'[w].format = f
      /\ \A q \in Renderers: q # w => renderer'[q] = renderer[q]
  <2>. DEFINE h == [renderer[w] EXCEPT !.format = f, !.pc = "resize"]
  <2>1. renderer \in [Renderers -> RendererType] /\ renderer[w] \in RendererType
    BY <1>2 DEF TypeOK
  <2>2. h \in RendererType /\ h.pc = "resize" /\ h.format = f
    BY <2>1, Zenon DEF RendererType, Places
  <2>3. renderer' = [renderer EXCEPT ![w] = h]
    BY <2>1, Zenon DEF StoreFormat
  <2>. HIDE DEF h
  <2>. QED  BY <1>2, <2>1, <2>2, <2>3
<1>5. steady' = (steady /\ mapped # File)
  BY DEF StoreFormat, Disturbs
<1>6. TypeOK'
  BY <1>1, <1>2, <1>3, <1>4, <1>5 DEF TypeOK
<1>7. Held'
  BY <1>1 DEF IInv, Held, OpenFds
<1>8. OneWriter' /\ HeaderAgrees'
  BY <1>2, <1>3, <1>4, HomeTyped DEF IInv, OneWriter, HeaderAgrees, At, Alive, Home, Renderers
<1>9. Unsent'
  BY <1>1, <1>4 DEF IInv, Unsent, At, Renderers
<1>10. Undisturbed'
  BY <1>1, <1>2, <1>3, <1>5, Zenon DEF IInv, TypeOK, Undisturbed
<1>. QED  BY <1>6, <1>7, <1>8, <1>9, <1>10 DEF IInv

LEMMA StoreSizeStep ==
    ASSUME IInv, NEW w \in Writers, StoreSize(w)
    PROVE  IInv'
<1>1. UNCHANGED <<fds, accept, sharedFd, mapped, capture>>
    BY DEF StoreSize, Goto, HalIdles, halVars
<1>2. TypeOK  BY DEF IInv
<1>3. /\ region' \in [Regions -> HeaderType]
      /\ region'[File].size = Size(renderer[w].format)
      /\ region'[File].format = region[File].format /\ region'[File].data = region[File].data
      /\ \A k \in Regions: k # File => region'[k] = region[k]
  <2>. DEFINE h == [region[File] EXCEPT !.size = Size(renderer[w].format)]
  <2>1. File \in Regions /\ w \in Renderers
    BY HomeTyped DEF Regions, Renderers
  <2>2. region[File] \in HeaderType /\ renderer[w].format \in Formats
    BY <1>2, <2>1 DEF TypeOK, RendererType
  <2>3. h \in HeaderType /\ h.size = Size(renderer[w].format)
        /\ h.format = region[File].format
        /\ h.data = region[File].data
    BY <2>2 DEF HeaderType, Formats, Size
  <2>4. region' = [region EXCEPT ![File] = h]
    BY <1>2 DEF TypeOK, StoreSize
  <2>. HIDE DEF h
  <2>. QED  BY <1>2, <2>1, <2>3, <2>4, HeaderEffect
<1>4. /\ w \in Renderers /\ renderer' \in [Renderers -> RendererType]
      /\ renderer'[w].pc = "frame" /\ renderer'[w].format = renderer[w].format
      /\ \A q \in Renderers: q # w => renderer'[q] = renderer[q]
  <2>1. Goto(w, "frame") /\ "frame" \in Places /\ w \in Renderers
    BY DEF StoreSize, Places, Renderers
  <2>. QED  BY <1>2, <2>1, GotoEffect
<1>5. backlog' \in Seq(Regions) /\ steady' \in BOOLEAN
  BY <1>2 DEF TypeOK, Disturbs, StoreSize
<1>6. TypeOK'
  BY <1>1, <1>2, <1>3, <1>4, <1>5 DEF TypeOK
<1>7. Held'
  BY <1>1 DEF IInv, Held, OpenFds
<1>8. OneWriter' /\ HeaderAgrees'
  <2>1. \A k \in Regions: region'[k].format = region[k].format
    BY <1>3
  <2>2. Alive(w) /\ ~At(w, "off")'
    BY <1>4 DEF StoreSize, Alive, At
  <2>. QED  BY <1>4, <2>1, <2>2, HeaderKept
<1>9. Unsent'
  BY <1>1, <1>2, <1>4 DEF IInv, TypeOK, Unsent, At, Renderers, StoreSize
<1>10. Undisturbed'
  BY <1>1, <1>2, <1>3, <1>4 DEF IInv, TypeOK, Undisturbed, Disturbs, StoreSize
<1>. QED  BY <1>6, <1>7, <1>8, <1>9, <1>10 DEF IInv

LEMMA NoSwitchStep ==
    ASSUME IInv, NEW w \in Writers, NoSwitch(w)
    PROVE  IInv'
<1>1. UNCHANGED <<fds, accept, sharedFd, mapped, capture>>
    BY DEF NoSwitch, Goto, HalIdles, halVars
<1>2. TypeOK  BY DEF IInv
<1>3. region' = region
  BY DEF NoSwitch
<1>4. /\ w \in Renderers /\ renderer' \in [Renderers -> RendererType]
      /\ renderer'[w].pc = "frame" /\ renderer'[w].format = renderer[w].format
      /\ \A q \in Renderers: q # w => renderer'[q] = renderer[q]
  <2>1. Goto(w, "frame") /\ "frame" \in Places /\ w \in Renderers
    BY DEF NoSwitch, Places, Renderers
  <2>. QED  BY <1>2, <2>1, GotoEffect
<1>5. backlog' \in Seq(Regions) /\ steady' \in BOOLEAN
  BY <1>2 DEF TypeOK, NoSwitch
<1>6. TypeOK'
  BY <1>1, <1>2, <1>3, <1>4, <1>5 DEF TypeOK
<1>7. Held'
  BY <1>1 DEF IInv, Held, OpenFds
<1>8. OneWriter' /\ HeaderAgrees'
  <2>1. \A k \in Regions: region'[k].format = region[k].format
    BY <1>3
  <2>2. Alive(w) /\ ~At(w, "off")'
    BY <1>4 DEF NoSwitch, Alive, At
  <2>. QED  BY <1>4, <2>1, <2>2, HeaderKept
<1>9. Unsent'
  BY <1>1, <1>2, <1>4 DEF IInv, TypeOK, Unsent, At, Renderers, NoSwitch
<1>10. Undisturbed'
  BY <1>1, <1>2, <1>3, <1>4 DEF IInv, TypeOK, Undisturbed, NoSwitch
<1>. QED  BY <1>6, <1>7, <1>8, <1>9, <1>10 DEF IInv

LEMMA GpuReadyStep ==
    ASSUME IInv, NEW w \in Writers, GpuReady(w)
    PROVE  IInv'
<1>1. UNCHANGED <<region, backlog, fds, accept, sharedFd, mapped, capture, steady>>
  BY DEF GpuReady, HalIdles, halVars
<1>2. TypeOK /\ w \in Renderers
  BY DEF IInv, Renderers
<1>3. /\ renderer' \in [Renderers -> RendererType]
      /\ \A q \in Renderers: renderer'[q].pc = renderer[q].pc
                             /\ renderer'[q].format = renderer[q].format
  <2>. DEFINE h == [renderer[w] EXCEPT !.gpu = TRUE]
  <2>1. renderer \in [Renderers -> RendererType] /\ renderer[w] \in RendererType
    BY <1>2 DEF TypeOK
  <2>2. h \in RendererType /\ h.pc = renderer[w].pc /\ h.format = renderer[w].format
    BY <2>1, Zenon DEF RendererType
  <2>3. renderer' = [renderer EXCEPT ![w] = h]
    BY DEF GpuReady
  <2>. HIDE DEF h
  <2>. QED  BY <1>2, <2>1, <2>2, <2>3
<1>4. TypeOK' /\ Held'
  BY <1>1, <1>2, <1>3 DEF IInv, TypeOK, Held, OpenFds
<1>5. OneWriter' /\ HeaderAgrees'
  BY <1>1, <1>3 DEF IInv, OneWriter, HeaderAgrees, At, Alive, Renderers
<1>6. Unsent' /\ Undisturbed'
  BY <1>1, <1>3 DEF IInv, Unsent, Undisturbed, At, Renderers
<1>. QED  BY <1>4, <1>5, <1>6 DEF IInv

LEMMA WriteFrameStep ==
    ASSUME IInv, NEW r \in Renderers, WriteFrame(r)
    PROVE  IInv'
<1>1. UNCHANGED <<fds, accept, sharedFd, mapped, capture>>
    BY DEF WriteFrame, Goto, HalIdles, halVars
<1>2. TypeOK  BY DEF IInv
<1>3. /\ region' \in [Regions -> HeaderType]
      /\ region'[Home(r)].data = "partial"
      /\ region'[Home(r)].format = region[Home(r)].format
      /\ \A k \in Regions: k # Home(r) => region'[k] = region[k]
  <2>. DEFINE h == [region[Home(r)] EXCEPT !.data = "partial"]
  <2>1. Home(r) \in Regions /\ r \in Renderers
    BY HomeTyped DEF Regions, Renderers
  <2>2. region[Home(r)] \in HeaderType /\ renderer[r].format \in Formats
    BY <1>2, <2>1 DEF TypeOK, RendererType
  <2>3. h \in HeaderType /\ h.data = "partial"
        /\ h.format = region[Home(r)].format
    BY <2>2 DEF HeaderType, Formats, Size
  <2>4. region' = [region EXCEPT ![Home(r)] = h]
    BY <1>2 DEF TypeOK, WriteFrame
  <2>. HIDE DEF h
  <2>. QED  BY <1>2, <2>1, <2>3, <2>4, HeaderEffect
<1>4. /\ r \in Renderers /\ renderer' \in [Renderers -> RendererType]
      /\ renderer'[r].pc = "copy" /\ renderer'[r].format = renderer[r].format
      /\ \A q \in Renderers: q # r => renderer'[q] = renderer[q]
  <2>1. Goto(r, "copy") /\ "copy" \in Places /\ r \in Renderers
    BY DEF WriteFrame, Places, Renderers
  <2>. QED  BY <1>2, <2>1, GotoEffect
<1>5. backlog' \in Seq(Regions) /\ steady' \in BOOLEAN
  BY <1>2 DEF TypeOK, WriteFrame
<1>6. TypeOK'
  BY <1>1, <1>2, <1>3, <1>4, <1>5 DEF TypeOK
<1>7. Held'
  BY <1>1 DEF IInv, Held, OpenFds
<1>8. OneWriter' /\ HeaderAgrees'
  <2>1. \A k \in Regions: region'[k].format = region[k].format
    BY <1>3
  <2>2. Alive(r) /\ ~At(r, "off")'
    BY <1>4 DEF WriteFrame, Alive, At
  <2>. QED  BY <1>4, <2>1, <2>2, HeaderKept
<1>9. Unsent'
  BY <1>1, <1>2, <1>4 DEF IInv, TypeOK, Unsent, At, Renderers, WriteFrame
<1>10. Undisturbed'
  BY <1>1, <1>2, <1>3, <1>4 DEF IInv, TypeOK, Undisturbed, WriteFrame
<1>. QED  BY <1>6, <1>7, <1>8, <1>9, <1>10 DEF IInv

LEMMA FrameWrittenStep ==
    ASSUME IInv, NEW r \in Renderers, FrameWritten(r)
    PROVE  IInv'
<1>1. UNCHANGED <<fds, accept, sharedFd, mapped, capture>>
    BY DEF FrameWritten, Goto, HalIdles, halVars
<1>2. TypeOK  BY DEF IInv
<1>3. /\ region' \in [Regions -> HeaderType]
      /\ region'[Home(r)].data = renderer[r].format
      /\ region'[Home(r)].format = region[Home(r)].format
      /\ \A k \in Regions: k # Home(r) => region'[k] = region[k]
  <2>. DEFINE h == [region[Home(r)] EXCEPT !.data = renderer[r].format]
  <2>1. Home(r) \in Regions /\ r \in Renderers
    BY HomeTyped DEF Regions, Renderers
  <2>2. region[Home(r)] \in HeaderType /\ renderer[r].format \in Formats
    BY <1>2, <2>1 DEF TypeOK, RendererType
  <2>3. h \in HeaderType /\ h.data = renderer[r].format
        /\ h.format = region[Home(r)].format
    BY <2>2 DEF HeaderType, Formats, Size
  <2>4. region' = [region EXCEPT ![Home(r)] = h]
    BY <1>2 DEF TypeOK, FrameWritten
  <2>. HIDE DEF h
  <2>. QED  BY <1>2, <2>1, <2>3, <2>4, HeaderEffect
<1>4. /\ r \in Renderers /\ renderer' \in [Renderers -> RendererType]
      /\ renderer'[r].pc = "loop" /\ renderer'[r].format = renderer[r].format
      /\ \A q \in Renderers: q # r => renderer'[q] = renderer[q]
  <2>1. Goto(r, "loop") /\ "loop" \in Places /\ r \in Renderers
    BY DEF FrameWritten, Places, Renderers
  <2>. QED  BY <1>2, <2>1, GotoEffect
<1>5. backlog' \in Seq(Regions) /\ steady' \in BOOLEAN
  BY <1>2 DEF TypeOK, FrameWritten
<1>6. TypeOK'
  BY <1>1, <1>2, <1>3, <1>4, <1>5 DEF TypeOK
<1>7. Held'
  BY <1>1 DEF IInv, Held, OpenFds
<1>8. OneWriter' /\ HeaderAgrees'
  <2>1. \A k \in Regions: region'[k].format = region[k].format
    BY <1>3
  <2>2. Alive(r) /\ ~At(r, "off")'
    BY <1>4 DEF FrameWritten, Alive, At
  <2>. QED  BY <1>4, <2>1, <2>2, HeaderKept
<1>9. Unsent'
  BY <1>1, <1>2, <1>4 DEF IInv, TypeOK, Unsent, At, Renderers, FrameWritten
<1>10. Undisturbed'
  BY <1>1, <1>2, <1>3, <1>4 DEF IInv, TypeOK, Undisturbed, HeaderAgrees, At, Alive, FrameWritten
<1>. QED  BY <1>6, <1>7, <1>8, <1>9, <1>10 DEF IInv

LEMMA ShutdownStep ==
    ASSUME IInv, NEW r \in Renderers, Shutdown(r)
    PROVE  IInv'
<1>1. UNCHANGED <<fds, accept, sharedFd, mapped, capture>>
    BY DEF Shutdown, Goto, HalIdles, halVars
<1>2. TypeOK  BY DEF IInv
<1>3. /\ region' \in [Regions -> HeaderType]
      /\ region'[Home(r)].active = FALSE
      /\ region'[Home(r)].format = region[Home(r)].format /\ region'[Home(r)].data = region[Home(r)].data
      /\ \A k \in Regions: k # Home(r) => region'[k] = region[k]
  <2>. DEFINE h == [region[Home(r)] EXCEPT !.active = FALSE]
  <2>1. Home(r) \in Regions /\ r \in Renderers
    BY HomeTyped DEF Regions, Renderers
  <2>2. region[Home(r)] \in HeaderType /\ renderer[r].format \in Formats
    BY <1>2, <2>1 DEF TypeOK, RendererType
  <2>3. h \in HeaderType /\ h.active = FALSE
        /\ h.format = region[Home(r)].format
        /\ h.data = region[Home(r)].data
    BY <2>2, Zenon DEF HeaderType, Formats, Size
  <2>4. region' = [region EXCEPT ![Home(r)] = h]
    BY <1>2 DEF TypeOK, Shutdown
  <2>. HIDE DEF h
  <2>. QED  BY <1>2, <2>1, <2>3, <2>4, HeaderEffect
<1>4. /\ r \in Renderers /\ renderer' \in [Renderers -> RendererType]
      /\ renderer'[r].pc = "dead" /\ renderer'[r].format = renderer[r].format
      /\ \A q \in Renderers: q # r => renderer'[q] = renderer[q]
  <2>1. Goto(r, "dead") /\ "dead" \in Places /\ r \in Renderers
    BY DEF Shutdown, Places, Renderers
  <2>. QED  BY <1>2, <2>1, GotoEffect
<1>5. backlog' \in Seq(Regions) /\ steady' \in BOOLEAN
  BY <1>2 DEF TypeOK, Disturbs, Shutdown
<1>6. TypeOK'
  BY <1>1, <1>2, <1>3, <1>4, <1>5 DEF TypeOK
<1>7. Held'
  BY <1>1 DEF IInv, Held, OpenFds
<1>8. OneWriter' /\ HeaderAgrees'
  <2>1. \A k \in Regions: region'[k].format = region[k].format
    BY <1>3
  <2>2. Alive(r) /\ ~At(r, "off")'
    BY <1>4 DEF Shutdown, Alive, At
  <2>. QED  BY <1>4, <2>1, <2>2, HeaderKept
<1>9. Unsent'
  BY <1>1, <1>2, <1>4 DEF IInv, TypeOK, Unsent, At, Renderers, Shutdown
<1>10. Undisturbed'
  BY <1>1, <1>2, <1>3, <1>4 DEF IInv, TypeOK, Undisturbed, Disturbs, Shutdown
<1>. QED  BY <1>6, <1>7, <1>8, <1>9, <1>10 DEF IInv

LEMMA KilledStep ==
    ASSUME IInv, NEW r \in Renderers, Killed(r)
    PROVE  IInv'
<1>1. UNCHANGED <<fds, accept, sharedFd, mapped, capture>>
    BY DEF Killed, Goto, HalIdles, halVars
<1>2. TypeOK  BY DEF IInv
<1>3. region' = region
  BY DEF Killed
<1>4. /\ r \in Renderers /\ renderer' \in [Renderers -> RendererType]
      /\ renderer'[r].pc = "dead" /\ renderer'[r].format = renderer[r].format
      /\ \A q \in Renderers: q # r => renderer'[q] = renderer[q]
  <2>1. Goto(r, "dead") /\ "dead" \in Places /\ r \in Renderers
    BY DEF Killed, Places, Renderers
  <2>. QED  BY <1>2, <2>1, GotoEffect
<1>5. backlog' \in Seq(Regions) /\ steady' \in BOOLEAN
  BY <1>2 DEF TypeOK, Killed
<1>6. TypeOK'
  BY <1>1, <1>2, <1>3, <1>4, <1>5 DEF TypeOK
<1>7. Held'
  BY <1>1 DEF IInv, Held, OpenFds
<1>8. OneWriter' /\ HeaderAgrees'
  <2>1. \A k \in Regions: region'[k].format = region[k].format
    BY <1>3
  <2>2. Alive(r) /\ ~At(r, "off")'
    BY <1>4 DEF Killed, Alive, At
  <2>. QED  BY <1>4, <2>1, <2>2, HeaderKept
<1>9. Unsent'
  BY <1>1, <1>2, <1>4 DEF IInv, TypeOK, Unsent, At, Renderers, Killed
<1>10. Undisturbed'
  BY <1>1, <1>2, <1>3, <1>4 DEF IInv, TypeOK, Undisturbed, Killed
<1>. QED  BY <1>6, <1>7, <1>8, <1>9, <1>10 DEF IInv

LEMMA StartStep ==
    ASSUME IInv, Start
    PROVE  IInv'
<1>1. UNCHANGED <<region, renderer, capture>>
    BY DEF Start, Unmoved
<1>2. TypeOK  BY DEF IInv
<1>3. TypeOK'
  BY <1>1, <1>2 DEF TypeOK, Start
<1>4. Held'
  BY <1>2 DEF IInv, TypeOK, Held, OpenFds, Start
<1>5. OneWriter' /\ HeaderAgrees'
  BY <1>1 DEF IInv, OneWriter, HeaderAgrees, Alive, At
<1>6. Unsent'
  BY <1>1, <1>2 DEF IInv, TypeOK, Unsent, At, Start
<1>7. Undisturbed'
  BY <1>1, <1>2 DEF IInv, TypeOK, Undisturbed, Start
<1>. QED  BY <1>3, <1>4, <1>5, <1>6, <1>7 DEF IInv

LEMMA ReceiveStep ==
    ASSUME IInv, Receive
    PROVE  IInv'
<1>1. UNCHANGED <<region, renderer, capture>>
    BY DEF Receive, Unmoved
<1>2. TypeOK  BY DEF IInv
<1>3. TypeOK'
  <2>1. Head(backlog) \in Regions /\ Tail(backlog) \in Seq(Regions)
    BY <1>2 DEF TypeOK, Receive
  <2>2. \E n: fds' = [fds EXCEPT ![n] = Head(backlog)]
    BY Zenon DEF Receive
  <2>3. backlog' = Tail(backlog) /\ UNCHANGED <<mapped, steady>>
    BY DEF Receive
  <2>. QED  BY <1>1, <1>2, <2>1, <2>2, <2>3, Zenon DEF TypeOK
<1>4. Held'
  <2>1. PICK conn \in Lowest(Free): \E fd \in Lowest(Free \ {conn}):
            /\ fds' = [fds EXCEPT ![fd] = Head(backlog)]
            /\ accept' = [pc |-> "exchange", fd |-> fd]
    BY Zenon DEF Receive
  <2>2. PICK fd \in Lowest(Free \ {conn}):
            /\ fds' = [fds EXCEPT ![fd] = Head(backlog)]
            /\ accept' = [pc |-> "exchange", fd |-> fd]
    BY <2>1, Zenon
  <2>3. fd \in Fds
    BY DEF Lowest, Free
  <2>4. \A n \in Fds: fds'[n] # None => n = fd \/ fds[n] # None
    BY <1>2, <2>2 DEF TypeOK
  <2>5. accept.pc = "accept" /\ sharedFd' = sharedFd
    BY DEF Receive
  <2>. QED  BY <2>2, <2>3, <2>4, <2>5 DEF IInv, Held, OpenFds
<1>5. OneWriter' /\ HeaderAgrees'
  BY <1>1 DEF IInv, OneWriter, HeaderAgrees, Alive, At
<1>6. Unsent'
  <2>1. \A n \in Fds: fds'[n] = fds[n] \/ fds'[n] = Head(backlog)
    BY <1>2 DEF TypeOK, Receive
  <2>2. backlog \in Seq(Regions) /\ backlog # <<>> /\ backlog' = Tail(backlog) /\ mapped' = mapped
    BY <1>2 DEF TypeOK, Receive
  <2>3. Head(backlog) = backlog[1] /\ \A i \in 1 .. Len(backlog'): backlog'[i] = backlog[i + 1]
    BY <2>2
  <2>4. 1 \in 1 .. Len(backlog) /\ Len(backlog') = Len(backlog) - 1 /\ Len(backlog) \in Nat
    BY <2>2
  <2>. QED  BY <1>1, <2>1, <2>2, <2>3, <2>4 DEF IInv, Unsent, At
<1>7. Undisturbed'
  BY <1>1, <1>2 DEF IInv, TypeOK, Undisturbed, Receive
<1>. QED  BY <1>3, <1>4, <1>5, <1>6, <1>7 DEF IInv

LEMMA ExchangeStep ==
    ASSUME IInv, Exchange
    PROVE  IInv'
<1>1. UNCHANGED <<region, renderer, capture>>
    BY DEF Exchange, Unmoved, Closed
<1>2. TypeOK  BY DEF IInv
<1>3. TypeOK'
  BY <1>1, <1>2, Zenon DEF TypeOK, Exchange, Closed
<1>4. Held'
  <2>1. /\ accept.pc = "exchange" /\ sharedFd' = accept.fd
        /\ accept'.fd = accept.fd /\ accept'.pc = "map"
    BY DEF IInv, Exchange
  <2>2. \A n \in Fds: fds'[n] # None => fds[n] # None /\ n # sharedFd
    BY <1>2, LegacyAssumption DEF TypeOK, Exchange, Closed, NoFd
  <2>. QED  BY <2>1, <2>2 DEF IInv, Held, OpenFds
<1>5. OneWriter' /\ HeaderAgrees'
  BY <1>1 DEF IInv, OneWriter, HeaderAgrees, Alive, At
<1>6. Unsent'
  <2>1. \A n \in Fds: fds'[n] = None \/ fds'[n] = fds[n]
    BY <1>2 DEF TypeOK, Exchange, Closed
  <2>2. UNCHANGED <<mapped, backlog>>
    BY DEF Exchange
  <2>. QED  BY <1>1, <2>1, <2>2, LegacyAssumption DEF IInv, Unsent, At
<1>7. Undisturbed'
  BY <1>1, <1>2 DEF IInv, TypeOK, Undisturbed, Exchange
<1>. QED  BY <1>3, <1>4, <1>5, <1>6, <1>7 DEF IInv

LEMMA OnFdReceivedStep ==
    ASSUME IInv, NEW noMemory \in BOOLEAN, OnFdReceived(noMemory)
    PROVE  IInv'
<1>1. UNCHANGED <<region, renderer, capture>>
    BY DEF OnFdReceived, Unmoved, Unmapped, Closed
<1>2. TypeOK  BY DEF IInv
<1>3. TypeOK'
  <2>1. /\ \A n \in Fds: fds'[n] = None \/ fds'[n] = fds[n]
        /\ fds' \in [Fds -> Regions \cup {None}]
    BY <1>2, Zenon DEF TypeOK, OnFdReceived, Unmapped, Closed
  <2>2. accept.fd \in Fds /\ Unmapped \in [Fds -> Regions \cup {None}]
    BY <1>2, Zenon DEF IInv, TypeOK, Held, OnFdReceived, Unmapped, Closed
  <2>3. mapped' \in Regions \cup {None} /\ steady' = FALSE /\ backlog' = backlog
    BY <2>2 DEF OnFdReceived
  <2>. QED  BY <1>1, <1>2, <2>1, <2>3, Zenon DEF TypeOK
<1>4. Held'
  BY <1>2 DEF IInv, TypeOK, Held, OpenFds, OnFdReceived, Unmapped, Closed
<1>5. OneWriter' /\ HeaderAgrees'
  BY <1>1 DEF IInv, OneWriter, HeaderAgrees, Alive, At
<1>6. Unsent'
  <2>1. \A n \in Fds: fds'[n] = None \/ fds'[n] = fds[n]
    BY <1>2 DEF TypeOK, OnFdReceived, Unmapped, Closed
  <2>2. accept.fd \in Fds /\ \A n \in Fds: Unmapped[n] = None \/ Unmapped[n] = fds[n]
    BY <1>2 DEF IInv, TypeOK, Held, OnFdReceived, Unmapped, Closed
  <2>3. mapped' = None \/ mapped' = fds[accept.fd]
    BY <2>2 DEF OnFdReceived
  <2>4. backlog' = backlog
    BY DEF OnFdReceived
  <2>5. \A c \in Clients: c # None
    BY LegacyAssumption
  <2>6. \A c \in Clients: At(c, "off")' => At(c, "off")
    BY <1>1 DEF At
  <2>7. \A c \in Clients: At(c, "off") => mapped' # c /\ \A n \in Fds: fds'[n] # c
    BY <2>1, <2>2, <2>3, <2>5 DEF IInv, Unsent
  <2>. QED  BY <2>4, <2>6, <2>7 DEF IInv, Unsent
<1>7. Undisturbed'
  BY <1>1, <1>2 DEF IInv, TypeOK, Undisturbed, OnFdReceived
<1>. QED  BY <1>3, <1>4, <1>5, <1>6, <1>7 DEF IInv

LEMMA OpenStep ==
    ASSUME IInv, Open
    PROVE  IInv'
<1>1. UNCHANGED <<region, renderer, backlog, fds, accept, sharedFd, mapped>>
    BY DEF Open, HalWaits
<1>2. TypeOK  BY DEF IInv
<1>3. TypeOK'
  BY <1>1, <1>2 DEF TypeOK, Open, HalWaits
<1>4. Held'
  BY <1>1 DEF IInv, Held, OpenFds
<1>5. OneWriter' /\ HeaderAgrees'
  BY <1>1 DEF IInv, OneWriter, HeaderAgrees, Alive, At
<1>6. Unsent'
  BY <1>1 DEF IInv, Unsent, At
<1>7. Undisturbed'
  BY <1>1, <1>2 DEF IInv, TypeOK, Undisturbed, Open, HalWaits
<1>. QED  BY <1>3, <1>4, <1>5, <1>6, <1>7 DEF IInv

LEMMA ConfigureStreamsStep ==
    ASSUME IInv, ConfigureStreams
    PROVE  IInv'
<1>1. UNCHANGED <<renderer, backlog, fds, accept, sharedFd, mapped, capture, steady>>
      /\ capture.pc = "idle"
  BY DEF ConfigureStreams, HalWaits, Idle
<1>2. TypeOK
  BY DEF IInv
<1>3. /\ region' \in [Regions -> HeaderType]
      /\ \A k \in Regions: region'[k].format = region[k].format
  <2>1. CASE mapped = None
    BY <2>1, <1>2 DEF TypeOK, ConfigureStreams, RequestFormat
  <2>2. CASE mapped # None
    <3>. DEFINE h == [region[mapped] EXCEPT !.requested = "yuv"]
    <3>1. mapped \in Regions /\ region[mapped] \in HeaderType
      BY <1>2, <2>2 DEF TypeOK
    <3>2. h \in HeaderType /\ h.format = region[mapped].format
      BY <3>1 DEF HeaderType
    <3>3. region' = [region EXCEPT ![mapped] = h]
      BY <1>2, <2>2 DEF TypeOK, ConfigureStreams, RequestFormat
    <3>. HIDE DEF h
    <3>. QED  BY <1>2, <3>1, <3>2, <3>3, HeaderEffect, Zenon
  <2>. QED  BY <2>1, <2>2
<1>4. TypeOK' /\ Held'
  BY <1>1, <1>2, <1>3 DEF IInv, TypeOK, Held, OpenFds
<1>5. OneWriter' /\ HeaderAgrees'
  BY <1>1, <1>3, HomeTyped DEF IInv, OneWriter, HeaderAgrees, At, Alive
<1>6. Unsent' /\ Undisturbed'
  BY <1>1 DEF IInv, Unsent, Undisturbed, At
<1>. QED  BY <1>4, <1>5, <1>6 DEF IInv

LEMMA CloseStep ==
    ASSUME IInv, Close
    PROVE  IInv'
<1>1. UNCHANGED <<region, renderer, backlog, fds, accept, sharedFd, mapped>>
    BY DEF Close, HalWaits
<1>2. TypeOK  BY DEF IInv
<1>3. TypeOK'
  BY <1>1, <1>2 DEF TypeOK, Close, HalWaits
<1>4. Held'
  BY <1>1 DEF IInv, Held, OpenFds
<1>5. OneWriter' /\ HeaderAgrees'
  BY <1>1 DEF IInv, OneWriter, HeaderAgrees, Alive, At
<1>6. Unsent'
  BY <1>1 DEF IInv, Unsent, At
<1>7. Undisturbed'
  BY <1>1, <1>2 DEF IInv, TypeOK, Undisturbed, Close, HalWaits
<1>. QED  BY <1>3, <1>4, <1>5, <1>6, <1>7 DEF IInv

LEMMA ProcessSingleRequestStep ==
    ASSUME IInv, ProcessSingleRequest
    PROVE  IInv'
<1>1. UNCHANGED <<region, renderer, backlog, fds, accept, sharedFd, mapped>>
    BY DEF ProcessSingleRequest, Renders, renderVars, halVars, NoCapture
<1>2. TypeOK  BY DEF IInv
<1>3. TypeOK'
  BY <1>1, <1>2 DEF TypeOK, Formats, ProcessSingleRequest, NoCapture
<1>4. Held'
  BY <1>1 DEF IInv, Held, OpenFds
<1>5. OneWriter' /\ HeaderAgrees'
  BY <1>1 DEF IInv, OneWriter, HeaderAgrees, Alive, At
<1>6. Unsent'
  BY <1>1 DEF IInv, Unsent, At
<1>7. Undisturbed'
  BY <1>1, <1>2 DEF IInv, TypeOK, Undisturbed, ProcessSingleRequest
<1>. QED  BY <1>3, <1>4, <1>5, <1>6, <1>7 DEF IInv

LEMMA ImportFailsStep ==
    ASSUME IInv, ImportFails
    PROVE  IInv'
<1>1. UNCHANGED <<region, renderer, backlog, fds, accept, sharedFd, mapped>>
    BY DEF ImportFails, Filled, Renders, renderVars, halVars, NoCapture
<1>2. TypeOK  BY DEF IInv
<1>3. TypeOK'
  BY <1>1, <1>2 DEF TypeOK, Formats, ImportFails, Filled, NoCapture
<1>4. Held'
  BY <1>1 DEF IInv, Held, OpenFds
<1>5. OneWriter' /\ HeaderAgrees'
  BY <1>1 DEF IInv, OneWriter, HeaderAgrees, Alive, At
<1>6. Unsent'
  BY <1>1 DEF IInv, Unsent, At
<1>7. Undisturbed'
  BY <1>1, <1>2 DEF IInv, TypeOK, Undisturbed, ImportFails, Filled
<1>. QED  BY <1>3, <1>4, <1>5, <1>6, <1>7 DEF IInv

LEMMA FillFromV2Step ==
    ASSUME IInv, FillFromV2
    PROVE  IInv'
<1>1. UNCHANGED <<region, renderer, backlog, fds, accept, sharedFd, mapped>>
    BY DEF FillFromV2, Filled, Renders, renderVars, halVars, NoCapture
<1>2. TypeOK  BY DEF IInv
<1>3. TypeOK'
  BY <1>1, <1>2 DEF TypeOK, Formats, FillFromV2, Filled, NoCapture
<1>4. Held'
  BY <1>1 DEF IInv, Held, OpenFds
<1>5. OneWriter' /\ HeaderAgrees'
  BY <1>1 DEF IInv, OneWriter, HeaderAgrees, Alive, At
<1>6. Unsent'
  BY <1>1 DEF IInv, Unsent, At
<1>7. Undisturbed'
  BY <1>1, <1>2 DEF IInv, TypeOK, Undisturbed, FillFromV2, Filled
<1>. QED  BY <1>3, <1>4, <1>5, <1>6, <1>7 DEF IInv

LEMMA SendResultStep ==
    ASSUME IInv, SendResult
    PROVE  IInv'
<1>1. UNCHANGED <<region, renderer, backlog, fds, accept, sharedFd, mapped>>
    BY DEF SendResult, Renders, renderVars, halVars, NoCapture
<1>2. TypeOK  BY DEF IInv
<1>3. TypeOK'
  BY <1>1, <1>2 DEF TypeOK, Formats, SendResult, NoCapture
<1>4. Held'
  BY <1>1 DEF IInv, Held, OpenFds
<1>5. OneWriter' /\ HeaderAgrees'
  BY <1>1 DEF IInv, OneWriter, HeaderAgrees, Alive, At
<1>6. Unsent'
  BY <1>1 DEF IInv, Unsent, At
<1>7. Undisturbed'
  BY <1>1, <1>2 DEF IInv, TypeOK, Undisturbed, SendResult, NoCapture
<1>. QED  BY <1>3, <1>4, <1>5, <1>6, <1>7 DEF IInv

LEMMA IsRendererActiveStep ==
    ASSUME IInv, IsRendererActive
    PROVE  IInv'
<1>1. UNCHANGED <<region, renderer, backlog, fds, accept, sharedFd, mapped>>
    BY DEF IsRendererActive, Pattern, Renders, renderVars, halVars, NoCapture
<1>2. TypeOK  BY DEF IInv
<1>3. TypeOK'
  BY <1>1, <1>2, Zenon DEF TypeOK, Formats, IsRendererActive, Pattern, NoCapture
<1>4. Held'
  BY <1>1 DEF IInv, Held, OpenFds
<1>5. OneWriter' /\ HeaderAgrees'
  BY <1>1 DEF IInv, OneWriter, HeaderAgrees, Alive, At
<1>6. Unsent'
  BY <1>1 DEF IInv, Unsent, At
<1>7. Undisturbed'
  BY <1>1, <1>2, Zenon DEF IInv, TypeOK, Undisturbed, IsRendererActive, Pattern, NoCapture
<1>. QED  BY <1>3, <1>4, <1>5, <1>6, <1>7 DEF IInv

LEMMA GetFrameInfoStep ==
    ASSUME IInv, GetFrameInfo
    PROVE  IInv'
<1>1. UNCHANGED <<region, renderer, backlog, fds, accept, sharedFd, mapped>>
    BY DEF GetFrameInfo, Renders, renderVars, halVars, NoCapture
<1>2. TypeOK  BY DEF IInv
<1>3. TypeOK'
  BY <1>1, <1>2, Zenon DEF TypeOK, HeaderType, Formats, GetFrameInfo
<1>4. Held'
  BY <1>1 DEF IInv, Held, OpenFds
<1>5. OneWriter' /\ HeaderAgrees'
  BY <1>1 DEF IInv, OneWriter, HeaderAgrees, Alive, At
<1>6. Unsent'
  BY <1>1 DEF IInv, Unsent, At
<1>7. Undisturbed'
  BY <1>1, <1>2 DEF IInv, TypeOK, Undisturbed, GetFrameInfo
<1>. QED  BY <1>3, <1>4, <1>5, <1>6, <1>7 DEF IInv

LEMMA AcquireFrameStep ==
    ASSUME IInv, AcquireFrame
    PROVE  IInv'
<1>1. UNCHANGED <<region, renderer, backlog, fds, accept, sharedFd, mapped>>
    BY DEF AcquireFrame, Pattern, Renders, renderVars, halVars, NoCapture
<1>2. TypeOK  BY DEF IInv
<1>3. TypeOK'
  BY <1>1, <1>2, Zenon DEF TypeOK, HeaderType, Formats, AcquireFrame, Pattern, NoCapture
<1>4. Held'
  BY <1>1 DEF IInv, Held, OpenFds
<1>5. OneWriter' /\ HeaderAgrees'
  BY <1>1 DEF IInv, OneWriter, HeaderAgrees, Alive, At
<1>6. Unsent'
  BY <1>1 DEF IInv, Unsent, At
<1>7. Undisturbed'
  BY <1>1, <1>2, Zenon DEF IInv, TypeOK, Undisturbed, AcquireFrame, Pattern, NoCapture
<1>. QED  BY <1>3, <1>4, <1>5, <1>6, <1>7 DEF IInv

LEMMA ConvertFrameStep ==
    ASSUME IInv, ConvertFrame
    PROVE  IInv'
<1>1. UNCHANGED <<region, renderer, backlog, fds, accept, sharedFd, mapped>>
    BY DEF ConvertFrame, Filled, Renders, renderVars, halVars, NoCapture
<1>2. TypeOK  BY DEF IInv
<1>3. TypeOK'
  BY <1>1, <1>2 DEF TypeOK, Formats, ConvertFrame, Filled, NoCapture
<1>4. Held'
  BY <1>1 DEF IInv, Held, OpenFds
<1>5. OneWriter' /\ HeaderAgrees'
  BY <1>1 DEF IInv, OneWriter, HeaderAgrees, Alive, At
<1>6. Unsent'
  BY <1>1 DEF IInv, Unsent, At
<1>7. Undisturbed'
  BY <1>1, <1>2 DEF IInv, TypeOK, Undisturbed, ConvertFrame, Filled
<1>. QED  BY <1>3, <1>4, <1>5, <1>6, <1>7 DEF IInv

LEMMA TestPatternStep ==
    ASSUME IInv, TestPattern
    PROVE  IInv'
<1>1. UNCHANGED <<region, renderer, backlog, fds, accept, sharedFd, mapped>>
    BY DEF TestPattern, Filled, Renders, renderVars, halVars, NoCapture
<1>2. TypeOK  BY DEF IInv
<1>3. TypeOK'
  BY <1>1, <1>2 DEF TypeOK, Formats, TestPattern, Filled, NoCapture
<1>4. Held'
  BY <1>1 DEF IInv, Held, OpenFds
<1>5. OneWriter' /\ HeaderAgrees'
  BY <1>1 DEF IInv, OneWriter, HeaderAgrees, Alive, At
<1>6. Unsent'
  BY <1>1 DEF IInv, Unsent, At
<1>7. Undisturbed'
  BY <1>1, <1>2 DEF IInv, TypeOK, Undisturbed, TestPattern, Filled
<1>. QED  BY <1>3, <1>4, <1>5, <1>6, <1>7 DEF IInv

-----------------------------------------------------------------------------
LEMMA Stutters ==
    ASSUME IInv, UNCHANGED vars
    PROVE  IInv'
<1>1. UNCHANGED <<region, renderer, backlog, fds, accept, sharedFd, mapped, capture, steady>>
  BY DEF vars
<1>2. TypeOK' /\ Held' /\ Unsent' /\ Undisturbed'
  BY <1>1 DEF IInv, TypeOK, Held, OpenFds, Unsent, Undisturbed, At
<1>3. OneWriter' /\ HeaderAgrees'
  BY <1>1 DEF IInv, OneWriter, HeaderAgrees, Alive, At
<1>. QED  BY <1>2, <1>3 DEF IInv

LEMMA InitHolds == Init => IInv
<1>. SUFFICES ASSUME Init PROVE IInv
  OBVIOUS
<1>1. TypeOK
  <2>1. region \in [Regions -> HeaderType]
    BY DEF Init, HeaderType, Formats
  <2>2. renderer \in [Renderers -> RendererType]
    BY LegacyAssumption DEF Init, RendererType, Places, Formats
  <2>3. backlog \in Seq(Regions) /\ fds \in [Fds -> Regions \cup {None}]
    BY DEF Init
  <2>4. capture = NoCapture /\ mapped = None /\ steady = FALSE
    BY DEF Init
  <2>. QED  BY <2>1, <2>2, <2>3, <2>4, Zenon DEF TypeOK, Formats, NoCapture
<1>2. Held
  BY DEF Init, Held, OpenFds
<1>3. \A r \in Renderers: At(r, "off") /\ ~Alive(r) /\ renderer[r].format = "rgba"
  BY DEF Init, At, Alive
<1>4. OneWriter /\ HeaderAgrees
  BY <1>3 DEF OneWriter, HeaderAgrees, Renderers
<1>5. Unsent
  BY LegacyAssumption DEF Init, Unsent
<1>6. Undisturbed
  BY DEF Init, Undisturbed
<1>. QED  BY <1>1, <1>2, <1>4, <1>5, <1>6 DEF IInv

(***************************************************************************)
(* The inductive invariant is kept by every step of the renderers, the     *)
(* socket's thread, the session and its captures.                          *)
(***************************************************************************)
THEOREM Inductive == Spec => []IInv
<1>1. IInv /\ [Next]_vars => IInv'
  <2>. SUFFICES ASSUME IInv, [Next]_vars PROVE IInv'
    OBVIOUS
  <2>1. CASE UNCHANGED vars
    BY <2>1, Stutters
  <2>2. ASSUME NEW w \in Writers,
               WriterInitialize(w) \/ WriterRun(w)
        PROVE  IInv'
    <3>. w \in Renderers /\ "yuv" \in Formats /\ "rgba" \in Formats
      BY DEF Renderers, Formats
    <3>1. CASE SwitchToYuv(w)
      BY <3>1, StoreFormatStep DEF SwitchToYuv, At, Alive
    <3>2. CASE GpuFails(w)
      BY <3>2, StoreFormatStep DEF GpuFails, At, Alive
    <3>. QED
      BY <2>2, <3>1, <3>2, WriterInitializeStep, WriterActivateStep, WriterSendStep,
         StoreSizeStep, NoSwitchStep, GpuReadyStep, WriteFrameStep, FrameWrittenStep
      DEF WriterRun
  <2>3. CASE \E c \in Clients: ClientCreate(c) \/ ClientConnect(c) \/ WriteFrame(c) \/ FrameWritten(c)
    BY <2>3, ClientCreateStep, ClientConnectStep, WriteFrameStep, FrameWrittenStep DEF Renderers
  <2>4. CASE \E r \in Renderers: Shutdown(r) \/ Killed(r)
    BY <2>4, ShutdownStep, KilledStep
  <2>5. CASE HalRun \/ OnFdReceived(TRUE)
    BY <2>5, StartStep, ReceiveStep, ExchangeStep, OnFdReceivedStep, Zenon DEF HalRun
  <2>6. CASE Open \/ ConfigureStreams \/ Close \/ ProcessSingleRequest \/ ImportFails \/ FillFromV2
    BY <2>6, OpenStep, ConfigureStreamsStep, CloseStep, ProcessSingleRequestStep,
       ImportFailsStep, FillFromV2Step
  <2>7. CASE CaptureRun
    BY <2>7, IsRendererActiveStep, SendResultStep, GetFrameInfoStep, AcquireFrameStep,
       ConvertFrameStep, TestPatternStep DEF CaptureRun
  <2>. QED  BY <2>1, <2>2, <2>3, <2>4, <2>5, <2>6, <2>7, Zenon DEF Next
<1>. QED  BY InitHolds, <1>1, PTL DEF Spec

LEMMA PairBound ==
    ASSUME NEW a, NEW b, NEW S, S \subseteq {a, b}
    PROVE  Cardinality(S) <= 2
<1>1. IsFiniteSet({a}) /\ Cardinality({a}) = 1
  BY FS_Singleton, Zenon
<1>2. {a, b} = {a} \cup {b}
  OBVIOUS
<1>3. IsFiniteSet({a, b}) /\ Cardinality({a, b}) <= 2
  BY <1>1, <1>2, FS_AddElement
<1>4. Cardinality(S) <= Cardinality({a, b}) /\ IsFiniteSet(S)
  BY <1>3, FS_Subset
<1>. QED  BY <1>3, <1>4, FS_CardinalityType

(***************************************************************************)
(* Renderers come and go as often as they like, mmap fails as it likes:    *)
(* VirtualCameraSocket's mSharedMemFd and the one being handed to          *)
(* onFdReceived are all the descriptors open, though two objects close     *)
(* them and one of them by a number that may have been given away.         *)
(***************************************************************************)
THEOREM DescriptorsStayBounded == Spec => []DescriptorsBounded
<1>1. IInv => DescriptorsBounded
  BY PairBound, Zenon DEF IInv, Held, OpenFds, DescriptorsBounded
<1>. QED  BY Inductive, <1>1, PTL

(***************************************************************************)
(* isRendererActive, getFrameInfo and acquireFrame take mLock one after    *)
(* the other; what fillYuvBufferFromRenderer converts is what was asked    *)
(* for unless a format or the mapping changed in between.                  *)
(***************************************************************************)
THEOREM SteadyCaptureIsRight == Spec => []SteadyFrameConverted
<1>1. IInv => SteadyFrameConverted
  BY DEF IInv, Undisturbed, SteadyFrameConverted
<1>. QED  BY Inductive, <1>1, PTL

=============================================================================
