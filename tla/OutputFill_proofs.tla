---------------------------- MODULE OutputFill_proofs ----------------------------
(***************************************************************************)
(* The compositor's promises, for any number of capture threads and sizes. *)
(*                                                                         *)
(* IInv adds to the invariants of OutputFill what makes them inductive:    *)
(* a thread in the compositor has mLock, the planes are cached under the   *)
(* size they have, and what each thread left in the GPU's stream follows   *)
(* from where its fill stands.                                             *)
(***************************************************************************)
EXTENDS OutputFill, TLAPS

\* Everything from EnsureTargets to Return runs under mLock.
LockHeld == \A t \in Threads: InGpu(t) => lock = t

\* mTried is set before mOk.
Tried == egl.ok => egl.tried

\* mYuvW and mYuvH tell the size of the packed planes.
PlanesCached == targets.planes = targets.size

\* A fill has drawn nothing before its passes, once glFinish has returned, and
\* whenever it failed.
Before == {"encode", "enter", "targets", "fence", "source", "target", "draw", "copy", "cpu"}

Clean(t) == fill[t].pc \in Before \/ (At(t, "return") /\ ~fill[t].filled)

Undrawn == \A t \in Threads: Clean(t) => ~Submitted(t, "draw")

\* A fill that is over left no draw that no fence follows.
Over(t) == fill[t].pc \in {"idle", "done"} \/ (At(t, "return") /\ fill[t].filled)

Fenced ==
    \A t \in Threads: Over(t) =>
        \A i \in DOMAIN stream: stream[i] = <<"draw", t>> =>
            \E j \in (i + 1)..Len(stream): stream[j] = <<"fence", t>>

\* A source that is not ready is waited for in the stream before it is drawn.
Awaits(t) == fill[t].pc \in {"source", "target", "draw"} /\ ~CpuReady(t)

Waited == \A t \in Threads: Awaits(t) => Submitted(t, "wait")

IInv ==
    /\ OutputTypeOK
    /\ Tried /\ ContextWithLock /\ LockHeld
    /\ PlanesCached /\ TargetsFit
    /\ Undrawn /\ Fenced
    /\ Waited /\ SamplesAfterFence

-----------------------------------------------------------------------------
\* A fill's step and result; what it was begun for stays.
FillStep(t, p, b) ==
    /\ fill' \in [Threads -> Fill]
    /\ \A u \in Threads \ {t}: fill'[u] = fill[u]
    /\ fill'[t].pc = p /\ fill'[t].filled = b
    /\ fill'[t].format = fill[t].format /\ fill'[t].size = fill[t].size

MovesTo(t, p, b) == fill' = [fill EXCEPT ![t].pc = p, ![t].filled = b]
Advanced(r, p, b) == [r EXCEPT !.pc = p, !.filled = b]

LEMMA RecordMoves ==
    ASSUME NEW r \in Fill, NEW p \in Steps, NEW b \in BOOLEAN
    PROVE  /\ Advanced(r, p, b) \in Fill
           /\ Advanced(r, p, b).pc = p /\ Advanced(r, p, b).filled = b
           /\ Advanced(r, p, b).format = r.format /\ Advanced(r, p, b).size = r.size
<1>1. /\ Advanced(r, p, b).pc = p /\ Advanced(r, p, b).filled = b
      /\ Advanced(r, p, b).format = r.format /\ Advanced(r, p, b).size = r.size
  BY DEF Fill, Advanced
<1>2. Advanced(r, p, b) \in Fill
  BY DEF Fill, Advanced
<1> QED
  BY <1>1, <1>2

LEMMA RecordReplaced ==
    ASSUME NEW t \in Threads, NEW p \in Steps, NEW b \in BOOLEAN, fill \in [Threads -> Fill],
           fill' = [fill EXCEPT ![t] = Advanced(fill[t], p, b)]
    PROVE  FillStep(t, p, b)
<1>1. fill[t] \in Fill
  OBVIOUS
<1>2. PICK n : n = Advanced(fill[t], p, b)
  OBVIOUS
<1>3. n \in Fill /\ n.pc = p /\ n.filled = b /\ n.format = fill[t].format /\ n.size = fill[t].size
  BY <1>1, <1>2, RecordMoves
<1>4. fill'[t] = n /\ (\A u \in Threads \ {t}: fill'[u] = fill[u]) /\ fill' \in [Threads -> Fill]
  BY <1>2, <1>3
<1> QED
  BY <1>3, <1>4 DEF FillStep

\* A fill advances in its own record: position, result and arguments as given.
LEMMA FillMoves ==
    ASSUME OutputTypeOK, NEW t \in Threads, NEW p \in Steps, NEW b \in BOOLEAN, MovesTo(t, p, b)
    PROVE  FillStep(t, p, b)
<1>1. fill \in [Threads -> Fill]
  BY Zenon DEF OutputTypeOK
<1>2. fill' = [fill EXCEPT ![t] = Advanced(fill[t], p, b)]
  BY <1>1, Zenon DEF MovesTo, Advanced
<1> QED
  BY <1>1, <1>2, RecordReplaced

\* A jump to another step changes the position alone.
LEMMA GotoMoves ==
    ASSUME OutputTypeOK, NEW t \in Threads, NEW p \in Steps, Goto(t, p)
    PROVE  FillStep(t, p, fill[t].filled)
<1>1. fill' = [fill EXCEPT ![t] = [@ EXCEPT !.pc = p]]
  BY DEF OutputTypeOK, Goto
<1>2. fill[t] \in Fill /\ fill'[t] = [fill[t] EXCEPT !.pc = p]
  BY <1>1 DEF OutputTypeOK
<1>3. fill'[t] \in Fill
  BY <1>2 DEF Fill
<1>4. /\ fill'[t].pc = p /\ fill'[t].filled = fill[t].filled
      /\ fill'[t].format = fill[t].format /\ fill'[t].size = fill[t].size
  BY <1>2 DEF Fill
<1>5. \A u \in Threads \ {t}: fill'[u] = fill[u]
  BY <1>1 DEF OutputTypeOK
<1>6. fill' \in [Threads -> Fill]
  BY <1>1, <1>3 DEF OutputTypeOK
<1> QED
  BY <1>4, <1>5, <1>6 DEF FillStep

\* A return ends the fill with its result and keeps what it was asked for.
LEMMA ReturnMoves ==
    ASSUME OutputTypeOK, NEW t \in Threads, NEW b \in BOOLEAN, ReturnFrom(t, b)
    PROVE  FillStep(t, IF b THEN "done" ELSE "cpu", b) /\ lock' = None
<1>1. MovesTo(t, IF b THEN "done" ELSE "cpu", b)
  BY Zenon DEF ReturnFrom, OutputTypeOK, MovesTo
<1>2. (IF b THEN "done" ELSE "cpu") \in Steps
  BY DEF Steps
<1> QED
  BY <1>1, <1>2, FillMoves, Zenon DEF ReturnFrom

\* ensureYuvTargets succeeds with planes of this size, or ends the call.
LEMMA EnsureTargetsEffect ==
    ASSUME OutputTypeOK, NEW t \in Threads, EnsureTargets(t)
    PROVE  /\ At(t, "targets") /\ UNCHANGED <<producer, stream>>
           /\ glError' \in BOOLEAN /\ egl' \in Egl /\ egl'.ok = egl.ok /\ egl'.tried = egl.tried
           /\ \/ /\ FillStep(t, "fence", fill[t].filled) /\ UNCHANGED <<lock, current>>
                 /\ \/ TargetsCached(t) /\ targets' = targets
                    \/ targets' = [planes |-> Size(t), size |-> Size(t)]
              \/ /\ FillStep(t, "cpu", FALSE) /\ lock' = None /\ Release
                 /\ targets' = NoTargets
<1>1. /\ At(t, "targets") /\ UNCHANGED <<producer, stream>>
      /\ glError' \in BOOLEAN
  BY Zenon DEF EnsureTargets, OutputTypeOK
<1>2. Goto(t, "fence") => FillStep(t, "fence", fill[t].filled)
  BY GotoMoves DEF Steps, InCompositor
<1>3. ReturnFrom(t, FALSE) => FillStep(t, "cpu", FALSE) /\ lock' = None
  BY ReturnMoves, Zenon
<1>4. CASE TargetsCached(t)
  BY <1>1, <1>2, <1>4, Zenon DEF EnsureTargets, OutputTypeOK
<1>5. CASE ~TargetsCached(t)
  <2>1. PICK y \in BOOLEAN, uv \in BOOLEAN:
          /\ egl' = Programs(y, uv)
          /\ \/ /\ targets' = [planes |-> Size(t), size |-> Size(t)]
                /\ Goto(t, "fence") /\ UNCHANGED <<lock, current>>
             \/ /\ targets' = NoTargets
                /\ ReturnFrom(t, FALSE) /\ Release
    BY <1>5, Zenon DEF EnsureTargets
  <2>2. egl' \in Egl /\ egl'.ok = egl.ok /\ egl'.tried = egl.tried
    <3>1. egl \in Egl
      BY DEF OutputTypeOK
    <3>2. [egl EXCEPT !.progY = y, !.progUv = uv] \in Egl
      BY <3>1, Zenon DEF Egl
    <3>3. [egl EXCEPT !.progY = y, !.progUv = uv].ok = egl.ok
      BY <3>1 DEF Egl
    <3>4. [egl EXCEPT !.progY = y, !.progUv = uv].tried = egl.tried
      BY <3>1 DEF Egl
    <3> QED
      BY <2>1, <3>1, <3>2, <3>3, <3>4 DEF Programs
  <2> QED
    BY <1>1, <1>2, <1>3, <2>1, <2>2, Zenon
<1> QED
  BY <1>4, <1>5, Zenon

\* imageFromAhb and imageFromHandle: on, or the end of the call.
LEMMA ImportMoves ==
    ASSUME OutputTypeOK, NEW t \in Threads, ImportSource(t) \/ ImportTarget(t)
    PROVE  /\ \/ FillStep(t, "draw", fill[t].filled) /\ UNCHANGED lock
              \/ FillStep(t, "target", fill[t].filled) /\ UNCHANGED lock
              \/ FillStep(t, "cpu", FALSE) /\ lock' = None
           /\ fill[t].pc \in {"source", "target"} /\ UNCHANGED targets
<1>1. \/ Goto(t, "draw") /\ UNCHANGED lock
      \/ Goto(t, "target") /\ UNCHANGED lock
      \/ ReturnFrom(t, FALSE)
  BY Zenon DEF ImportSource, ImportTarget
<1>2. fill[t].pc \in {"source", "target"} /\ UNCHANGED targets
  BY Zenon DEF ImportSource, ImportTarget, At
<1>3. "draw" \in Steps /\ "target" \in Steps
  BY DEF Steps, InCompositor
<1>4. Goto(t, "draw") => FillStep(t, "draw", fill[t].filled)
  BY <1>3, GotoMoves
<1>5. Goto(t, "target") => FillStep(t, "target", fill[t].filled)
  BY <1>3, GotoMoves
<1>6. ReturnFrom(t, FALSE) => FillStep(t, "cpu", FALSE) /\ lock' = None
  BY ReturnMoves, Zenon
<1> QED
  BY <1>1, <1>2, <1>4, <1>5, <1>6, Zenon

\* The native fence, or none: a result worth keeping goes with a fence or waits.
LEMMA CompleteMoves ==
    ASSUME OutputTypeOK, NEW t \in Threads, Complete(t)
    PROVE  /\ \/ FillStep(t, "finish", fill[t].filled) /\ UNCHANGED stream
              \/ /\ FillStep(t, "return", fill[t].filled) /\ fill[t].filled
                 /\ stream' = Append(stream, <<"fence", t>>)
           /\ fill[t].pc = "complete" /\ UNCHANGED <<producer, lock, targets>>
<1>1. "finish" \in Steps /\ "return" \in Steps
  BY DEF Steps, InCompositor
<1>2. Goto(t, "finish") => FillStep(t, "finish", fill[t].filled)
  BY <1>1, GotoMoves
<1>3. Goto(t, "return") => FillStep(t, "return", fill[t].filled)
  BY <1>1, GotoMoves
<1> QED
  BY <1>2, <1>3 DEF Complete, At, glVars

\* Every step of a thread moves its fill, and keeps the rest in its types.
LEMMA ThreadTypes ==
    ASSUME OutputTypeOK, NEW t \in Threads, Step(t)
    PROVE  OutputTypeOK'
<1> USE DEF Steps, InCompositor
<1>t. fill[t] \in Fill /\ fill[t].filled \in BOOLEAN
  BY DEF OutputTypeOK, Fill
<1>g. ASSUME NEW p \in Steps, Goto(t, p)
      PROVE  \E q \in Steps, b \in BOOLEAN: FillStep(t, q, b)
  BY <1>t, <1>g, GotoMoves
<1>m. ASSUME NEW p \in Steps, NEW b \in BOOLEAN,
             fill' = [fill EXCEPT ![t].pc = p, ![t].filled = b]
      PROVE  \E q \in Steps, c \in BOOLEAN: FillStep(t, q, c)
  BY <1>m, FillMoves, Zenon DEF MovesTo
<1>r. ASSUME NEW b \in BOOLEAN, ReturnFrom(t, b)
      PROVE  \E q \in Steps, c \in BOOLEAN: FillStep(t, q, c)
  BY <1>r, ReturnMoves
<1>f. ASSUME \E p \in Steps, b \in BOOLEAN: FillStep(t, p, b)
      PROVE  fill' \in [Threads -> Fill]
  BY <1>f DEF FillStep
<1>1. CASE Encode(t)
  <2>1. \E p \in Steps, b \in BOOLEAN: FillStep(t, p, b)
    <3>1. PICK b \in BOOLEAN: fill' = [fill EXCEPT ![t].pc = "done", ![t].filled = b]
      BY <1>1, Zenon DEF Encode
    <3> QED
      BY <3>1, <1>m, Zenon
  <2>2. UNCHANGED <<producer, lock, egl, current, glError, targets, stream>>
    BY <1>1 DEF Encode, glVars, OutputTypeOK
  <2> QED
    BY <1>f, <2>1, <2>2 DEF OutputTypeOK
<1>2. CASE SkipGpu(t)
  <2>1. \E p \in Steps, b \in BOOLEAN: FillStep(t, p, b)
    <3>1. Goto(t, "cpu")
      BY <1>2 DEF SkipGpu
    <3> QED
      BY <3>1, <1>g
  <2>2. UNCHANGED <<producer, lock, egl, current, glError, targets, stream>>
    BY <1>2 DEF SkipGpu, glVars, OutputTypeOK
  <2> QED
    BY <1>f, <2>1, <2>2 DEF OutputTypeOK
<1>3. CASE MakeCurrent(t)
  <2>1. \E p \in Steps, b \in BOOLEAN: FillStep(t, p, b)
    <3>1. Goto(t, "targets") \/ Goto(t, "fence")
      BY <1>3 DEF MakeCurrent
    <3> QED
      BY <3>1, <1>g
  <2>2. lock' = t /\ current' = t /\ UNCHANGED <<producer, egl, glError, targets, stream>>
    BY <1>3 DEF MakeCurrent, glVars, OutputTypeOK
  <2> QED
    BY <1>f, <2>1, <2>2 DEF OutputTypeOK
<1>4. CASE EnterFails(t)
  <2>1. \E p \in Steps, b \in BOOLEAN: FillStep(t, p, b)
    <3>1. Goto(t, "cpu")
      BY <1>4 DEF EnterFails
    <3> QED
      BY <3>1, <1>g
  <2>2. UNCHANGED <<producer, lock, egl, current, glError, targets, stream>>
    BY <1>4 DEF EnterFails, glVars, OutputTypeOK
  <2> QED
    BY <1>f, <2>1, <2>2 DEF OutputTypeOK
<1>5. CASE WaitForSource(t)
  <2>1. \E p \in Steps, b \in BOOLEAN: FillStep(t, p, b)
    <3>1. Goto(t, "source")
      BY <1>5 DEF WaitForSource
    <3> QED
      BY <3>1, <1>g
  <2>2. UNCHANGED <<producer, lock, glVars>>
    BY <1>5 DEF WaitForSource, OutputTypeOK
  <2>3. <<"wait", t>> \in Command /\ stream \in Seq(Command)
    BY DEF Command, OutputTypeOK
  <2>4. stream' = stream \/ stream' = Append(stream, <<"wait", t>>)
    BY <1>5 DEF WaitForSource, GpuWaits
  <2>5. stream' \in Seq(Command)
    BY <2>3, <2>4
  <2> QED
    BY <1>f, <2>1, <2>2, <2>5 DEF OutputTypeOK, glVars
<1>6. CASE SourceRefused(t)
  <2>1. \E p \in Steps, b \in BOOLEAN: FillStep(t, p, b)
    <3>1. ReturnFrom(t, FALSE)
      BY <1>6, Zenon DEF SourceRefused
    <3> QED
      BY <3>1, <1>g, <1>r, Zenon
  <2>2. /\ UNCHANGED <<producer, egl, glError, targets, stream>>
        /\ lock' \in {lock, None} /\ current' \in {current, None}
    BY <1>6 DEF SourceRefused, glVars, OutputTypeOK, ReturnFrom, Release
  <2> QED
    BY <1>f, <2>1, <2>2 DEF OutputTypeOK
<1>7. CASE ImportSource(t)
  <2>1. \E p \in Steps, b \in BOOLEAN: FillStep(t, p, b)
    <3>1. Goto(t, "draw") \/ Goto(t, "target") \/ ReturnFrom(t, FALSE)
      BY <1>7, Zenon DEF ImportSource
    <3> QED
      BY <3>1, <1>g, <1>r, Zenon
  <2>2. /\ UNCHANGED <<producer, egl, glError, targets, stream>>
        /\ lock' \in {lock, None} /\ current' \in {current, None}
    BY <1>7 DEF ImportSource, glVars, OutputTypeOK, ReturnFrom, Release
  <2> QED
    BY <1>f, <2>1, <2>2 DEF OutputTypeOK
<1>8. CASE ImportTarget(t)
  <2>1. \E p \in Steps, b \in BOOLEAN: FillStep(t, p, b)
    <3>1. Goto(t, "draw") \/ ReturnFrom(t, FALSE)
      BY <1>8, Zenon DEF ImportTarget
    <3> QED
      BY <3>1, <1>g, <1>r, Zenon
  <2>2. /\ UNCHANGED <<producer, egl, glError, targets, stream>>
        /\ lock' \in {lock, None} /\ current' \in {current, None}
    BY <1>8 DEF ImportTarget, glVars, OutputTypeOK, ReturnFrom, Release
  <2> QED
    BY <1>f, <2>1, <2>2 DEF OutputTypeOK
<1>9. CASE Draw(t)
  <2>1. \E p \in Steps, b \in BOOLEAN: FillStep(t, p, b)
    <3>1. PICK p \in {"complete", "return"}, b \in BOOLEAN:
            fill' = [fill EXCEPT ![t].filled = b, ![t].pc = p]
      BY <1>9, <1>t, Zenon DEF Draw, OutputTypeOK
    <3>2. fill' = [fill EXCEPT ![t].pc = p, ![t].filled = b]
      BY <3>1, Zenon DEF OutputTypeOK, Fill
    <3> QED
      BY <3>1, <3>2, <1>m, Zenon
  <2>2. UNCHANGED <<producer, lock, egl, current, targets>> /\ glError' \in BOOLEAN
    BY <1>9, Zenon DEF Draw, OutputTypeOK
  <2>3. <<"draw", t>> \in Command /\ stream \in Seq(Command)
    BY DEF Command, OutputTypeOK
  <2>4. stream' = stream \/ stream' = Append(stream, <<"draw", t>>)
    BY <1>9 DEF Draw
  <2>5. stream' \in Seq(Command)
    BY <2>3, <2>4
  <2> QED
    BY <1>f, <2>1, <2>2, <2>5 DEF OutputTypeOK, glVars
<1>10. CASE DrawPlanes(t)
  <2>1. \E p \in Steps, b \in BOOLEAN: FillStep(t, p, b)
    <3>1. PICK p \in {"finish"}, b \in BOOLEAN:
            fill' = [fill EXCEPT ![t].filled = b, ![t].pc = p]
      BY <1>10, <1>t, Zenon DEF DrawPlanes, OutputTypeOK
    <3>2. fill' = [fill EXCEPT ![t].pc = p, ![t].filled = b]
      BY <3>1, Zenon DEF OutputTypeOK, Fill
    <3> QED
      BY <3>1, <3>2, <1>m, Zenon
  <2>2. UNCHANGED <<producer, lock, egl, current, targets>> /\ glError' \in BOOLEAN
    BY <1>10 DEF DrawPlanes, OutputTypeOK
  <2>3. <<"draw", t>> \in Command /\ stream \in Seq(Command)
    BY DEF Command, OutputTypeOK
  <2>4. stream' = stream \/ stream' = Append(stream, <<"draw", t>>)
    BY <1>10 DEF DrawPlanes
  <2>5. stream' \in Seq(Command)
    BY <2>3, <2>4
  <2> QED
    BY <1>f, <2>1, <2>2, <2>5 DEF OutputTypeOK, glVars
<1>11. CASE Complete(t)
  <2>1. \E p \in Steps, b \in BOOLEAN: FillStep(t, p, b)
    <3>1. Goto(t, "return") \/ Goto(t, "finish")
      BY <1>11 DEF Complete
    <3> QED
      BY <3>1, <1>g
  <2>2. UNCHANGED <<producer, lock, glVars>>
    BY <1>11 DEF Complete, OutputTypeOK
  <2>3. <<"fence", t>> \in Command /\ stream \in Seq(Command)
    BY DEF Command, OutputTypeOK
  <2>4. stream' = stream \/ stream' = Append(stream, <<"fence", t>>)
    BY <1>11 DEF Complete
  <2>5. stream' \in Seq(Command)
    BY <2>3, <2>4
  <2> QED
    BY <1>f, <2>1, <2>2, <2>5 DEF OutputTypeOK, glVars
<1>12. CASE Finish(t)
  <2>1. \E p \in Steps, b \in BOOLEAN: FillStep(t, p, b)
    <3>1. Goto(t, "copy") \/ Goto(t, "return")
      BY <1>12 DEF Finish
    <3> QED
      BY <3>1, <1>g
  <2>2. UNCHANGED <<producer, lock, egl, current, glError, targets, stream>>
    BY <1>12 DEF Finish, glVars, OutputTypeOK
  <2> QED
    BY <1>f, <2>1, <2>2 DEF OutputTypeOK
<1>13. CASE CopyPlanes(t)
  <2>1. \E p \in Steps, b \in BOOLEAN: FillStep(t, p, b)
    <3>1. PICK b \in BOOLEAN: fill' = [fill EXCEPT ![t].pc = "return", ![t].filled = b]
      BY <1>13, Zenon DEF CopyPlanes
    <3> QED
      BY <3>1, <1>m, Zenon
  <2>2. UNCHANGED <<producer, lock, egl, current, glError, targets, stream>>
    BY <1>13 DEF CopyPlanes, glVars, OutputTypeOK
  <2> QED
    BY <1>f, <2>1, <2>2 DEF OutputTypeOK
<1>14. CASE Return(t)
  <2>1. \E p \in Steps, b \in BOOLEAN: FillStep(t, p, b)
    BY <1>14, <1>t, <1>r DEF Return
  <2>2. /\ UNCHANGED <<producer, egl, glError, targets, stream>>
        /\ lock' \in {lock, None} /\ current' \in {current, None}
    BY <1>14 DEF Return, glVars, OutputTypeOK, ReturnFrom, Release
  <2> QED
    BY <1>f, <2>1, <2>2 DEF OutputTypeOK
<1>15. CASE CpuFill(t)
  <2>1. \E p \in Steps, b \in BOOLEAN: FillStep(t, p, b)
    <3>1. PICK b \in BOOLEAN: fill' = [fill EXCEPT ![t].pc = "done", ![t].filled = b]
      BY <1>15, Zenon DEF CpuFill
    <3> QED
      BY <3>1, <1>m
  <2>2. UNCHANGED <<producer, lock, egl, current, glError, targets, stream>>
    BY <1>15 DEF CpuFill, glVars, OutputTypeOK
  <2> QED
    BY <1>f, <2>1, <2>2 DEF OutputTypeOK
<1>16. CASE EnsureInit(t)
  <2>1. egl \in Egl
    BY DEF OutputTypeOK
  <2>2. egl' \in Egl
    BY <1>16, <2>1, Zenon DEF EnsureInit, Egl
  <2>3. current' \in {None, t} /\ UNCHANGED <<fill, producer, lock, glError, targets, stream>>
    BY <1>16, Zenon DEF EnsureInit, Release
  <2> QED
    BY <2>2, <2>3 DEF OutputTypeOK
<1>17. CASE EnsureTargets(t)
  <2>1. fill[t].size \in Sizes \cup {None}
    BY <1>t DEF Fill
  <2>2. /\ UNCHANGED <<producer, stream>> /\ glError' \in BOOLEAN /\ egl' \in Egl
        /\ fill' \in [Threads -> Fill]
        /\ lock' \in {lock, None} /\ current' \in {current, None}
    BY <1>17, EnsureTargetsEffect DEF FillStep, Release
  <2>3. targets' \in {targets, [planes |-> Size(t), size |-> Size(t)], NoTargets}
    BY <1>17, EnsureTargetsEffect, Zenon
  <2>4. targets' \in [planes: Sizes \cup {None}, size: Sizes \cup {None}]
    BY <2>1, <2>3 DEF OutputTypeOK, NoTargets, Size
  <2> QED
    BY <2>2, <2>4 DEF OutputTypeOK
<1>18. CASE Done(t)
  <2>1. NoFill \in Fill
    BY DEF NoFill, Fill, Formats
  <2> QED
    BY <1>18, <2>1 DEF Done, glVars, OutputTypeOK
<1> QED
  BY <1>1, <1>2, <1>3, <1>4, <1>5, <1>6, <1>7, <1>8, <1>9, <1>10, <1>11,
     <1>12, <1>13, <1>14, <1>15, <1>16, <1>17, <1>18 DEF Step

\* Every step of the system keeps the types.
LEMMA TypeStep ==
    ASSUME OutputTypeOK, [Next]_vars
    PROVE  OutputTypeOK'
<1>1. ASSUME NEW t \in Threads, NEW f \in Formats, NEW s \in Sizes \cup {None},
             NEW fence \in {"none", "pending"}, Begin(t, f, s, fence)
      PROVE  OutputTypeOK'
  <2>1. [pc |-> IF f = "blob" THEN "encode" ELSE "enter", format |-> f, size |-> s,
         filled |-> FALSE] \in Fill
    BY DEF Fill, Steps
  <2> QED
    BY <1>1, <2>1 DEF Begin, glVars, OutputTypeOK
<1>2. ASSUME NEW t \in Threads, Signal(t)
      PROVE  OutputTypeOK'
  BY <1>2 DEF Signal, glVars, OutputTypeOK
<1>3. CASE Gpu
  BY <1>3 DEF Gpu, glVars, OutputTypeOK
<1>4. CASE UNCHANGED vars
  BY <1>4 DEF vars, OutputTypeOK
<1> QED
  BY <1>1, <1>2, <1>3, <1>4, ThreadTypes DEF Next

\* Every return gives up the context with the mutex.
LEMMA ContextStep ==
    ASSUME OutputTypeOK, Tried, ContextWithLock, [Next]_vars
    PROVE  (Tried /\ ContextWithLock)'
<1> USE OutputAssumption
<1> USE DEF Tried, ContextWithLock, OutputTypeOK, glVars, At, Goto, Format, Size
<1>1. ASSUME NEW t \in Threads, NEW f \in Formats, NEW s \in Sizes \cup {None},
            NEW fence \in {"none", "pending"}, Begin(t, f, s, fence)
     PROVE  (Tried /\ ContextWithLock)'
  BY <1>1 DEF Begin, Drained
<1>2. ASSUME NEW t \in Threads, Encode(t)
     PROVE  (Tried /\ ContextWithLock)'
  BY <1>2 DEF Encode, CpuReady
<1>3. ASSUME NEW t \in Threads, SkipGpu(t)
     PROVE  (Tried /\ ContextWithLock)'
  BY <1>3 DEF SkipGpu
<1>4. ASSUME NEW t \in Threads, EnsureInit(t)
     PROVE  (Tried /\ ContextWithLock)'
  <2>1. lock = None /\ UNCHANGED lock /\ ~egl.tried /\ egl \in Egl
    BY <1>4, Zenon DEF EnsureInit, Enters
  <2>2. CASE egl' = [egl EXCEPT !.tried = TRUE]
    <3>1. egl'.tried /\ egl'.ok = egl.ok
      BY <2>1, <2>2 DEF Egl
    <3> QED
      BY <2>1, <3>1
  <2>3. CASE /\ \E native \in BOOLEAN:
                  egl' = [egl EXCEPT !.tried = TRUE, !.ok = TRUE, !.native = native]
             /\ current' = None
    <3>1. egl'.tried
      BY <2>1, <2>3 DEF Egl
    <3> QED
      BY <2>3, <3>1
  <2> QED
    BY <1>4, <2>2, <2>3, Zenon DEF EnsureInit, Release
<1>5. ASSUME NEW t \in Threads, MakeCurrent(t)
     PROVE  (Tried /\ ContextWithLock)'
  BY <1>5 DEF MakeCurrent, Enters
<1>6. ASSUME NEW t \in Threads, EnterFails(t)
     PROVE  (Tried /\ ContextWithLock)'
  BY <1>6 DEF EnterFails, Enters
<1>7. ASSUME NEW t \in Threads, EnsureTargets(t)
     PROVE  (Tried /\ ContextWithLock)'
  BY <1>7, EnsureTargetsEffect, Zenon DEF TargetsCached, NoTargets, FillStep, Release
<1>8. ASSUME NEW t \in Threads, WaitForSource(t)
     PROVE  (Tried /\ ContextWithLock)'
  BY <1>8 DEF WaitForSource, CpuReady, GpuWaits
<1>9. ASSUME NEW t \in Threads, SourceRefused(t)
     PROVE  (Tried /\ ContextWithLock)'
  BY <1>9 DEF SourceRefused, ReturnFrom, Release
<1>10. ASSUME NEW t \in Threads, ImportSource(t)
     PROVE  (Tried /\ ContextWithLock)'
  BY <1>10 DEF ImportSource, ReturnFrom, Release
<1>11. ASSUME NEW t \in Threads, ImportTarget(t)
     PROVE  (Tried /\ ContextWithLock)'
  BY <1>11 DEF ImportTarget, ReturnFrom, Release
<1>12. ASSUME NEW t \in Threads, Draw(t)
     PROVE  (Tried /\ ContextWithLock)'
  BY <1>12 DEF Draw
<1>13. ASSUME NEW t \in Threads, DrawPlanes(t)
     PROVE  (Tried /\ ContextWithLock)'
  BY <1>13 DEF DrawPlanes
<1>14. ASSUME NEW t \in Threads, Complete(t)
     PROVE  (Tried /\ ContextWithLock)'
  BY <1>14 DEF Complete
<1>15. ASSUME NEW t \in Threads, Finish(t)
     PROVE  (Tried /\ ContextWithLock)'
  BY <1>15 DEF Finish
<1>16. ASSUME NEW t \in Threads, CopyPlanes(t)
     PROVE  (Tried /\ ContextWithLock)'
  BY <1>16 DEF CopyPlanes
<1>17. ASSUME NEW t \in Threads, Return(t)
     PROVE  (Tried /\ ContextWithLock)'
  BY <1>17 DEF Return, ReturnFrom, Release
<1>18. ASSUME NEW t \in Threads, CpuFill(t)
     PROVE  (Tried /\ ContextWithLock)'
  BY <1>18 DEF CpuFill, CpuReady
<1>19. ASSUME NEW t \in Threads, Done(t)
     PROVE  (Tried /\ ContextWithLock)'
  BY <1>19 DEF Done, NoFill
<1>20. ASSUME NEW t \in Threads, Signal(t)
     PROVE  (Tried /\ ContextWithLock)'
  BY <1>20 DEF Signal
<1>21. ASSUME Gpu
     PROVE  (Tried /\ ContextWithLock)'
  BY <1>21 DEF Gpu, CpuReady
<1>22. ASSUME UNCHANGED vars
     PROVE  (Tried /\ ContextWithLock)'
  BY <1>22 DEF vars
<1> HIDE DEF Tried, ContextWithLock, OutputTypeOK
<1> QED
  BY <1>1, <1>2, <1>3, <1>4, <1>5, <1>6, <1>7, <1>8, <1>9, <1>10, <1>11,
     <1>12, <1>13, <1>14, <1>15, <1>16, <1>17, <1>18, <1>19, <1>20, <1>21, <1>22 DEF Next, Step

\* Only a thread that has mLock moves in the compositor.
LEMMA LockStep ==
    ASSUME OutputTypeOK, LockHeld, [Next]_vars
    PROVE  LockHeld'
<1> USE OutputAssumption
<1> USE DEF LockHeld, OutputTypeOK, InGpu, InCompositor, glVars, At, Goto, Format, Size
<1>1. ASSUME NEW t \in Threads, NEW f \in Formats, NEW s \in Sizes \cup {None},
            NEW fence \in {"none", "pending"}, Begin(t, f, s, fence)
     PROVE  LockHeld'
  BY <1>1 DEF Begin, Drained
<1>2. ASSUME NEW t \in Threads, Encode(t)
     PROVE  LockHeld'
  BY <1>2 DEF Encode, CpuReady
<1>3. ASSUME NEW t \in Threads, SkipGpu(t)
     PROVE  LockHeld'
  BY <1>3 DEF SkipGpu
<1>4. ASSUME NEW t \in Threads, EnsureInit(t)
     PROVE  LockHeld'
  BY <1>4, Zenon DEF EnsureInit, Enters, Release
<1>5. ASSUME NEW t \in Threads, MakeCurrent(t)
     PROVE  LockHeld'
  BY <1>5 DEF MakeCurrent, Enters
<1>6. ASSUME NEW t \in Threads, EnterFails(t)
     PROVE  LockHeld'
  BY <1>6 DEF EnterFails, Enters
<1>7. ASSUME NEW t \in Threads, EnsureTargets(t)
     PROVE  LockHeld'
  <2> USE DEF FillStep
  <2>1. At(t, "targets") /\ lock = t
    BY <1>7, EnsureTargetsEffect, Zenon
  <2>2. \/ FillStep(t, "fence", fill[t].filled) /\ lock' = lock
        \/ FillStep(t, "cpu", FALSE) /\ lock' = None
    BY <1>7, EnsureTargetsEffect, Zenon
  <2> QED
    BY <2>1, <2>2
<1>8. ASSUME NEW t \in Threads, WaitForSource(t)
     PROVE  LockHeld'
  BY <1>8 DEF WaitForSource, CpuReady, GpuWaits
<1>9. ASSUME NEW t \in Threads, SourceRefused(t)
     PROVE  LockHeld'
  BY <1>9 DEF SourceRefused, ReturnFrom, Release
<1>10. ASSUME NEW t \in Threads, ImportSource(t)
     PROVE  LockHeld'
  BY <1>10, ImportMoves, Zenon DEF FillStep
<1>11. ASSUME NEW t \in Threads, ImportTarget(t)
     PROVE  LockHeld'
  BY <1>11, ImportMoves, Zenon DEF FillStep
<1>12. ASSUME NEW t \in Threads, Draw(t)
     PROVE  LockHeld'
  BY <1>12 DEF Draw
<1>13. ASSUME NEW t \in Threads, DrawPlanes(t)
     PROVE  LockHeld'
  BY <1>13 DEF DrawPlanes
<1>14. ASSUME NEW t \in Threads, Complete(t)
     PROVE  LockHeld'
  BY <1>14, CompleteMoves DEF FillStep
<1>15. ASSUME NEW t \in Threads, Finish(t)
     PROVE  LockHeld'
  BY <1>15 DEF Finish
<1>16. ASSUME NEW t \in Threads, CopyPlanes(t)
     PROVE  LockHeld'
  BY <1>16 DEF CopyPlanes
<1>17. ASSUME NEW t \in Threads, Return(t)
     PROVE  LockHeld'
  BY <1>17 DEF Return, ReturnFrom, Release
<1>18. ASSUME NEW t \in Threads, CpuFill(t)
     PROVE  LockHeld'
  BY <1>18 DEF CpuFill, CpuReady
<1>19. ASSUME NEW t \in Threads, Done(t)
     PROVE  LockHeld'
  BY <1>19 DEF Done, NoFill
<1>20. ASSUME NEW t \in Threads, Signal(t)
     PROVE  LockHeld'
  BY <1>20 DEF Signal
<1>21. ASSUME Gpu
     PROVE  LockHeld'
  BY <1>21 DEF Gpu, CpuReady
<1>22. ASSUME UNCHANGED vars
     PROVE  LockHeld'
  BY <1>22 DEF vars
<1> HIDE DEF LockHeld, OutputTypeOK, InGpu, InCompositor
<1> QED
  BY <1>1, <1>2, <1>3, <1>4, <1>5, <1>6, <1>7, <1>8, <1>9, <1>10, <1>11,
     <1>12, <1>13, <1>14, <1>15, <1>16, <1>17, <1>18, <1>19, <1>20, <1>21, <1>22 DEF Next, Step

\* The planes change only while their user is at EnsureTargets.
LEMMA TargetsStep ==
    ASSUME OutputTypeOK, LockHeld, PlanesCached, TargetsFit, [Next]_vars
    PROVE  (PlanesCached /\ TargetsFit)'
<1> USE OutputAssumption
<1> USE DEF PlanesCached, TargetsFit, LockHeld, OutputTypeOK, InGpu, InCompositor, glVars, At, Goto, Format, Size
<1>1. ASSUME NEW t \in Threads, NEW f \in Formats, NEW s \in Sizes \cup {None},
            NEW fence \in {"none", "pending"}, Begin(t, f, s, fence)
     PROVE  (PlanesCached /\ TargetsFit)'
  BY <1>1 DEF Begin, Drained
<1>2. ASSUME NEW t \in Threads, Encode(t)
     PROVE  (PlanesCached /\ TargetsFit)'
  BY <1>2 DEF Encode, CpuReady
<1>3. ASSUME NEW t \in Threads, SkipGpu(t)
     PROVE  (PlanesCached /\ TargetsFit)'
  BY <1>3 DEF SkipGpu
<1>4. ASSUME NEW t \in Threads, EnsureInit(t)
     PROVE  (PlanesCached /\ TargetsFit)'
  BY <1>4, Zenon DEF EnsureInit, Enters, Release
<1>5. ASSUME NEW t \in Threads, MakeCurrent(t)
     PROVE  (PlanesCached /\ TargetsFit)'
  BY <1>5 DEF MakeCurrent, Enters
<1>6. ASSUME NEW t \in Threads, EnterFails(t)
     PROVE  (PlanesCached /\ TargetsFit)'
  BY <1>6 DEF EnterFails, Enters
<1>7. ASSUME NEW t \in Threads, EnsureTargets(t)
     PROVE  (PlanesCached /\ TargetsFit)'
  <2>1. \/ FillStep(t, "fence", fill[t].filled) /\ TargetsCached(t) /\ targets' = targets
        \/ FillStep(t, "fence", fill[t].filled) /\ targets' = [planes |-> Size(t), size |-> Size(t)]
        \/ FillStep(t, "cpu", FALSE) /\ targets' = NoTargets
    BY <1>7, EnsureTargetsEffect, Zenon
  <2>2. fill[t].pc = "targets"
    BY <1>7 DEF EnsureTargets
  <2>3. \A u \in Threads \ {t}: ~InGpu(u)
    BY <2>2
  <2>4. PlanesCached'
    <3>1. targets' \in {targets, [planes |-> Size(t), size |-> Size(t)], NoTargets}
      BY <2>1, Zenon
    <3> QED
      BY <3>1 DEF NoTargets
  <2>5. TargetsFit'
    BY <2>1, <2>3 DEF FillStep, TargetsCached
  <2> QED
    BY <2>4, <2>5
<1>8. ASSUME NEW t \in Threads, WaitForSource(t)
     PROVE  (PlanesCached /\ TargetsFit)'
  BY <1>8 DEF WaitForSource, CpuReady, GpuWaits
<1>9. ASSUME NEW t \in Threads, SourceRefused(t)
     PROVE  (PlanesCached /\ TargetsFit)'
  BY <1>9 DEF SourceRefused, ReturnFrom, Release
<1>10. ASSUME NEW t \in Threads, ImportSource(t)
     PROVE  (PlanesCached /\ TargetsFit)'
  <2>1. /\ \/ FillStep(t, "draw", fill[t].filled)
           \/ FillStep(t, "target", fill[t].filled)
           \/ FillStep(t, "cpu", FALSE)
        /\ fill[t].pc \in {"source", "target"} /\ UNCHANGED targets
    BY <1>10, ImportMoves, Zenon
  <2>2. \A u \in Threads: InGpu(u)' => InGpu(u)
    BY <2>1 DEF FillStep
  <2>3. \A u \in Threads: /\ Format(u)' = Format(u) /\ Size(u)' = Size(u)
                          /\ At(u, "targets") => At(u, "targets")'
    BY <2>1 DEF FillStep
  <2> QED
    BY <2>1, <2>2, <2>3
<1>11. ASSUME NEW t \in Threads, ImportTarget(t)
     PROVE  (PlanesCached /\ TargetsFit)'
  <2>1. /\ \/ FillStep(t, "draw", fill[t].filled)
           \/ FillStep(t, "target", fill[t].filled)
           \/ FillStep(t, "cpu", FALSE)
        /\ fill[t].pc \in {"source", "target"} /\ UNCHANGED targets
    BY <1>11, ImportMoves, Zenon
  <2>2. \A u \in Threads: InGpu(u)' => InGpu(u)
    BY <2>1 DEF FillStep
  <2>3. \A u \in Threads: /\ Format(u)' = Format(u) /\ Size(u)' = Size(u)
                          /\ At(u, "targets") => At(u, "targets")'
    BY <2>1 DEF FillStep
  <2> QED
    BY <2>1, <2>2, <2>3
<1>12. ASSUME NEW t \in Threads, Draw(t)
     PROVE  (PlanesCached /\ TargetsFit)'
  BY <1>12 DEF Draw
<1>13. ASSUME NEW t \in Threads, DrawPlanes(t)
     PROVE  (PlanesCached /\ TargetsFit)'
  BY <1>13 DEF DrawPlanes
<1>14. ASSUME NEW t \in Threads, Complete(t)
     PROVE  (PlanesCached /\ TargetsFit)'
  BY <1>14, CompleteMoves DEF FillStep
<1>15. ASSUME NEW t \in Threads, Finish(t)
     PROVE  (PlanesCached /\ TargetsFit)'
  BY <1>15 DEF Finish
<1>16. ASSUME NEW t \in Threads, CopyPlanes(t)
     PROVE  (PlanesCached /\ TargetsFit)'
  BY <1>16 DEF CopyPlanes
<1>17. ASSUME NEW t \in Threads, Return(t)
     PROVE  (PlanesCached /\ TargetsFit)'
  BY <1>17 DEF Return, ReturnFrom, Release
<1>18. ASSUME NEW t \in Threads, CpuFill(t)
     PROVE  (PlanesCached /\ TargetsFit)'
  BY <1>18 DEF CpuFill, CpuReady
<1>19. ASSUME NEW t \in Threads, Done(t)
     PROVE  (PlanesCached /\ TargetsFit)'
  BY <1>19 DEF Done, NoFill
<1>20. ASSUME NEW t \in Threads, Signal(t)
     PROVE  (PlanesCached /\ TargetsFit)'
  BY <1>20 DEF Signal
<1>21. ASSUME Gpu
     PROVE  (PlanesCached /\ TargetsFit)'
  BY <1>21 DEF Gpu, CpuReady
<1>22. ASSUME UNCHANGED vars
     PROVE  (PlanesCached /\ TargetsFit)'
  BY <1>22 DEF vars
<1> HIDE DEF PlanesCached, TargetsFit, LockHeld, OutputTypeOK, InGpu, InCompositor
<1> QED
  BY <1>1, <1>2, <1>3, <1>4, <1>5, <1>6, <1>7, <1>8, <1>9, <1>10, <1>11,
     <1>12, <1>13, <1>14, <1>15, <1>16, <1>17, <1>18, <1>19, <1>20, <1>21, <1>22 DEF Next, Step

-----------------------------------------------------------------------------
\* What a step of a thread does to the GPU's stream, as far as it matters to the
\* fills: it leaves the stream alone, or submits one command.
Quiet(t) ==
    /\ stream' = stream
    /\ Clean(t)' => Clean(t) \/ Drained(t)
    /\ Over(t)' => Over(t) \/ Clean(t) \/ Drained(t)
    /\ Awaits(t)' => Awaits(t)
    /\ ~CpuReady(t)' => ~CpuReady(t) \/ Drained(t)

Submits(t) ==
    \/ /\ stream' = Append(stream, <<"wait", t>>)
       /\ Clean(t) /\ ~Over(t)'
       /\ CpuReady(t)' = CpuReady(t)
    \/ /\ stream' = Append(stream, <<"draw", t>>)
       /\ ~CpuReady(t)' => Awaits(t)
       /\ ~Clean(t)' /\ ~Over(t)' /\ ~Awaits(t)'
    \/ /\ stream' = Append(stream, <<"fence", t>>)
       /\ ~Clean(t)' /\ ~Awaits(t)'
       /\ CpuReady(t)' = CpuReady(t)

Others(t) == \A u \in Threads \ {t}: fill'[u] = fill[u] /\ producer'[u] = producer[u]

Moves ==
    \/ \E t \in Threads: Others(t) /\ (Quiet(t) \/ Submits(t))
    \/ Gpu
    \/ UNCHANGED <<fill, producer, stream>>

\* Every step is one of these.
LEMMA StepMoves ==
    ASSUME OutputTypeOK, [Next]_vars
    PROVE  Moves
<1> USE OutputAssumption
<1> USE DEF OutputTypeOK, Moves, Others, Quiet, Submits, Clean, Before, Over, Awaits, CpuReady, glVars, At, Goto, Format, Size
<1>1. ASSUME NEW t \in Threads, NEW f \in Formats, NEW s \in Sizes \cup {None},
            NEW fence \in {"none", "pending"}, Begin(t, f, s, fence)
     PROVE  Moves
  BY <1>1 DEF Begin
<1>2. ASSUME NEW t \in Threads, Encode(t)
     PROVE  Moves
  BY <1>2 DEF Encode, CpuReady
<1>3. ASSUME NEW t \in Threads, SkipGpu(t)
     PROVE  Moves
  BY <1>3 DEF SkipGpu
<1>4. ASSUME NEW t \in Threads, EnsureInit(t)
     PROVE  Moves
  BY <1>4, Zenon DEF EnsureInit, Enters, Release
<1>5. ASSUME NEW t \in Threads, MakeCurrent(t)
     PROVE  Moves
  BY <1>5 DEF MakeCurrent, Enters
<1>6. ASSUME NEW t \in Threads, EnterFails(t)
     PROVE  Moves
  BY <1>6 DEF EnterFails, Enters
<1>7. ASSUME NEW t \in Threads, EnsureTargets(t)
     PROVE  Moves
  BY <1>7, EnsureTargetsEffect, Zenon DEF TargetsCached, NoTargets, FillStep, Release
<1>8. ASSUME NEW t \in Threads, WaitForSource(t)
     PROVE  Moves
  BY <1>8 DEF WaitForSource, CpuReady, GpuWaits
<1>9. ASSUME NEW t \in Threads, SourceRefused(t)
     PROVE  Moves
  BY <1>9 DEF SourceRefused, ReturnFrom, Release
<1>10. ASSUME NEW t \in Threads, ImportSource(t)
     PROVE  Moves
  BY <1>10 DEF ImportSource, ReturnFrom, Release
<1>11. ASSUME NEW t \in Threads, ImportTarget(t)
     PROVE  Moves
  BY <1>11 DEF ImportTarget, ReturnFrom, Release
<1>12. ASSUME NEW t \in Threads, Draw(t)
     PROVE  Moves
  BY <1>12 DEF Draw
<1>13. ASSUME NEW t \in Threads, DrawPlanes(t)
     PROVE  Moves
  BY <1>13 DEF DrawPlanes
<1>14. ASSUME NEW t \in Threads, Complete(t)
     PROVE  Moves
  BY <1>14, CompleteMoves DEF FillStep
<1>15. ASSUME NEW t \in Threads, Finish(t)
     PROVE  Moves
  <2>1. Drained(t)
    BY <1>15 DEF Finish, Drained
  <2> QED
    BY <1>15, <2>1 DEF Finish
<1>16. ASSUME NEW t \in Threads, CopyPlanes(t)
     PROVE  Moves
  BY <1>16 DEF CopyPlanes
<1>17. ASSUME NEW t \in Threads, Return(t)
     PROVE  Moves
  BY <1>17 DEF Return, ReturnFrom, Release
<1>18. ASSUME NEW t \in Threads, CpuFill(t)
     PROVE  Moves
  BY <1>18 DEF CpuFill, CpuReady
<1>19. ASSUME NEW t \in Threads, Done(t)
     PROVE  Moves
  BY <1>19 DEF Done, NoFill
<1>20. ASSUME NEW t \in Threads, Signal(t)
     PROVE  Moves
  BY <1>20 DEF Signal
<1>21. ASSUME Gpu
     PROVE  Moves
  BY <1>21
<1>22. ASSUME UNCHANGED vars
     PROVE  Moves
  BY <1>22 DEF vars
<1> HIDE DEF OutputTypeOK, Moves, Others, Quiet, Submits, Clean, Before, Over, Awaits, CpuReady
<1> QED
  BY <1>1, <1>2, <1>3, <1>4, <1>5, <1>6, <1>7, <1>8, <1>9, <1>10, <1>11,
     <1>12, <1>13, <1>14, <1>15, <1>16, <1>17, <1>18, <1>19, <1>20, <1>21, <1>22 DEF Next, Step

\* The stream after a command more, and after the GPU has executed one.
LEMMA Appended ==
    ASSUME OutputTypeOK, NEW e, stream' = Append(stream, e)
    PROVE  /\ Len(stream) \in Nat /\ Len(stream') = Len(stream) + 1
           /\ DOMAIN stream = 1..Len(stream) /\ DOMAIN stream' = 1..Len(stream')
           /\ \A i \in 1..Len(stream): stream'[i] = stream[i]
           /\ stream'[Len(stream')] = e
BY DEF OutputTypeOK

\* The GPU removes the head of the stream and keeps the order of the rest.
LEMMA Executed ==
    ASSUME OutputTypeOK, Gpu
    PROVE  /\ Len(stream) \in Nat /\ Len(stream') = Len(stream) - 1 /\ Len(stream') \in Nat
           /\ DOMAIN stream = 1..Len(stream) /\ DOMAIN stream' = 1..Len(stream')
           /\ \A i \in 1..Len(stream'): stream'[i] = stream[i + 1]
           /\ \A t \in Threads: stream[1] = <<"wait", t>> => CpuReady(t)
<1>1. stream # <<>> /\ stream' = Tail(stream)
  BY DEF Gpu
<1>2. stream \in Seq(Command)
  BY DEF OutputTypeOK
<1>3. Head(stream) = stream[1]
  BY <1>1, <1>2
<1>4. \A t \in Threads: stream[1] = <<"wait", t>> => CpuReady(t)
  BY <1>3 DEF Gpu
<1> QED
  BY <1>1, <1>2, <1>4

\* Draws are submitted, and executed, as the fill's step says.
LEMMA UndrawnStep ==
    ASSUME OutputTypeOK, Undrawn, Moves
    PROVE  Undrawn'
<1> SUFFICES ASSUME NEW u \in Threads, Clean(u)'
             PROVE  \A i \in DOMAIN stream': stream'[i] # <<"draw", u>>
  BY DEF Undrawn, Submitted
<1>1. CASE UNCHANGED <<fill, producer, stream>>
  BY <1>1 DEF Undrawn, Submitted, Clean, At
<1>2. CASE Gpu
  <2>1. Clean(u)
    BY <1>2 DEF Gpu, Clean, At
  <2>2. \A i \in DOMAIN stream: stream[i] # <<"draw", u>>
    BY <2>1 DEF Undrawn, Submitted
  <2>3. \A i \in DOMAIN stream': i + 1 \in DOMAIN stream /\ stream'[i] = stream[i + 1]
    BY <1>2, Executed
  <2> QED
    BY <2>2, <2>3
<1>3. ASSUME NEW t \in Threads, Others(t), Quiet(t)
      PROVE  \A i \in DOMAIN stream': stream'[i] # <<"draw", u>>
  <2>1. Clean(u) \/ Drained(u)
    BY <1>3 DEF Others, Quiet, Clean, At
  <2> QED
    BY <1>3, <2>1 DEF Quiet, Undrawn, Submitted, Drained
<1>4. ASSUME NEW t \in Threads, Others(t), Submits(t)
      PROVE  \A i \in DOMAIN stream': stream'[i] # <<"draw", u>>
  <2>1. /\ Clean(u)
        /\ \E e: stream' = Append(stream, e) /\ e # <<"draw", u>>
    BY <1>4 DEF Others, Submits, Clean, At
  <2>2. PICK e: stream' = Append(stream, e) /\ e # <<"draw", u>>
    BY <2>1
  <2>3. \A i \in DOMAIN stream: stream[i] # <<"draw", u>>
    BY <2>1 DEF Undrawn, Submitted
  <2>4. ASSUME NEW i \in DOMAIN stream'
        PROVE  stream'[i] # <<"draw", u>>
    <3>1. i \in DOMAIN stream \/ i = Len(stream')
      BY <2>2, Appended
    <3> QED
      BY <2>2, <2>3, <3>1, Appended
  <2> QED
    BY <2>4
<1> QED
  BY <1>1, <1>2, <1>3, <1>4 DEF Moves

\* A fence follows the draws it covers, and leaves the stream after them.
LEMMA FencedStep ==
    ASSUME OutputTypeOK, Undrawn, Fenced, Moves
    PROVE  Fenced'
<1> SUFFICES ASSUME NEW u \in Threads, Over(u)', NEW i \in DOMAIN stream',
                    stream'[i] = <<"draw", u>>
             PROVE  \E j \in (i + 1)..Len(stream'): stream'[j] = <<"fence", u>>
  BY DEF Fenced
<1>1. CASE UNCHANGED <<fill, producer, stream>>
  BY <1>1, Zenon DEF Fenced, Over, At
<1>2. CASE Gpu
  <2>1. /\ Over(u) /\ i + 1 \in DOMAIN stream /\ stream[i + 1] = <<"draw", u>>
        /\ i \in Nat
    BY <1>2, Executed DEF Gpu, Over, At
  <2>2. PICK j \in ((i + 1) + 1)..Len(stream): stream[j] = <<"fence", u>>
    BY <2>1, Zenon DEF Fenced
  <2>3. j - 1 \in (i + 1)..Len(stream') /\ stream'[j - 1] = <<"fence", u>>
    BY <1>2, <2>1, <2>2, Executed
  <2> QED
    BY <2>3
<1>3. ASSUME NEW t \in Threads, Others(t), Quiet(t)
      PROVE  \E j \in (i + 1)..Len(stream'): stream'[j] = <<"fence", u>>
  <2>1. Over(u) \/ Clean(u) \/ Drained(u)
    BY <1>3 DEF Others, Quiet, Over, At
  <2>2. stream' = stream
    BY <1>3 DEF Quiet
  <2>3. Submitted(u, "draw")
    BY <2>2 DEF Submitted
  <2>4. ~Drained(u)
    BY <2>2 DEF Drained
  <2>5. Over(u)
    BY <2>1, <2>3, <2>4 DEF Undrawn
  <2> QED
    BY <2>2, <2>5, Zenon DEF Fenced
<1>4. ASSUME NEW t \in Threads, Others(t), Submits(t)
      PROVE  \E j \in (i + 1)..Len(stream'): stream'[j] = <<"fence", u>>
  <2>1. CASE u = t
    <3>1. stream' = Append(stream, <<"fence", u>>)
      BY <1>4, <2>1 DEF Submits
    <3>2. Len(stream') \in (i + 1)..Len(stream') /\ stream'[Len(stream')] = <<"fence", u>>
      BY <3>1, Appended
    <3> QED
      BY <3>2
  <2>2. CASE u # t
    <3>1. PICK e: stream' = Append(stream, e) /\ e # <<"draw", u>>
      BY <1>4, <2>2 DEF Submits
    <3>2. Over(u)
      BY <1>4, <2>2 DEF Others, Over, At
    <3>3. i \in DOMAIN stream /\ stream[i] = <<"draw", u>>
      <4>1. i # Len(stream')
        BY <3>1, Appended, Zenon
      <4> QED
        BY <3>1, <4>1, Appended
    <3>4. PICK j \in (i + 1)..Len(stream): stream[j] = <<"fence", u>>
      BY <3>2, <3>3, Zenon DEF Fenced
    <3>5. j \in (i + 1)..Len(stream') /\ stream'[j] = <<"fence", u>>
      BY <3>1, <3>3, <3>4, Appended
    <3> QED
      BY <3>5
  <2> QED
    BY <2>1, <2>2
<1> QED
  BY <1>1, <1>2, <1>3, <1>4 DEF Moves

\* A wait leaves the stream only when the source is ready.
LEMMA WaitedStep ==
    ASSUME OutputTypeOK, Waited, Moves
    PROVE  Waited'
<1> SUFFICES ASSUME NEW u \in Threads, Awaits(u)'
             PROVE  \E i \in DOMAIN stream': stream'[i] = <<"wait", u>>
  BY DEF Waited, Submitted
<1>1. CASE UNCHANGED <<fill, producer, stream>>
  BY <1>1 DEF Waited, Submitted, Awaits, CpuReady
<1>2. CASE Gpu
  <2>1. Awaits(u) /\ ~CpuReady(u)
    BY <1>2 DEF Gpu, Awaits, CpuReady
  <2>2. PICK i \in DOMAIN stream: stream[i] = <<"wait", u>>
    BY <2>1 DEF Waited, Submitted
  <2>3. i - 1 \in DOMAIN stream' /\ stream'[i - 1] = <<"wait", u>>
    BY <1>2, <2>1, <2>2, Executed
  <2> QED
    BY <2>3
<1>3. ASSUME NEW t \in Threads, Others(t), Quiet(t)
      PROVE  \E i \in DOMAIN stream': stream'[i] = <<"wait", u>>
  <2>1. Awaits(u)
    BY <1>3 DEF Others, Quiet, Awaits, CpuReady
  <2> QED
    BY <1>3, <2>1 DEF Quiet, Waited, Submitted
<1>4. ASSUME NEW t \in Threads, Others(t), Submits(t)
      PROVE  \E i \in DOMAIN stream': stream'[i] = <<"wait", u>>
  <2>1. PICK e: /\ stream' = Append(stream, e)
                /\ e = <<"wait", u>> \/ Awaits(u)
    BY <1>4, Zenon DEF Others, Submits, Awaits, CpuReady
  <2>2. CASE e = <<"wait", u>>
    BY <2>1, <2>2, Appended
  <2>3. CASE Awaits(u)
    <3>1. PICK i \in DOMAIN stream: stream[i] = <<"wait", u>>
      BY <2>3 DEF Waited, Submitted
    <3>2. i \in DOMAIN stream' /\ stream'[i] = <<"wait", u>>
      BY <2>1, <3>1, Appended
    <3> QED
      BY <3>2
  <2> QED
    BY <2>1, <2>2, <2>3
<1> QED
  BY <1>1, <1>2, <1>3, <1>4 DEF Moves

\* A draw is submitted behind the wait it needs.
LEMMA SamplesStep ==
    ASSUME OutputTypeOK, Waited, SamplesAfterFence, Moves
    PROVE  SamplesAfterFence'
<1> SUFFICES ASSUME NEW u \in Threads, NEW i \in DOMAIN stream',
                    stream'[i] = <<"draw", u>>, ~CpuReady(u)'
             PROVE  \E j \in 1..(i - 1): stream'[j] = <<"wait", u>>
  BY DEF SamplesAfterFence
<1>1. CASE UNCHANGED <<fill, producer, stream>>
  BY <1>1 DEF SamplesAfterFence, CpuReady
<1>2. CASE Gpu
  <2>1. /\ ~CpuReady(u) /\ i \in Nat
        /\ i + 1 \in DOMAIN stream /\ stream[i + 1] = <<"draw", u>>
    BY <1>2, Executed DEF Gpu, CpuReady
  <2>2. PICK j \in 1..((i + 1) - 1): stream[j] = <<"wait", u>>
    BY <2>1, Zenon DEF SamplesAfterFence
  <2>3. j - 1 \in 1..(i - 1) /\ stream'[j - 1] = <<"wait", u>>
    BY <1>2, <2>1, <2>2, Executed
  <2> QED
    BY <2>3
<1>3. ASSUME NEW t \in Threads, Others(t), Quiet(t)
      PROVE  \E j \in 1..(i - 1): stream'[j] = <<"wait", u>>
  <2>1. ~CpuReady(u) \/ Drained(u)
    BY <1>3 DEF Others, Quiet, CpuReady
  <2>2. stream' = stream
    BY <1>3 DEF Quiet
  <2> QED
    BY <2>1, <2>2 DEF SamplesAfterFence, Drained
<1>4. ASSUME NEW t \in Threads, Others(t), Submits(t)
      PROVE  \E j \in 1..(i - 1): stream'[j] = <<"wait", u>>
  <2>1. PICK e: /\ stream' = Append(stream, e)
                /\ e = <<"draw", u>> => Awaits(u)
    BY <1>4 DEF Submits
  <2>2. CASE i = Len(stream')
    <3>1. PICK j \in DOMAIN stream: stream[j] = <<"wait", u>>
      BY <2>1, <2>2, Appended, Zenon DEF Waited, Submitted
    <3>2. j \in 1..(i - 1) /\ stream'[j] = <<"wait", u>>
      BY <2>1, <2>2, <3>1, Appended
    <3> QED
      BY <3>2
  <2>3. CASE i # Len(stream')
    <3>1. i \in DOMAIN stream /\ stream[i] = <<"draw", u>>
      BY <2>1, <2>3, Appended
    <3>2. ~CpuReady(u)
      BY <1>4 DEF Others, Submits, CpuReady, Awaits
    <3>3. PICK j \in 1..(i - 1): stream[j] = <<"wait", u>>
      BY <3>1, <3>2 DEF SamplesAfterFence
    <3>4. j \in 1..(i - 1) /\ stream'[j] = <<"wait", u>>
      BY <2>1, <3>1, <3>3, Appended
    <3> QED
      BY <3>4
  <2> QED
    BY <2>2, <2>3
<1> QED
  BY <1>1, <1>2, <1>3, <1>4 DEF Moves

-----------------------------------------------------------------------------
\* What every run of the compositor keeps.
THEOREM Inductive == Spec => []IInv
<1>1. Init => IInv
  <2> SUFFICES ASSUME Init
               PROVE  IInv
    OBVIOUS
  <2>1. fill = [t \in Threads |-> NoFill] /\ stream = <<>>
    BY DEF Init
  <2>2. NoFill \in Fill
    BY DEF NoFill, Fill, Formats, Steps
  <2>3. OutputTypeOK
    <3>1. egl \in Egl
      BY DEF Init, Egl
    <3>2. targets \in [planes: Sizes \cup {None}, size: Sizes \cup {None}]
      BY DEF Init, NoTargets
    <3>3. stream \in Seq(Command)
      BY <2>1
    <3>4. /\ fill \in [Threads -> Fill]
          /\ producer \in [Threads -> {"none", "pending", "signalled"}]
      BY <2>1, <2>2 DEF Init
    <3> QED
      BY <3>1, <3>2, <3>3, <3>4, Zenon DEF Init, OutputTypeOK
  <2>4. \A t \in Threads: At(t, "idle")
    BY <2>1, Zenon DEF At, NoFill
  <2>5. Tried /\ ContextWithLock /\ PlanesCached
    BY DEF Init, Tried, ContextWithLock, PlanesCached, NoTargets
  <2>6. LockHeld /\ TargetsFit /\ Undrawn /\ Waited
    BY <2>4 DEF LockHeld, TargetsFit, Undrawn, Clean, Before, Waited, Awaits, InGpu, InCompositor, At
  <2>7. Fenced /\ SamplesAfterFence
    BY <2>1 DEF Fenced, SamplesAfterFence
  <2> QED
    BY <2>3, <2>5, <2>6, <2>7 DEF IInv
<1>2. IInv /\ [Next]_vars => IInv'
  BY TypeStep, ContextStep, LockStep, TargetsStep, StepMoves, UndrawnStep, FencedStep,
     WaitedStep, SamplesStep DEF IInv
<1> QED
  BY <1>1, <1>2, PTL DEF Spec

(***************************************************************************)
(* The values keep their types, and the stream holds only commands that    *)
(* some capture thread submitted.                                          *)
(***************************************************************************)
THEOREM TypesHold == Spec => []OutputTypeOK
<1>1. IInv => OutputTypeOK
  BY DEF IInv
<1> QED
  BY <1>1, Inductive, PTL

(***************************************************************************)
(* GpuCompositor.cpp:222-224: a compositor that works leaves its context   *)
(* current on no thread that has not mLock, by whichever return.           *)
(***************************************************************************)
THEOREM ContextIsReleased == Spec => []ContextWithLock
<1>1. IInv => ContextWithLock
  BY DEF IInv
<1> QED
  BY <1>1, Inductive, PTL

(***************************************************************************)
(* AcquireFenceWait.h:5-6: no draw from a source still being rendered runs *)
(* ahead of the wait for it.                                               *)
(***************************************************************************)
THEOREM DrawsAfterSource == Spec => []SamplesAfterFence
<1>1. IInv => SamplesAfterFence
  BY DEF IInv
<1> QED
  BY <1>1, Inductive, PTL

(***************************************************************************)
(* GpuCompositor.h:48-55: once composite() has returned, every draw that   *)
(* the GPU still holds is followed by the call's fence.                    *)
(***************************************************************************)
THEOREM CompletionIsCovered == Spec => []CompleteOrFenced
<1>1. IInv => CompleteOrFenced
  <2> SUFFICES ASSUME IInv, NEW t \in Threads, ~InGpu(t), NEW i \in DOMAIN stream,
                      stream[i] = <<"draw", t>>
               PROVE  \E j \in (i + 1)..Len(stream): stream[j] = <<"fence", t>>
    BY Zenon DEF CompleteOrFenced
  <2>1. fill[t].pc \in Steps
    BY DEF IInv, OutputTypeOK, Fill
  <2>2. ~Clean(t)
    BY DEF IInv, Undrawn, Submitted
  <2>3. Over(t)
    BY <2>1, <2>2 DEF Over, Clean, Before, Steps, InGpu
  <2> QED
    BY <2>3, Zenon DEF IInv, Fenced
<1> QED
  BY <1>1, Inductive, PTL

(***************************************************************************)
(* VirtualCameraSession.cpp:764-789: the CPU converter starts on an output *)
(* that the GPU no longer draws.                                           *)
(***************************************************************************)
THEOREM CpuWritesAlone == Spec => []FallbackIsAlone
<1>1. IInv => FallbackIsAlone
  BY DEF IInv, Undrawn, Clean, Before, FallbackIsAlone, At
<1> QED
  BY <1>1, Inductive, PTL

(***************************************************************************)
(* GpuCompositor.cpp:307-357: planes are drawn and copied at the size they *)
(* were allocated for, with any number of cameras of different sizes.      *)
(***************************************************************************)
THEOREM PlanesFit == Spec => []TargetsFit
<1>1. IInv => TargetsFit
  BY DEF IInv
<1> QED
  BY <1>1, Inductive, PTL
=============================================================================
