------------------------------ MODULE OutputFill ------------------------------
(***************************************************************************)
(* How a capture's output buffer is filled from the producer's frame: the  *)
(* JPEG encoder, the GPU compositor's two paths and the CPU converter, in  *)
(* the order the session tries them.  The compositor is one object, with   *)
(* one GL context, one error flag and one pair of cached render targets,   *)
(* shared under its mutex by the capture threads of all cameras; the GPU   *)
(* works through its command stream after the calls have returned.         *)
(*                                                                         *)
(* The compositor and the encoder take the producer's fence, or none; the  *)
(* session of today has waited for it on the CPU and passes none.          *)
(***************************************************************************)
EXTENDS Naturals, Sequences

CONSTANTS
    Threads,     \* capture threads, one per open camera
    Sizes,       \* output sizes
    Unpackable,  \* the sizes whose width or height the packed planes refuse
    None

ASSUME OutputAssumption == Unpackable \subseteq Sizes /\ None \notin Threads \cup Sizes

Formats == {"rgba", "ycbcr", "blob"}

VARIABLES
    fill,      \* step, format, size and result of each thread's fill
    producer,  \* the source's fence: "none", "pending" or "signalled"
    lock,      \* GpuCompositor::mLock
    egl,       \* mTried, mOk, mNativeFence and the two plane programs
    current,   \* the thread on which the context is current
    glError,   \* the context's error flag, until someone reads it
    targets,   \* the size the packed planes were allocated for, and mYuvW/H
    stream     \* commands submitted to the GPU and not yet executed

glVars == <<egl, current, glError, targets>>
vars == <<fill, producer, lock, egl, current, glError, targets, stream>>

NoFill == [pc |-> "idle", format |-> "rgba", size |-> None, filled |-> FALSE]
NoTargets == [planes |-> None, size |-> None]

Init ==
    /\ fill = [t \in Threads |-> NoFill]
    /\ producer = [t \in Threads |-> "none"]
    /\ lock = None /\ current = None /\ glError = FALSE
    /\ egl = [tried |-> FALSE, ok |-> FALSE, native |-> FALSE, progY |-> FALSE, progUv |-> FALSE]
    /\ targets = NoTargets
    /\ stream = <<>>

-----------------------------------------------------------------------------
At(t, step) == fill[t].pc = step
Goto(t, step) == fill' = [fill EXCEPT ![t].pc = step]
Format(t) == fill[t].format
Size(t) == fill[t].size
Submitted(t, what) == \E i \in DOMAIN stream: stream[i] = <<what, t>>

\* The end of a compositor call, which gives up mLock: filled, or on to the CPU.
ReturnFrom(t, filled) ==
    /\ fill' = [fill EXCEPT ![t].filled = filled, ![t].pc = IF filled THEN "done" ELSE "cpu"]
    /\ lock' = None

Release == current' = None

-----------------------------------------------------------------------------
\* Bound: a thread's next output waits until the GPU is done with its last one.
Drained(t) == \A i \in DOMAIN stream: stream[i][2] # t

\* The session starts on an output of this format; the size matters to YUV only.
Begin(t, f, s, fence) ==
    /\ At(t, "idle") /\ Drained(t) /\ (s = None) = (f # "ycbcr")
    /\ fill' = [fill EXCEPT ![t] = [pc |-> IF f = "blob" THEN "encode" ELSE "enter",
                                    format |-> f, size |-> s, filled |-> FALSE]]
    /\ producer' = [producer EXCEPT ![t] = fence]
    /\ UNCHANGED <<lock, glVars, stream>>

\* A bounded wait on the CPU: signalled, or refused at its end.
CpuReady(t) == producer[t] # "pending"

\* encodeToBlob: fence, source lock, compression, and whether it fits.
Encode(t) ==
    /\ At(t, "encode")
    /\ \E fits \in IF CpuReady(t) THEN BOOLEAN ELSE {FALSE}:
         fill' = [fill EXCEPT ![t].pc = "done", ![t].filled = fits]
    /\ UNCHANGED <<producer, lock, glVars, stream>>

\* The session may prefer the CPU for YUV; compositeToYcbcr refuses sizes it
\* cannot pack, and composite() every format but RGBA.
SkipGpu(t) ==
    /\ At(t, "enter") /\ Format(t) = "ycbcr"
    /\ Goto(t, "cpu")
    /\ UNCHANGED <<producer, lock, glVars, stream>>

Enters(t) ==
    /\ At(t, "enter") /\ lock = None
    /\ Format(t) = "ycbcr" => Size(t) \notin Unpackable

\* ensureInit, once for the process: without the extensions it fails, a failing
\* shader leaves the context where it is, and success gives it back.
EnsureInit(t) ==
    /\ Enters(t) /\ ~egl.tried
    /\ \/ /\ egl' = [egl EXCEPT !.tried = TRUE]
          /\ current' \in {None, t}
       \/ \E native \in BOOLEAN:
            /\ egl' = [egl EXCEPT !.tried = TRUE, !.ok = TRUE, !.native = native]
            /\ Release
    /\ UNCHANGED <<fill, producer, lock, glError, targets, stream>>

\* The mutex, and the context made current; on another thread's it would fail.
MakeCurrent(t) ==
    /\ Enters(t) /\ egl.ok /\ current \in {None, t}
    /\ lock' = t /\ current' = t
    /\ Goto(t, IF Format(t) = "ycbcr" THEN "targets" ELSE "fence")
    /\ UNCHANGED <<producer, egl, glError, targets, stream>>

\* No compositor, or no context: the CPU does it.
EnterFails(t) ==
    /\ Enters(t) /\ egl.tried
    /\ Goto(t, "cpu")
    /\ UNCHANGED <<producer, lock, glVars, stream>>

-----------------------------------------------------------------------------
\* Mutant of TargetsCached: any cached planes will do.
TargetsAllocated(t) == targets.planes # None

TargetsCached(t) == targets.planes # None /\ targets.size = Size(t)

\* buildProgram for each plane, unless the first one is there already.
Programs(y, uv) == IF egl.progY THEN egl ELSE [egl EXCEPT !.progY = y, !.progUv = uv]

\* ensureYuvTargets: the cached planes, or new ones; on failure none are left.
EnsureTargets(t) ==
    /\ At(t, "targets")
    /\ IF TargetsCached(t)
       THEN Goto(t, "fence") /\ UNCHANGED <<lock, egl, current, targets>>
       ELSE \E y, uv \in BOOLEAN:
              /\ egl' = Programs(y, uv)
              /\ \/ /\ egl.progY \/ (y /\ uv)
                    /\ targets' = [planes |-> Size(t), size |-> Size(t)]
                    /\ Goto(t, "fence") /\ UNCHANGED <<lock, current>>
                 \/ /\ targets' = NoTargets
                    /\ ReturnFrom(t, FALSE) /\ Release
    /\ glError' \in {glError, TRUE}
    /\ UNCHANGED <<producer, stream>>

\* Mutant of GpuWaits: a descriptor that could not be duplicated, -1, asks EGL
\* for a fence of its own instead.
GpuWaitsOnAny(t) ==
    /\ egl.native
    /\ \E own \in BOOLEAN:
         stream' = Append(stream, IF own THEN <<"flush", t>> ELSE <<"wait", t>>)

\* The GPU accepts the dependency: it will not pass this point before the fence.
GpuWaits(t) ==
    /\ egl.native
    /\ stream' = Append(stream, <<"wait", t>>)

\* acquireFenceReady with no fence, the GPU's wait, or the CPU's.
WaitForSource(t) ==
    /\ At(t, "fence")
    /\ Goto(t, "source")
    /\ \/ CpuReady(t) /\ UNCHANGED stream
       \/ producer[t] # "none" /\ GpuWaits(t)
    /\ UNCHANGED <<producer, lock, glVars>>

\* Mutant of SourceRefused: this path returns without dropping the context.
SourceRefusedCurrent(t) ==
    /\ At(t, "fence") /\ ~CpuReady(t)
    /\ ReturnFrom(t, FALSE)
    /\ UNCHANGED <<producer, egl, current, glError, targets, stream>>

\* Neither would wait for it: refuse to sample.
SourceRefused(t) ==
    /\ At(t, "fence") /\ ~CpuReady(t)
    /\ ReturnFrom(t, FALSE) /\ Release
    /\ UNCHANGED <<producer, egl, glError, targets, stream>>

\* imageFromAhb: the producer's buffer becomes a texture.
ImportSource(t) ==
    /\ At(t, "source")
    /\ \/ /\ Goto(t, IF Format(t) = "ycbcr" THEN "draw" ELSE "target")
          /\ UNCHANGED <<lock, current>>
       \/ ReturnFrom(t, FALSE) /\ Release
    /\ UNCHANGED <<producer, egl, glError, targets, stream>>

\* imageFromHandle: the clone of the output's handle, then its image.
ImportTarget(t) ==
    /\ At(t, "target")
    /\ \/ /\ Goto(t, "draw")
          /\ UNCHANGED <<lock, current>>
       \/ ReturnFrom(t, FALSE) /\ Release
    /\ UNCHANGED <<producer, egl, glError, targets, stream>>

\* The pass of composite().  An incomplete framebuffer draws nothing; the draw may
\* raise an error, and one raised by anyone before is read here too.
Draw(t) ==
    /\ At(t, "draw") /\ Format(t) = "rgba"
    /\ \E drawn, raised \in BOOLEAN:
         /\ stream' = IF drawn THEN Append(stream, <<"draw", t>>) ELSE stream
         /\ fill' = [fill EXCEPT ![t].filled = drawn /\ ~raised /\ ~glError,
                                 ![t].pc = IF drawn THEN "complete" ELSE "return"]
    /\ glError' = FALSE
    /\ UNCHANGED <<producer, lock, egl, current, targets>>

\* The passes of compositeToYcbcr, the second after a first that was drawn.  It
\* cannot work without its program, and only two passes lead to reading errors.
DrawPlanes(t) ==
    /\ At(t, "draw") /\ Format(t) = "ycbcr"
    /\ \E first, second, raised \in BOOLEAN:
         LET drawn == first /\ second IN
         /\ drawn /\ ~egl.progUv => raised
         /\ stream' = IF first THEN Append(stream, <<"draw", t>>) ELSE stream
         /\ fill' = [fill EXCEPT ![t].filled = drawn /\ ~raised /\ ~glError,
                                 ![t].pc = "finish"]
         /\ glError' = (~drawn /\ (glError \/ raised))
    /\ UNCHANGED <<producer, lock, egl, current, targets>>

\* Mutant of Complete: only a result worth keeping is waited for.
CompleteResult(t) ==
    /\ At(t, "complete")
    /\ \/ /\ fill[t].filled /\ egl.native
          /\ stream' = Append(stream, <<"fence", t>>)
          /\ Goto(t, "return")
       \/ /\ Goto(t, IF fill[t].filled THEN "finish" ELSE "return")
          /\ UNCHANGED stream
    /\ UNCHANGED <<producer, lock, glVars>>

\* Mutant of Complete: no fence came back, and nobody finishes instead.
CompleteUnfenced(t) ==
    /\ At(t, "complete")
    /\ \/ /\ fill[t].filled /\ egl.native
          /\ stream' = Append(stream, <<"fence", t>>)
       \/ UNCHANGED stream
    /\ Goto(t, IF fill[t].filled THEN "return" ELSE "finish")
    /\ UNCHANGED <<producer, lock, glVars>>

\* A native fence for a good result; glFinish when there is none to be had.
Complete(t) ==
    /\ At(t, "complete")
    /\ \/ /\ fill[t].filled /\ egl.native
          /\ stream' = Append(stream, <<"fence", t>>)
          /\ Goto(t, "return")
       \/ /\ Goto(t, "finish")
          /\ UNCHANGED stream
    /\ UNCHANGED <<producer, lock, glVars>>

\* glFinish returns when the GPU has executed all that was submitted.
Finish(t) ==
    /\ At(t, "finish") /\ stream = <<>>
    /\ Goto(t, IF Format(t) = "ycbcr" /\ fill[t].filled THEN "copy" ELSE "return")
    /\ UNCHANGED <<producer, lock, glVars, stream>>

\* The packed planes are locked and copied into the output's.
CopyPlanes(t) ==
    /\ At(t, "copy")
    /\ \E locked \in BOOLEAN: fill' = [fill EXCEPT ![t].pc = "return", ![t].filled = locked]
    /\ UNCHANGED <<producer, lock, glVars, stream>>

Return(t) ==
    /\ At(t, "return")
    /\ ReturnFrom(t, fill[t].filled) /\ Release
    /\ UNCHANGED <<producer, egl, glError, targets, stream>>

-----------------------------------------------------------------------------
\* The CPU converter: the fence, both buffers locked, the conversion.
CpuFill(t) ==
    /\ At(t, "cpu")
    /\ \E locked \in IF CpuReady(t) THEN BOOLEAN ELSE {FALSE}:
         fill' = [fill EXCEPT ![t].pc = "done", ![t].filled = locked]
    /\ UNCHANGED <<producer, lock, glVars, stream>>

\* The session goes on; the fences it was given guard what the GPU still does.
Done(t) ==
    /\ At(t, "done")
    /\ fill' = [fill EXCEPT ![t] = NoFill]
    /\ UNCHANGED <<producer, lock, glVars, stream>>

\* The GPU executes its stream in order, and stops at a wait.
Gpu ==
    /\ stream # <<>>
    /\ Head(stream)[1] = "wait" => CpuReady(Head(stream)[2])
    /\ stream' = Tail(stream)
    /\ UNCHANGED <<fill, producer, lock, glVars>>

\* The producer's rendering ends.
Signal(t) ==
    /\ producer[t] = "pending"
    /\ producer' = [producer EXCEPT ![t] = "signalled"]
    /\ UNCHANGED <<fill, lock, glVars, stream>>

Step(t) ==
    \/ Encode(t) \/ SkipGpu(t) \/ EnsureInit(t) \/ MakeCurrent(t) \/ EnterFails(t)
    \/ EnsureTargets(t) \/ WaitForSource(t) \/ SourceRefused(t)
    \/ ImportSource(t) \/ ImportTarget(t) \/ Draw(t) \/ DrawPlanes(t) \/ Complete(t) \/ Finish(t)
    \/ CopyPlanes(t) \/ Return(t) \/ CpuFill(t) \/ Done(t)

Next ==
    \/ \E t \in Threads, f \in Formats, s \in Sizes \cup {None}, fence \in {"none", "pending"}:
         Begin(t, f, s, fence)
    \/ \E t \in Threads: Step(t) \/ Signal(t)
    \/ Gpu

Spec == Init /\ [][Next]_vars

-----------------------------------------------------------------------------
InCompositor == {"targets", "fence", "source", "target", "draw", "complete", "finish", "copy",
                 "return"}
Steps == {"idle", "encode", "enter", "cpu", "done"} \cup InCompositor
InGpu(t) == fill[t].pc \in InCompositor

Fill == [pc: Steps, format: Formats, size: Sizes \cup {None}, filled: BOOLEAN]
Egl == [tried: BOOLEAN, ok: BOOLEAN, native: BOOLEAN, progY: BOOLEAN, progUv: BOOLEAN]
Command == {"wait", "draw", "fence"} \X Threads

OutputTypeOK ==
    /\ fill \in [Threads -> Fill]
    /\ producer \in [Threads -> {"none", "pending", "signalled"}]
    /\ lock \in Threads \cup {None} /\ current \in Threads \cup {None}
    /\ egl \in Egl
    /\ glError \in BOOLEAN
    /\ targets \in [planes: Sizes \cup {None}, size: Sizes \cup {None}]
    /\ stream \in Seq(Command)

\* Once the compositor works, its context is current only on the thread that has
\* mLock, whichever way calls ended: "An EGL context can only be current on one
\* thread at a time" (GpuCompositor.cpp:222-224), and a thread that kept it would
\* send every other camera to the CPU for good.
ContextWithLock == egl.ok /\ current # None => lock = current

\* The GPU draws from no source whose producer may still be drawing it
\* (AcquireFenceWait.h:5-6, GpuCompositor.cpp:359-375).
SamplesAfterFence ==
    \A t \in Threads, i \in DOMAIN stream:
        stream[i] = <<"draw", t>> /\ ~CpuReady(t) =>
            \E j \in 1..(i - 1): stream[j] = <<"wait", t>>

\* When composite() has returned, what the GPU still does to the source and the
\* output is covered by the fence it returned; without one nothing is left
\* (GpuCompositor.h:48-55).
CompleteOrFenced ==
    \A t \in Threads, i \in DOMAIN stream:
        ~InGpu(t) /\ stream[i] = <<"draw", t>> =>
            \E j \in (i + 1)..Len(stream): stream[j] = <<"fence", t>>

\* When a call fails and the CPU converter writes the output, the GPU does not.
FallbackIsAlone == \A t \in Threads: At(t, "cpu") => ~Submitted(t, "draw")

\* The packed planes that a thread draws and copies were allocated for its own
\* output, though cameras of other sizes share them (GpuCompositor.cpp:307-357).
TargetsFit ==
    \A t \in Threads:
        InGpu(t) /\ Format(t) = "ycbcr" /\ ~At(t, "targets") => targets.planes = Size(t)
=============================================================================
