-------------------------- MODULE MCCaptureSession --------------------------
\* Calls of one request with one or two outputs, and of two requests.
EXTENDS CaptureSession

MCBatches ==
    LET pairs == {p \in Buffers \X Buffers: p[1] # p[2]} IN
    {<< <<b>> >>: b \in Buffers} \cup {<<p>>: p \in pairs}
        \cup {<< <<p[1]>>, <<p[2]>> >>: p \in pairs}
=============================================================================
