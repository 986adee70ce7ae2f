--------------------------- MODULE BufferExchange ---------------------------
(***************************************************************************)
(* What the zero-copy path promises, without rings or shared memory: a     *)
(* buffer has one owner at a time, and submitted buffers reach the HAL in  *)
(* the order of submission.  SharedPool implements this.                   *)
(***************************************************************************)
EXTENDS Sequences

CONSTANT Buffers

VARIABLES
    owner,  \* "free", "renderer" (being drawn), "queued" or "hal"
    queue   \* the buffers queued, oldest first

Init ==
    /\ owner = [b \in Buffers |-> "free"]
    /\ queue = <<>>

Pass(b, from, to) == owner[b] = from /\ owner' = [owner EXCEPT ![b] = to]

Begin(b)  == Pass(b, "free", "renderer") /\ UNCHANGED queue
Cancel(b) == Pass(b, "renderer", "free") /\ UNCHANGED queue
Submit(b) == Pass(b, "renderer", "queued") /\ queue' = Append(queue, b)
Return(b) == Pass(b, "hal", "free") /\ UNCHANGED queue

Take ==
    /\ queue # <<>>
    /\ Pass(Head(queue), "queued", "hal")
    /\ queue' = Tail(queue)

Next == Take \/ \E b \in Buffers: Begin(b) \/ Cancel(b) \/ Submit(b) \/ Return(b)

Spec == Init /\ [][Next]_<<owner, queue>>
=============================================================================
