----------------------- MODULE CaptureSession_proofs -----------------------
(***************************************************************************)
(* What TLAPS proves of CaptureSession, for any buffers, calls and         *)
(* flushing threads: the type of its state, and the five safety properties *)
(* that capture_session.cfg checks.                                        *)
(***************************************************************************)
EXTENDS CaptureSession, TLAPS

Waiting == {"import", "destination"}              \* acquire fences may be held
Filling == {"pace", "source", "sourceFence", "output", "answer"}
Steps == {"idle", "enter", "epoch", "next"} \cup Waiting \cup Filling
Results == {"cpu", "gpu", "unfenced", "error"}

Request == [pc: Steps, epoch: Nat, batch: Seq(Seq(Buffers)), done: Nat, answers: Nat, i: Nat,
            held: SUBSET Buffers, results: Seq(Results), source: BOOLEAN,
            removed: SUBSET Buffers]

SessionTypeOK ==
    /\ requestLock \in {Nobody, "request"}
    /\ closed \in BOOLEAN /\ flushing \in BOOLEAN /\ cancelEpoch \in Nat
    /\ streams \in BOOLEAN /\ token \in BOOLEAN /\ ready \in BOOLEAN
    /\ cached \in SUBSET Buffers /\ known \in SUBSET Buffers
    /\ req \in Request
    /\ flusher \in [Flushers -> {"idle", "cancel", "drain"}]
    /\ closer \in {"idle", "cancel", "again", "drain", "drainAgain", "closed"}
    /\ notified \in Nat
    /\ ours \subseteq Buffers /\ guarded \subseteq Buffers
    /\ busy \in [Buffers -> {"none", "consumer", "gpu"}]
    /\ calls \in [process: Nat, configure: Nat, flush: Nat]

\* Where the call is in its batch and in the outputs of its request.
Position ==
    /\ At("idle") => req = NoCall
    /\ req.pc # "idle" => req.batch \in Batches /\ req.done <= Len(req.batch)
    /\ req.pc \in Waiting \cup Filling =>
         /\ req.done < Len(req.batch)
         /\ req.i \in Nat \ {0}
         /\ req.pc # "answer" => req.i <= Len(Outputs)
    /\ At("import") => req.i = 1

\* mRequestLock is held from the entry of a call to its return.
LockInTurn == requestLock = IF req.pc \in {"idle", "enter"} THEN Nobody ELSE "request"

\* The outputs of the requests not yet answered, and nothing else, are the session's.
Pending == UNION {ToSet(req.batch[n]): n \in req.done + 1 .. Len(req.batch)}
Owned == ours = Pending

\* Work of a consumer comes with a fence; the duplicates cover what was not waited for.
Guarded == \A b \in Buffers: busy[b] = "consumer" => b \in guarded

Fenced ==
    /\ req.pc \notin Waiting => req.held = {}
    /\ req.pc \in Waiting =>
         /\ req.held \subseteq ToSet(Outputs)
         /\ \A n \in DOMAIN Outputs: busy[Outputs[n]] = "consumer" => Outputs[n] \in req.held
    /\ At("destination") =>
         /\ \A n \in 1 .. req.i - 1: busy[Outputs[n]] # "consumer"
         /\ \A b \in req.held: \E n \in req.i .. Len(Outputs): b = Outputs[n]
    /\ req.pc \in Filling => \A n \in DOMAIN Outputs: busy[Outputs[n]] # "consumer"

\* A handle is cached before its id is used, and dropped when it is not any more.
Cached ==
    /\ known \subseteq cached
    /\ At("enter") => known \cap req.removed = {}
    /\ req.pc \in {"destination"} \cup Filling => ToSet(Outputs) \subseteq cached

\* Who ended the session told the HAL, or is about to.
Ended ==
    /\ ~closed => notified = 0 /\ closer = "idle"
    /\ closer \in {"cancel", "drain"} => notified = 0
    /\ closed /\ closer \notin {"cancel", "drain"} => notified = 1
    /\ closer = "closed" => req.pc \in {"idle", "enter"}

IInv ==
    /\ SessionTypeOK /\ Position /\ LockInTurn /\ req.answers = req.done
    /\ Owned /\ Guarded /\ Fenced /\ Cached /\ Ended

-----------------------------------------------------------------------------
\* The outputs of the request at hand are buffers, and among those pending.
LEMMA OutputsPending ==
    ASSUME SessionTypeOK, Position, req.pc # "idle", req.done < Len(req.batch)
    PROVE  /\ Outputs \in Seq(Buffers) /\ Len(Outputs) \in Nat
           /\ DOMAIN Outputs = 1 .. Len(Outputs)
           /\ \A n \in DOMAIN Outputs: Outputs[n] \in Buffers /\ Outputs[n] \in ToSet(Outputs)
           /\ ToSet(Outputs) \subseteq Buffers /\ ToSet(Outputs) \subseteq Pending
<1>1. /\ req.batch \in Seq(Seq(Buffers)) /\ req.done \in Nat /\ Len(req.batch) \in Nat
      /\ DOMAIN req.batch = 1 .. Len(req.batch)
  BY DEF SessionTypeOK, Request
<1>2. req.done + 1 \in 1 .. Len(req.batch) /\ req.done + 1 \in req.done + 1 .. Len(req.batch)
  BY <1>1
<1>3. Outputs \in Seq(Buffers)
  BY <1>1, <1>2 DEF Outputs
<1>4. /\ Len(Outputs) \in Nat /\ DOMAIN Outputs = 1 .. Len(Outputs)
      /\ \A n \in DOMAIN Outputs: Outputs[n] \in Buffers /\ Outputs[n] \in ToSet(Outputs)
      /\ ToSet(Outputs) \subseteq Buffers
  BY <1>3 DEF ToSet
<1>5. ToSet(Outputs) \subseteq Pending
  BY <1>2 DEF Pending, Outputs
<1> QED
  BY <1>3, <1>4, <1>5

\* While a request is processed, the output at hand is one of its own.
LEMMA AtWork ==
    ASSUME SessionTypeOK, Position, req.pc \in Waiting \cup Filling
    PROVE  /\ req.pc # "idle" /\ req.done < Len(req.batch)
           /\ req.pc # "answer" => req.i \in DOMAIN Outputs
<1>1. req.pc # "idle" /\ req.done < Len(req.batch)
  BY DEF Position, Waiting, Filling
<1>2. DOMAIN Outputs = 1 .. Len(Outputs) /\ Len(Outputs) \in Nat
  BY <1>1, OutputsPending
<1> QED
  BY <1>1, <1>2 DEF Position

\* A call returns: no request, no lock, and all buffers the framework's.
LEMMA ReturnEnds ==
    ASSUME Owned, Return
    PROVE  /\ req' = NoCall /\ NoCall \in Request
           /\ requestLock' = Nobody /\ UNCHANGED <<busy, guarded>>
           /\ ours' = {} /\ Pending' = {}
<1>1. NoCall \in Request
  BY DEF NoCall, Request, Steps
<1>2. req' = NoCall /\ requestLock' = Nobody /\ UNCHANGED <<busy, guarded>>
  BY DEF Return
<1>3. ours' = ours \ Pending
  BY DEF Return, Pending
<1>4. ours' = {}
  BY <1>3 DEF Owned
<1>5. Pending' = {}
  BY <1>2 DEF Pending, NoCall
<1> QED
  BY <1>1, <1>2, <1>4, <1>5

\* An answer moves on to the next request.
LEMMA AnswerMoves ==
    ASSUME SessionTypeOK, NEW attached, Answer(attached)
    PROVE  /\ req' \in Request /\ req'.pc = "next" /\ req'.batch = req.batch
           /\ req'.done = req.done + 1 /\ req'.answers = req.answers + 1 /\ req'.held = {}
           /\ ours' = ours \ ToSet(Outputs) /\ UNCHANGED busy
           /\ guarded' = (guarded \ ToSet(Outputs)) \cup attached
           /\ known' = known \cup ToSet(Outputs)
<1>1. req' = [req EXCEPT !.pc = "next", !.done = req.done + 1, !.answers = req.answers + 1,
                         !.i = 1, !.held = {}, !.source = FALSE]
  BY DEF Answer
<1>2. req \in Request
  BY DEF SessionTypeOK
<1>3. /\ req.done + 1 \in Nat /\ req.answers + 1 \in Nat /\ 1 \in Nat
      /\ "next" \in Steps /\ {} \in SUBSET Buffers /\ FALSE \in BOOLEAN
  BY <1>2 DEF Request, Steps
<1>4. req' \in Request
  BY <1>1, <1>2, <1>3, Zenon DEF Request
<1>5. /\ req'.pc = "next" /\ req'.batch = req.batch
      /\ req'.done = req.done + 1 /\ req'.answers = req.answers + 1 /\ req'.held = {}
  BY <1>1, <1>2 DEF Request
<1> QED
  BY <1>4, <1>5 DEF Answer

\* A step within the request: its record stays one, the batch and the count stay.
LEMMA Advances ==
    ASSUME req \in Request, NEW p \in Steps, NEW e \in Nat, NEW n \in Nat,
           NEW held \in SUBSET Buffers, NEW results \in Seq(Results), NEW source \in BOOLEAN,
           req' = [req EXCEPT !.pc = p, !.epoch = e, !.i = n, !.held = held,
                              !.results = results, !.source = source]
    PROVE  /\ req' \in Request
           /\ req'.pc = p /\ req'.i = n /\ req'.held = held
           /\ req'.batch = req.batch /\ req'.done = req.done
           /\ req'.answers = req.answers /\ req'.removed = req.removed
<1>1. req' \in Request
  BY Zenon DEF Request
<1> QED
  BY <1>1, Zenon DEF Request

\* The steps of a request that is under way, and what they set.
Within(p, n, held) ==
    /\ req' \in Request
    /\ req'.pc = p /\ req'.i = n /\ req'.held = held
    /\ req'.batch = req.batch /\ req'.done = req.done
    /\ req'.answers = req.answers /\ req'.removed = req.removed

LEMMA WithinRequest ==
    ASSUME SessionTypeOK, Position
    PROVE  /\ Enter /\ requestLock' # Nobody => Within("epoch", req.i, req.held)
           /\ LoadEpoch => Within("next", req.i, req.held)
           /\ DuplicateFences => Within("import", 1, ToSet(Outputs) \cap guarded)
           /\ ImportBuffers => Within("destination", req.i, req.held)
           /\ DestinationReady =>
                Within(IF req.i = Len(Outputs) THEN "pace" ELSE "destination",
                       IF req.i = Len(Outputs) THEN 1 ELSE req.i + 1, req.held \ {Out})
           /\ Paced => Within("source", req.i, req.held)
           /\ SourceAcquired => Within("sourceFence", req.i, req.held)
           /\ SourceReady => Within("output", req.i, req.held)
           /\ \A r \in Results: Output(r) =>
                Within(IF req.i = Len(Outputs) THEN "answer" ELSE "output", req.i + 1, req.held)
<1> USE DEF Within
<1>1. /\ req \in Request /\ req.epoch \in Nat /\ req.i \in Nat /\ req.held \in SUBSET Buffers
      /\ req.results \in Seq(Results) /\ req.source \in BOOLEAN /\ req.pc \in Steps
      /\ cancelEpoch \in Nat
  BY DEF SessionTypeOK, Request
<1>2. {"epoch", "next", "import", "destination", "pace", "source", "sourceFence", "output",
       "answer"} \subseteq Steps
  BY DEF Steps, Waiting, Filling
<1>3. ASSUME NEW p \in Steps, NEW s \in BOOLEAN, req' = [req EXCEPT !.pc = p, !.source = s]
      PROVE  Within(p, req.i, req.held)
  <2>1. req' = [req EXCEPT !.pc = p, !.epoch = req.epoch, !.i = req.i, !.held = req.held,
                           !.results = req.results, !.source = s]
    BY <1>1, <1>3, Zenon DEF Request
  <2> QED
    BY <1>1, <2>1, Advances, Zenon
<1>4. ASSUME NEW p \in Steps, req' = [req EXCEPT !.pc = p]
      PROVE  Within(p, req.i, req.held)
  <2>1. req' = [req EXCEPT !.pc = p, !.source = req.source]
    BY <1>1, <1>4, Zenon DEF Request
  <2> QED
    BY <1>1, <2>1, <1>3, Zenon
<1>5. ASSUME Enter, requestLock' # Nobody PROVE Within("epoch", req.i, req.held)
  <2>1. req' = [req EXCEPT !.pc = "epoch"]
    BY <1>5 DEF Enter, Return
  <2> QED
    BY <2>1, <1>4, <1>2
<1>6. ASSUME LoadEpoch PROVE Within("next", req.i, req.held)
  <2>1. req' = [req EXCEPT !.pc = "next", !.epoch = cancelEpoch, !.i = req.i, !.held = req.held,
                           !.results = req.results, !.source = req.source]
    BY <1>1, <1>6, Zenon DEF LoadEpoch, Request
  <2> QED
    BY <1>1, <1>2, <2>1, Advances, Zenon
<1>7. ASSUME DuplicateFences PROVE Within("import", 1, ToSet(Outputs) \cap guarded)
  <2>1. req' = [req EXCEPT !.pc = "import", !.epoch = req.epoch, !.i = 1,
                           !.held = ToSet(Outputs) \cap guarded,
                           !.results = <<>>, !.source = req.source]
    BY <1>1, <1>7, Zenon DEF DuplicateFences, Request
  <2>2. ToSet(Outputs) \cap guarded \in SUBSET Buffers /\ <<>> \in Seq(Results) /\ 1 \in Nat
    BY DEF SessionTypeOK
  <2> QED
    BY <1>1, <1>2, <2>1, <2>2, Advances, Zenon
<1>8. ASSUME ImportBuffers PROVE Within("destination", req.i, req.held)
  BY <1>8, <1>4, <1>2 DEF ImportBuffers
<1>9. ASSUME DestinationReady
      PROVE  Within(IF req.i = Len(Outputs) THEN "pace" ELSE "destination",
                    IF req.i = Len(Outputs) THEN 1 ELSE req.i + 1, req.held \ {Out})
  <2> DEFINE p == IF req.i = Len(Outputs) THEN "pace" ELSE "destination"
             n == IF req.i = Len(Outputs) THEN 1 ELSE req.i + 1
  <2>1. req' = [req EXCEPT !.held = req.held \ {Out}, !.i = n, !.pc = p]
    BY <1>9 DEF DestinationReady
  <2>2. p \in Steps /\ n \in Nat /\ req.held \ {Out} \in SUBSET Buffers
    BY <1>1, <1>2
  <2> HIDE DEF p, n
  <2>3. req' = [req EXCEPT !.pc = p, !.epoch = req.epoch, !.i = n, !.held = req.held \ {Out},
                           !.results = req.results, !.source = req.source]
    BY <1>1, <2>1, Zenon DEF Request
  <2>4. Within(p, n, req.held \ {Out})
    BY <1>1, <2>2, <2>3, Advances, Zenon
  <2> QED
    BY <2>4 DEF p, n
<1>10. ASSUME Paced PROVE Within("source", req.i, req.held)
  BY <1>10, <1>4, <1>2 DEF Paced
<1>11. ASSUME SourceAcquired PROVE Within("sourceFence", req.i, req.held)
  BY <1>11, <1>3, <1>2, Zenon DEF SourceAcquired
<1>12. ASSUME SourceReady PROVE Within("output", req.i, req.held)
  BY <1>12, <1>4, <1>2 DEF SourceReady
<1>13. ASSUME NEW r \in Results, Output(r)
       PROVE  Within(IF req.i = Len(Outputs) THEN "answer" ELSE "output", req.i + 1, req.held)
  <2> DEFINE p == IF req.i = Len(Outputs) THEN "answer" ELSE "output"
  <2>1. req' = [req EXCEPT !.results = Append(req.results, r), !.i = req.i + 1, !.pc = p]
    BY <1>13 DEF Output
  <2>2. p \in Steps /\ req.i + 1 \in Nat /\ Append(req.results, r) \in Seq(Results)
    BY <1>1, <1>2
  <2> HIDE DEF p
  <2>3. req' = [req EXCEPT !.pc = p, !.epoch = req.epoch, !.i = req.i + 1, !.held = req.held,
                           !.results = Append(req.results, r), !.source = req.source]
    BY <1>1, <2>1, Zenon DEF Request
  <2>4. Within(p, req.i + 1, req.held)
    BY <1>1, <2>2, <2>3, Advances, Zenon
  <2> QED
    BY <2>4 DEF p
<1> QED
  BY <1>5, <1>6, <1>7, <1>8, <1>9, <1>10, <1>11, <1>12, <1>13

-----------------------------------------------------------------------------
\* What is not the request's and not the buffers'.
Control == <<flushing, flusher, closer, configVars, calls>>

\* A call that returns leaves nothing behind, however far it had come.
LEMMA ReturnKeeps ==
    ASSUME IInv, req.pc # "idle", Return, UNCHANGED <<Control, known>>,
           cancelEpoch' \in Nat, cached' \subseteq Buffers, known \subseteq cached',
           \/ UNCHANGED <<closed, notified>>
           \/ closed' = TRUE /\ notified' = (IF closed THEN notified ELSE notified + 1)
    PROVE  IInv'
<1>1. /\ req' = NoCall /\ NoCall \in Request /\ requestLock' = Nobody
      /\ UNCHANGED <<busy, guarded>> /\ ours' = {} /\ Pending' = {}
  BY ReturnEnds DEF IInv
<1>2. /\ req'.pc = "idle" /\ req'.held = {} /\ req'.answers = 0 /\ req'.done = 0
  BY <1>1 DEF NoCall
<1>3. SessionTypeOK'
  <2>1. closed \in BOOLEAN /\ notified \in Nat
    BY DEF IInv, SessionTypeOK
  <2>2. closed' \in BOOLEAN
    BY <2>1, Zenon
  <2>3. notified' \in Nat
    BY <2>1
  <2> QED
    BY <1>1, <2>2, <2>3 DEF IInv, SessionTypeOK, Control, configVars
<1>4. Position' /\ LockInTurn' /\ Owned'
  BY <1>1, <1>2 DEF Position, LockInTurn, Owned, Waiting, Filling, At
<1>5. Guarded' /\ Fenced'
  BY <1>1, <1>2 DEF IInv, Guarded, Fenced, At, Waiting, Filling
<1>6. Cached'
  BY <1>2 DEF Cached, At, Waiting, Filling
<1>7. Ended'
  <2>1. closer' = closer /\ closer \in {"idle", "cancel", "again", "drain", "drainAgain", "closed"}
    BY DEF IInv, SessionTypeOK, Control
  <2> QED
    BY <1>2, <2>1 DEF IInv, Ended, SessionTypeOK
<1> QED
  BY <1>2, <1>3, <1>4, <1>5, <1>6, <1>7 DEF IInv

\* A request is answered: every output goes back, and the fences that guard the
\* work of consumers with it.
LEMMA AnswerKeeps ==
    ASSUME IInv, req.pc \in Waiting \cup Filling,
           NEW attached \in SUBSET ToSet(Outputs), Answer(attached),
           \A n \in DOMAIN Outputs: busy[Outputs[n]] = "consumer" => Outputs[n] \in attached,
           ToSet(Outputs) \subseteq cached
    PROVE  IInv'
<1>1. /\ SessionTypeOK /\ Position /\ LockInTurn /\ req.answers = req.done
      /\ Owned /\ Guarded /\ Fenced /\ Cached /\ Ended
  BY DEF IInv
<1>2. /\ req' \in Request /\ req'.pc = "next" /\ req'.batch = req.batch
      /\ req'.done = req.done + 1 /\ req'.answers = req.answers + 1 /\ req'.held = {}
      /\ ours' = ours \ ToSet(Outputs) /\ UNCHANGED busy
      /\ guarded' = (guarded \ ToSet(Outputs)) \cup attached
      /\ known' = known \cup ToSet(Outputs)
  BY <1>1, AnswerMoves
<1>3. /\ req.pc # "idle" /\ req.done < Len(req.batch) /\ req.batch \in Batches
      /\ req.batch \in Seq(Seq(Buffers)) /\ req.done \in Nat
  BY <1>1, AtWork DEF Position, SessionTypeOK, Request
<1>4. ToSet(Outputs) \subseteq Buffers /\ ToSet(Outputs) \subseteq Pending
  BY <1>1, <1>3, OutputsPending
<1>5. UNCHANGED <<requestLock, closed, flushing, cancelEpoch, flusher, closer, streams, token,
                  ready, cached, notified, calls>>
  BY DEF Answer, cancelVars, configVars
<1>6. SessionTypeOK'
  BY <1>1, <1>2, <1>4, <1>5 DEF SessionTypeOK
<1>7. Position'
  BY <1>2, <1>3 DEF Position, Waiting, Filling, At
<1>8. LockInTurn'
  BY <1>1, <1>2, <1>5 DEF LockInTurn, Waiting, Filling
<1>9. Owned'
  <2>1. Pending' = UNION {ToSet(req.batch[n]): n \in (req.done + 1) + 1 .. Len(req.batch)}
    BY <1>2 DEF Pending
  <2>2. Len(req.batch) \in Nat /\ DOMAIN req.batch = 1 .. Len(req.batch)
    BY <1>3
  <2>3. \A n \in req.done + 1 .. Len(req.batch):
            n = req.done + 1 \/ n \in (req.done + 1) + 1 .. Len(req.batch)
    BY <1>3, <2>2
  <2>4. Pending = ToSet(Outputs) \cup Pending'
    <3>1. req.done + 1 \in req.done + 1 .. Len(req.batch)
      BY <1>3, <2>2
    <3>2. (req.done + 1) + 1 .. Len(req.batch) \subseteq req.done + 1 .. Len(req.batch)
      BY <1>3, <2>2
    <3>3. ToSet(Outputs) = ToSet(req.batch[req.done + 1])
      BY DEF Outputs
    <3> HIDE DEF Outputs
    <3> QED
      BY <2>1, <2>3, <3>1, <3>2, <3>3 DEF Pending
  <2>5. ToSet(Outputs) \cap Pending' = {}
    <3> SUFFICES ASSUME NEW b \in ToSet(Outputs),
                        NEW n \in (req.done + 1) + 1 .. Len(req.batch), b \in ToSet(req.batch[n])
                 PROVE  FALSE
      BY <2>1
    <3>1. PICK i \in DOMAIN req.batch[req.done + 1]: b = req.batch[req.done + 1][i]
      BY DEF ToSet, Outputs
    <3>2. PICK j \in DOMAIN req.batch[n]: b = req.batch[n][j]
      BY DEF ToSet
    <3>3. n \in DOMAIN req.batch /\ req.done + 1 \in DOMAIN req.batch /\ n # req.done + 1
      <4>1. req.done \in Nat /\ req.done < Len(req.batch)
        BY <1>3, Zenon
      <4> QED
        BY <2>2, <4>1
    <3>4. \A m, k \in DOMAIN req.batch: \A x \in DOMAIN req.batch[m], y \in DOMAIN req.batch[k]:
              req.batch[m][x] = req.batch[k][y] => m = k /\ x = y
      BY <1>3, SessionAssumption
    <3>5. req.batch[req.done + 1][i] = req.batch[n][j]
      BY <3>1, <3>2
    <3> QED
      BY <3>1, <3>2, <3>3, <3>4, <3>5
  <2> QED
    BY <1>1, <1>2, <2>4, <2>5 DEF Owned
<1>10. Guarded'
  <2> SUFFICES ASSUME NEW b \in Buffers, busy[b] = "consumer"
               PROVE  b \in (guarded \ ToSet(Outputs)) \cup attached
    BY <1>2 DEF Guarded
  <2>1. CASE b \in ToSet(Outputs)
    BY <2>1 DEF ToSet
  <2> QED
    BY <1>1, <2>1 DEF Guarded
<1>11. Fenced' /\ Ended'
  BY <1>1, <1>2, <1>5 DEF Fenced, Ended, At, Waiting, Filling
<1>12. Cached'
  BY <1>1, <1>2, <1>5 DEF Cached, At, Waiting, Filling
<1>13. req'.answers = req'.done
  BY <1>1, <1>2
<1> QED
  BY <1>6, <1>7, <1>8, <1>9, <1>10, <1>11, <1>12, <1>13 DEF IInv

\* A step within a request: what it must keep for the place it goes to.
LEMMA WithinKeeps ==
    ASSUME IInv, NEW p \in {"epoch", "next"} \cup Waiting \cup Filling, NEW n \in Nat,
           NEW held \in SUBSET Buffers, Within(p, n, held), req.pc # "idle",
           requestLock' = "request", UNCHANGED <<cancelVars, configVars, notified, known, calls>>,
           UNCHANGED <<ours, guarded>>,
           cached' \subseteq Buffers, known \subseteq cached',
           p \in {"destination"} \cup Filling => ToSet(Outputs) \subseteq cached',
           busy' \in [Buffers -> {"none", "consumer", "gpu"}],
           \A b \in Buffers: busy'[b] = "consumer" => busy[b] = "consumer",
           p \in Waiting \cup Filling =>
               req.done < Len(req.batch) /\ n # 0 /\ (p # "answer" => n <= Len(Outputs)),
           p = "import" => n = 1,
           p \notin Waiting => held = {},
           p \in Waiting =>
               /\ held \subseteq ToSet(Outputs)
               /\ \A m \in DOMAIN Outputs: busy'[Outputs[m]] = "consumer" => Outputs[m] \in held,
           p = "destination" =>
               /\ \A m \in 1 .. n - 1: busy'[Outputs[m]] # "consumer"
               /\ \A b \in held: \E m \in n .. Len(Outputs): b = Outputs[m],
           p \in Filling => \A m \in DOMAIN Outputs: busy'[Outputs[m]] # "consumer",
           closer # "closed"
    PROVE  IInv'
<1>1. /\ SessionTypeOK /\ Position /\ LockInTurn /\ req.answers = req.done
      /\ Owned /\ Guarded /\ Fenced /\ Cached /\ Ended
  BY DEF IInv
<1>2. /\ req' \in Request /\ req'.pc = p /\ req'.i = n /\ req'.held = held
      /\ req'.batch = req.batch /\ req'.done = req.done
      /\ req'.answers = req.answers /\ req'.removed = req.removed
  BY DEF Within
<1>3. p # "idle" /\ p # "enter"
  BY DEF Waiting, Filling
<1>4. Outputs' = Outputs /\ Pending' = Pending
  BY <1>2 DEF Outputs, Pending
<1>5. SessionTypeOK'
  BY <1>1, <1>2 DEF SessionTypeOK, cancelVars, configVars
<1>6. Position'
  BY <1>1, <1>2, <1>3, <1>4 DEF Position, At
<1>7. LockInTurn' /\ Owned'
  BY <1>1, <1>2, <1>3, <1>4 DEF LockInTurn, Owned
<1>8. Guarded'
  BY <1>1 DEF Guarded
<1>9. Fenced'
  BY <1>2, <1>4 DEF Fenced, At
<1>10. Cached'
  BY <1>2, <1>3, <1>4 DEF Cached, At
<1>11. Ended'
  BY <1>1 DEF Ended, cancelVars
<1>12. req'.answers = req'.done
  BY <1>1, <1>2
<1> QED
  BY <1>5, <1>6, <1>7, <1>8, <1>9, <1>10, <1>11, <1>12 DEF IInv

-----------------------------------------------------------------------------
\* Everything that ends a call keeps the invariant.
LEMMA ReturnStep ==
    ASSUME IInv
    PROVE  /\ Enter /\ (closed \/ flushing) => IInv'
           /\ AllDone => IInv'
           /\ RejectRequest => IInv'
           /\ DuplicateFails => IInv'
           /\ ImportFails => IInv'
<1>1. /\ SessionTypeOK /\ Position /\ Cached
  BY DEF IInv
<1>2. cancelEpoch \in Nat /\ cached \subseteq Buffers /\ known \subseteq cached
  BY <1>1 DEF SessionTypeOK, Cached
<1>3. ASSUME Enter, closed \/ flushing PROVE IInv'
  <2>1. req.pc # "idle" /\ Return /\ UNCHANGED <<Control, known, cached, closed, notified, cancelEpoch>>
    BY <1>3 DEF Enter, At, Control, cancelVars, configVars
  <2> QED
    BY <1>2, <2>1, ReturnKeeps
<1>4. ASSUME AllDone \/ RejectRequest PROVE IInv'
  <2>1. req.pc # "idle" /\ Return /\ UNCHANGED <<Control, known, cached, closed, notified, cancelEpoch>>
    BY <1>4 DEF AllDone, RejectRequest, At, Internal, Control, cancelVars, configVars
  <2> QED
    BY <1>2, <2>1, ReturnKeeps
<1>5. ASSUME DuplicateFails PROVE IInv'
  <2>1. /\ req.pc # "idle" /\ Return /\ UNCHANGED <<Control, known, cached>>
        /\ closed' = TRUE /\ notified' = (IF closed THEN notified ELSE notified + 1)
        /\ cancelEpoch' = cancelEpoch + 1
    BY <1>5 DEF DuplicateFails, At, Control, configVars
  <2> QED
    BY <1>2, <2>1, ReturnKeeps
<1>6. ASSUME ImportFails PROVE IInv'
  <2>1. /\ req.pc # "idle" /\ Return
        /\ UNCHANGED <<Control, known, closed, notified, cancelEpoch>>
    BY <1>6 DEF ImportFails, At, Internal, Control, cancelVars, configVars
  <2>2. /\ DOMAIN Outputs = 1 .. Len(Outputs) /\ Len(Outputs) \in Nat
        /\ \A n \in DOMAIN Outputs: Outputs[n] \in Buffers
    BY <1>1, <1>6, AtWork, OutputsPending DEF ImportFails, At, Waiting
  <2>3. PICK n \in DOMAIN Outputs: cached' = cached \cup {Outputs[m]: m \in 1 .. n - 1}
    BY <1>6 DEF ImportFails
  <2>4. \A m \in 1 .. n - 1: m \in DOMAIN Outputs
    BY <2>2
  <2>5. cached' \subseteq Buffers /\ known \subseteq cached'
    BY <1>2, <2>2, <2>3, <2>4
  <2> QED
    BY <1>2, <2>1, <2>5, ReturnKeeps
<1> QED
  BY <1>3, <1>4, <1>5, <1>6

\* Everything that answers a request keeps the invariant.
LEMMA AnswerStep ==
    ASSUME IInv, DestinationFails \/ PaceCancelled \/ SourceFails \/ SourceNotReady \/ SendResult
    PROVE  IInv'
<1>1. SessionTypeOK /\ Position /\ Fenced /\ Cached
  BY DEF IInv
<1>2. CASE DestinationFails
  <2>1. At("destination") /\ Answer(req.held)
    BY <1>2 DEF DestinationFails, FailUntouched
  <2>2. /\ req.pc \in Waiting \cup Filling /\ req.held \in SUBSET ToSet(Outputs)
        /\ \A n \in DOMAIN Outputs: busy[Outputs[n]] = "consumer" => Outputs[n] \in req.held
        /\ ToSet(Outputs) \subseteq cached
    BY <1>1, <2>1 DEF Fenced, Cached, At, Waiting
  <2> QED
    BY <2>1, <2>2, AnswerKeeps
<1>3. CASE PaceCancelled \/ SourceFails \/ SourceNotReady
  <2>1. req.pc \in Filling /\ Answer(req.held)
    BY <1>3 DEF PaceCancelled, SourceFails, SourceNotReady, FailUntouched, At, Filling
  <2>2. req.pc \notin Waiting
    BY <2>1 DEF Filling, Waiting
  <2>3. /\ req.held = {} /\ ToSet(Outputs) \subseteq cached
        /\ \A n \in DOMAIN Outputs: busy[Outputs[n]] # "consumer"
    BY <1>1, <2>1, <2>2 DEF Fenced, Cached
  <2> QED
    BY <2>1, <2>3, AnswerKeeps
<1>4. CASE SendResult
  <2> DEFINE attached == {Outputs[n]: n \in {m \in DOMAIN Outputs: req.results[m] = "gpu"}}
  <2>1. req.pc \in Filling /\ Answer(attached)
    BY <1>4 DEF SendResult, At, Filling
  <2>2. attached \in SUBSET ToSet(Outputs)
    BY DEF ToSet
  <2>3. /\ ToSet(Outputs) \subseteq cached
        /\ \A n \in DOMAIN Outputs: busy[Outputs[n]] # "consumer"
    BY <1>1, <2>1 DEF Fenced, Cached
  <2> QED
    BY <2>1, <2>2, <2>3, AnswerKeeps
<1> QED
  BY <1>2, <1>3, <1>4

\* Up to the first output: the lock, the fences' duplicates, the handles.
LEMMA EntryStep ==
    ASSUME IInv
    PROVE  /\ Enter /\ ~(closed \/ flushing) => IInv'
           /\ LoadEpoch => IInv'
           /\ DuplicateFences => IInv'
           /\ ImportBuffers => IInv'
<1>1. /\ SessionTypeOK /\ Position /\ LockInTurn /\ Guarded /\ Fenced /\ Cached /\ Ended
  BY DEF IInv
<1>2. /\ req.i \in Nat /\ req.held \in SUBSET Buffers /\ req.pc \in Steps
      /\ cached \subseteq Buffers /\ known \subseteq cached
      /\ busy \in [Buffers -> {"none", "consumer", "gpu"}]
      /\ guarded \subseteq Buffers /\ req.removed \subseteq Buffers
  BY <1>1 DEF SessionTypeOK, Request, Cached
<1>3. req.pc \notin {"idle", "enter"} => requestLock = "request" /\ closer # "closed"
  BY <1>1 DEF LockInTurn, Ended
<1> USE DEF Internal, Holding, bufferVars
<1>4. ASSUME Enter, ~(closed \/ flushing) PROVE IInv'
  <2>1. /\ req.pc = "enter" /\ requestLock' = "request" /\ cached' = cached \ req.removed
        /\ UNCHANGED <<cancelVars, configVars, notified, known, calls, ours, guarded, busy>>
    BY <1>4 DEF Enter, At
  <2>2. Within("epoch", req.i, req.held) /\ req.held = {} /\ closer # "closed"
    <3>1. requestLock' # Nobody
      BY <2>1 DEF Nobody
    <3>2. req.held = {}
      BY <1>1, <2>1 DEF Fenced, Waiting
    <3>3. closer # "closed"
      BY <1>1, <1>4 DEF Ended, SessionTypeOK
    <3> QED
      BY <1>1, <1>4, <3>1, <3>2, <3>3, WithinRequest
  <2>3. known \subseteq cached'
    BY <1>1, <2>1 DEF Cached, At
  <2> QED
    BY <1>2, <2>1, <2>2, <2>3, WithinKeeps DEF Waiting, Filling
<1>5. ASSUME LoadEpoch PROVE IInv'
  <2>1. /\ req.pc = "epoch"
        /\ UNCHANGED <<cancelVars, configVars, notified, known, calls, ours, guarded, busy,
                       requestLock, cached>>
    BY <1>5 DEF LoadEpoch, At
  <2>2. Within("next", req.i, req.held) /\ req.held = {}
    BY <1>1, <1>5, <2>1, WithinRequest DEF Fenced, Waiting
  <2> QED
    BY <1>2, <1>3, <2>1, <2>2, WithinKeeps DEF Waiting, Filling
<1>6. ASSUME DuplicateFences PROVE IInv'
  <2> DEFINE held == ToSet(Outputs) \cap guarded
  <2>1. /\ req.pc = "next" /\ req.done < Len(req.batch) /\ Outputs # <<>>
        /\ UNCHANGED <<cancelVars, configVars, notified, known, calls, ours, guarded, busy,
                       requestLock, cached>>
    BY <1>6 DEF DuplicateFences, At, Valid
  <2>2. Within("import", 1, held)
    BY <1>1, <1>6, WithinRequest
  <2>3. /\ Outputs \in Seq(Buffers) /\ Len(Outputs) \in Nat
        /\ \A m \in DOMAIN Outputs: Outputs[m] \in Buffers /\ Outputs[m] \in ToSet(Outputs)
    BY <1>1, <2>1, OutputsPending
  <2>4. 1 <= Len(Outputs)
    BY <2>1, <2>3
  <2>5. \A m \in DOMAIN Outputs: busy'[Outputs[m]] = "consumer" => Outputs[m] \in held
    BY <1>1, <2>1, <2>3 DEF Guarded
  <2>6. held \in SUBSET Buffers /\ held \subseteq ToSet(Outputs)
    BY <1>2
  <2> HIDE DEF held
  <2> QED
    BY <1>2, <1>3, <2>1, <2>2, <2>4, <2>5, <2>6, WithinKeeps DEF Waiting, Filling
<1>7. ASSUME ImportBuffers PROVE IInv'
  <2>1. /\ req.pc = "import" /\ cached' = cached \cup ToSet(Outputs)
        /\ UNCHANGED <<cancelVars, configVars, notified, known, calls, ours, guarded, busy,
                       requestLock>>
    BY <1>7 DEF ImportBuffers, At
  <2>2. Within("destination", req.i, req.held)
    BY <1>1, <1>7, WithinRequest
  <2>3. /\ req.done < Len(req.batch) /\ req.i \in Nat \ {0} /\ req.i <= Len(Outputs)
        /\ ToSet(Outputs) \subseteq Buffers
    BY <1>1, <2>1, OutputsPending DEF Position, Waiting
  <2>4. /\ req.held \subseteq ToSet(Outputs) /\ req.i = 1
        /\ \A m \in DOMAIN Outputs: busy[Outputs[m]] = "consumer" => Outputs[m] \in req.held
    BY <1>1, <2>1 DEF Fenced, Waiting, Position, At
  <2>5. /\ \A m \in 1 .. req.i - 1: busy'[Outputs[m]] # "consumer"
        /\ \A b \in req.held: \E m \in req.i .. Len(Outputs): b = Outputs[m]
    <3>1. DOMAIN Outputs = 1 .. Len(Outputs)
      BY <1>1, <2>1, <2>3, OutputsPending
    <3> QED
      BY <2>4, <3>1 DEF ToSet
  <2> QED
    BY <1>2, <1>3, <2>1, <2>2, <2>3, <2>4, <2>5, WithinKeeps DEF Waiting, Filling
<1> QED
  BY <1>4, <1>5, <1>6, <1>7

\* The waits, and the outputs written one after the other.
LEMMA FillStep ==
    ASSUME IInv
    PROVE  /\ DestinationReady => IInv'
           /\ Paced \/ SourceAcquired \/ SourceReady => IInv'
           /\ \A r \in Results: Output(r) => IInv'
<1>1. /\ SessionTypeOK /\ Position /\ LockInTurn /\ Fenced /\ Cached /\ Ended
  BY DEF IInv
<1>2. /\ req.i \in Nat /\ req.held \in SUBSET Buffers
      /\ cached \subseteq Buffers /\ known \subseteq cached
      /\ busy \in [Buffers -> {"none", "consumer", "gpu"}]
  BY <1>1 DEF SessionTypeOK, Request, Cached
<1>3. req.pc \notin {"idle", "enter"} => requestLock = "request" /\ closer # "closed"
  BY <1>1 DEF LockInTurn, Ended
<1>4. req.pc \in Waiting \cup Filling =>
        /\ req.done < Len(req.batch) /\ req.i \in Nat \ {0}
        /\ DOMAIN Outputs = 1 .. Len(Outputs) /\ Len(Outputs) \in Nat
        /\ \A m \in DOMAIN Outputs: Outputs[m] \in Buffers /\ Outputs[m] \in ToSet(Outputs)
        /\ req.pc # "answer" => req.i <= Len(Outputs) /\ Out \in Buffers
  BY <1>1, AtWork, OutputsPending DEF Position, Out
<1> USE DEF Internal, Holding, bufferVars
<1>5. ASSUME DestinationReady PROVE IInv'
  <2> DEFINE p == IF req.i = Len(Outputs) THEN "pace" ELSE "destination"
             n == IF req.i = Len(Outputs) THEN 1 ELSE req.i + 1
             held == req.held \ {Out}
  <2>1. /\ req.pc = "destination" /\ (busy[Out] = "none" \/ Out \notin req.held)
        /\ UNCHANGED <<cancelVars, configVars, notified, known, calls, ours, guarded, busy,
                       requestLock, cached>>
    BY <1>5 DEF DestinationReady, At
  <2>2. req.pc \in Waiting /\ ToSet(Outputs) \subseteq cached
    BY <1>1, <2>1 DEF Waiting, Cached
  <2>3. /\ req.held \subseteq ToSet(Outputs)
        /\ \A m \in DOMAIN Outputs: busy[Outputs[m]] = "consumer" => Outputs[m] \in req.held
        /\ \A m \in 1 .. req.i - 1: busy[Outputs[m]] # "consumer"
        /\ \A b \in req.held: \E m \in req.i .. Len(Outputs): b = Outputs[m]
    BY <1>1, <2>1, <2>2 DEF Fenced, At
  <2>4. busy[Out] # "consumer" /\ Out = Outputs[req.i]
    BY <1>4, <2>1, <2>2, <2>3 DEF Out
  <2>5. \A m \in 1 .. req.i: busy[Outputs[m]] # "consumer"
    BY <1>4, <2>2, <2>3, <2>4
  <2>6. \A m \in DOMAIN Outputs: busy[Outputs[m]] = "consumer" => Outputs[m] \in held
    BY <2>3, <2>4
  <2>7. Within(p, n, held)
    BY <1>1, <1>5, WithinRequest
  <2>8. /\ p \in {"epoch", "next"} \cup Waiting \cup Filling /\ n \in Nat /\ n # 0
        /\ n <= Len(Outputs) /\ held \in SUBSET Buffers /\ p # "import"
    BY <1>2, <1>4, <2>1, <2>2 DEF Waiting, Filling
  <2>9. \A m \in 1 .. n - 1: busy[Outputs[m]] # "consumer"
    BY <1>4, <2>2, <2>5
  <2>10. p \in Filling => \A m \in DOMAIN Outputs: busy[Outputs[m]] # "consumer"
    BY <1>4, <2>2, <2>5 DEF Filling
  <2>11. \A b \in held: \E m \in req.i + 1 .. Len(Outputs): b = Outputs[m]
    <3> SUFFICES ASSUME NEW b \in req.held, b # Out
                 PROVE  \E m \in req.i + 1 .. Len(Outputs): b = Outputs[m]
      OBVIOUS
    <3>1. PICK m \in req.i .. Len(Outputs): b = Outputs[m]
      BY <2>3
    <3>2. m # req.i
      BY <2>4, <3>1
    <3> QED
      BY <1>4, <2>2, <3>1, <3>2
  <2>13. p \notin Waiting => held = {}
    BY <1>4, <2>2, <2>11 DEF Waiting
  <2>14. p = "destination" => \A b \in held: \E m \in n .. Len(Outputs): b = Outputs[m]
    BY <2>11
  <2>12. held \subseteq ToSet(Outputs)
    BY <2>3
  <2> HIDE DEF p, n, held
  <2> QED
    BY <1>2, <1>3, <1>4, <2>1, <2>2, <2>6, <2>7, <2>8, <2>9, <2>10, <2>12, <2>13, <2>14, WithinKeeps
<1>6. ASSUME Paced \/ SourceAcquired \/ SourceReady PROVE IInv'
  <2>1. /\ req.pc \in Filling /\ req.pc # "answer"
        /\ UNCHANGED <<cancelVars, configVars, notified, known, calls, ours, guarded, busy,
                       requestLock, cached>>
    BY <1>6 DEF Paced, SourceAcquired, SourceReady, At, Filling
  <2>2. PICK p \in {"source", "sourceFence", "output"}: Within(p, req.i, req.held)
    BY <1>1, <1>6, WithinRequest
  <2>3. req.pc \notin {"idle", "enter"} \cup Waiting
    BY <2>1 DEF Filling, Waiting
  <2>4. /\ req.held = {} /\ \A m \in DOMAIN Outputs: busy[Outputs[m]] # "consumer"
        /\ ToSet(Outputs) \subseteq cached
    BY <1>1, <2>1, <2>3 DEF Fenced, Cached
  <2>5. p \in Filling /\ p \notin Waiting
    BY DEF Filling, Waiting
  <2> QED
    BY <1>2, <1>3, <1>4, <2>1, <2>2, <2>3, <2>4, <2>5, WithinKeeps
<1>7. ASSUME NEW r \in Results, Output(r) PROVE IInv'
  <2> DEFINE p == IF req.i = Len(Outputs) THEN "answer" ELSE "output"
  <2>1. /\ req.pc = "output"
        /\ UNCHANGED <<cancelVars, configVars, notified, known, calls, ours, guarded,
                       requestLock, cached>>
    BY <1>7 DEF Output, At
  <2>2. req.pc \in Filling /\ req.pc # "answer" /\ req.pc \notin {"idle", "enter"} \cup Waiting
    BY <2>1 DEF Filling, Waiting
  <2>3. /\ req.held = {} /\ \A m \in DOMAIN Outputs: busy[Outputs[m]] # "consumer"
        /\ ToSet(Outputs) \subseteq cached
    BY <1>1, <2>2 DEF Fenced, Cached
  <2>4. /\ busy' = [busy EXCEPT ![Out] = IF r \in {"gpu", "unfenced"} THEN "gpu" ELSE busy[Out]]
        /\ Out \in Buffers
    BY <1>4, <1>7, <2>2 DEF Output
  <2>5. /\ busy' \in [Buffers -> {"none", "consumer", "gpu"}]
        /\ \A b \in Buffers: busy'[b] = "consumer" => busy[b] = "consumer"
    BY <1>2, <2>4
  <2>6. \A m \in DOMAIN Outputs: busy'[Outputs[m]] # "consumer"
    BY <1>4, <2>2, <2>3, <2>5
  <2>7. Within(p, req.i + 1, req.held)
    BY <1>1, <1>7, WithinRequest
  <2>8. /\ p \in Filling /\ p \notin Waiting /\ p # "import" /\ p # "destination"
        /\ req.i + 1 \in Nat /\ req.i + 1 # 0 /\ (p # "answer" => req.i + 1 <= Len(Outputs))
    BY <1>4, <2>2 DEF Filling, Waiting
  <2> HIDE DEF p
  <2> QED
    BY <1>2, <1>3, <1>4, <2>1, <2>2, <2>3, <2>5, <2>6, <2>7, <2>8, WithinKeeps, Zenon
<1> QED
  BY <1>5, <1>6, <1>7

-----------------------------------------------------------------------------
\* The framework calls: every buffer it sends is the session's now.
LEMMA CallStep ==
    ASSUME IInv, NEW batch \in Batches, NEW gone \in SUBSET Buffers, Call(batch, gone)
    PROVE  IInv'
<1>1. /\ SessionTypeOK /\ LockInTurn /\ Owned /\ Guarded /\ Cached /\ Ended
  BY DEF IInv
<1> DEFINE sent == UNION {ToSet(batch[n]): n \in DOMAIN batch}
<1>2. /\ req.pc = "idle" /\ gone \subseteq known \ sent
      /\ ours' = ours \cup sent
      /\ busy' = [b \in Buffers |-> IF b \notin sent THEN busy[b]
                                    ELSE IF b \in guarded THEN "consumer" ELSE "none"]
      /\ req' = [NoCall EXCEPT !.pc = "enter", !.batch = batch, !.removed = gone]
      /\ known' = known \ gone /\ calls' = [calls EXCEPT !.process = calls.process + 1]
      /\ UNCHANGED <<requestLock, cancelVars, configVars, cached, notified, guarded>>
  BY DEF Call, At
<1>3. batch \in Seq(Seq(Buffers)) /\ Len(batch) \in Nat /\ DOMAIN batch = 1 .. Len(batch)
  BY SessionAssumption
<1>4. sent \subseteq Buffers
  BY <1>3 DEF ToSet
<1>5. /\ NoCall \in Request /\ "enter" \in Steps
  BY DEF NoCall, Request, Steps
<1>6. req' \in Request
  BY <1>2, <1>3, <1>5, Zenon DEF Request
<1>7. /\ req'.pc = "enter" /\ req'.batch = batch /\ req'.removed = gone /\ req'.done = 0
      /\ req'.answers = 0 /\ req'.held = {} /\ req'.i = 1
  BY <1>2 DEF NoCall
<1>8. calls' \in [process: Nat, configure: Nat, flush: Nat]
  BY <1>1, <1>2 DEF SessionTypeOK
<1>9. SessionTypeOK'
  BY <1>1, <1>2, <1>4, <1>6, <1>8 DEF SessionTypeOK, cancelVars, configVars
<1>10. Position'
  BY <1>3, <1>7 DEF Position, Waiting, Filling, At
<1>11. LockInTurn'
  BY <1>1, <1>2, <1>7 DEF LockInTurn
<1>12. Owned'
  <2>1. Pending' = sent
    BY <1>3, <1>7 DEF Pending
  <2>2. ours \subseteq sent
    <3>1. req = NoCall
      BY <1>2 DEF IInv, Position, At
    <3> QED
      BY <1>1, <3>1 DEF Owned, Pending, NoCall
  <2> QED
    BY <1>2, <2>1, <2>2 DEF Owned
<1>13. Guarded'
  BY <1>1, <1>2 DEF Guarded
<1>14. Fenced' /\ Ended'
  BY <1>1, <1>2, <1>7 DEF Fenced, Ended, At, Waiting, Filling, cancelVars
<1>15. Cached'
  BY <1>1, <1>2, <1>7 DEF Cached, At, Waiting, Filling
<1> QED
  BY <1>7, <1>9, <1>10, <1>11, <1>12, <1>13, <1>14, <1>15 DEF IInv

-----------------------------------------------------------------------------
\* A request is untouched: what is said of it and its buffers stays.
LEMMA Elsewhere ==
    ASSUME IInv, UNCHANGED <<requestLock, req, ours, busy, guarded>>,
           SessionTypeOK', Cached', Ended'
    PROVE  IInv'
<1> QED
  BY DEF IInv, Position, LockInTurn, Owned, Pending, Guarded, Fenced, Outputs, At

\* The consumers of the buffers that the framework has, and work that ends.
LEMMA ConsumersStep ==
    ASSUME IInv, NEW b \in Buffers, WorkEnds(b) \/ Consume(b)
    PROVE  IInv'
<1>1. /\ SessionTypeOK /\ Position /\ LockInTurn /\ req.answers = req.done
      /\ Owned /\ Guarded /\ Fenced /\ Cached /\ Ended
  BY DEF IInv
<1>2. UNCHANGED <<requestLock, cancelVars, configVars, cached, req, notified, ours, known, calls>>
  BY DEF WorkEnds, Consume
<1>3. SessionTypeOK'
  BY <1>1, <1>2 DEF SessionTypeOK, WorkEnds, Consume, cancelVars, configVars
<1>4. /\ Position' /\ LockInTurn' /\ req'.answers = req'.done /\ Owned' /\ Cached' /\ Ended'
  BY <1>1, <1>2 DEF Position, LockInTurn, Owned, Pending, Cached, Ended, Outputs, At, cancelVars
<1>5. Guarded'
  BY <1>1 DEF Guarded, WorkEnds, Consume, SessionTypeOK
<1>6. req.pc \in Waiting \cup Filling =>
        /\ Len(Outputs) \in Nat /\ req.i \in Nat /\ req.i # 0 /\ DOMAIN Outputs = 1 .. Len(Outputs)
        /\ (req.pc # "answer" => req.i <= Len(Outputs))
        /\ \A n \in DOMAIN Outputs: Outputs[n] \in Buffers /\ Outputs[n] \in ours
  BY <1>1, AtWork, OutputsPending DEF Position, Owned
<1>7. ASSUME NEW n \in DOMAIN Outputs, req.pc \in Waiting \cup Filling,
             busy'[Outputs[n]] = "consumer"
      PROVE  busy[Outputs[n]] = "consumer"
  <2>1. Outputs[n] \in Buffers /\ Outputs[n] \in ours
    BY <1>6, <1>7
  <2> HIDE DEF Outputs
  <2> QED
    BY <1>1, <1>7, <2>1 DEF WorkEnds, Consume, SessionTypeOK
<1>8. req' = req /\ Outputs' = Outputs
  BY <1>2 DEF Outputs
<1>9. Fenced'
  <2>1. req.pc \in Waiting =>
          \A n \in DOMAIN Outputs: busy'[Outputs[n]] = "consumer" => Outputs[n] \in req.held
    BY <1>1, <1>7 DEF Fenced
  <2>2. At("destination") => \A n \in 1 .. req.i - 1: busy'[Outputs[n]] # "consumer"
    <3> SUFFICES ASSUME At("destination"), NEW n \in 1 .. req.i - 1
                 PROVE  busy'[Outputs[n]] # "consumer"
      OBVIOUS
    <3>1. req.pc = "destination" /\ req.pc \in Waiting
      BY DEF At, Waiting
    <3>2. n \in DOMAIN Outputs
      BY <1>6, <3>1
    <3> QED
      BY <1>1, <1>7, <3>1, <3>2 DEF Fenced
  <2>3. req.pc \in Filling => \A n \in DOMAIN Outputs: busy'[Outputs[n]] # "consumer"
    BY <1>1, <1>7 DEF Fenced
  <2> QED
    BY <1>1, <1>8, <2>1, <2>2, <2>3 DEF Fenced, At
<1> QED
  BY <1>3, <1>4, <1>5, <1>9 DEF IInv

\* A new configuration drops the handles, and the framework the ids.
LEMMA ConfigureStep ==
    ASSUME IInv, NEW r \in {"refused", "cleared", "noToken", "configured"}, ConfigureStreams(r)
    PROVE  IInv'
<1>1. SessionTypeOK /\ Cached /\ Ended
  BY DEF IInv
<1>2. /\ req.pc = "idle"
      /\ UNCHANGED <<requestLock, cancelVars, req, notified, ours, busy, guarded>>
  BY DEF ConfigureStreams, At, bufferVars
<1>3. SessionTypeOK'
  <2>1. calls' \in [process: Nat, configure: Nat, flush: Nat]
    BY <1>1 DEF ConfigureStreams, SessionTypeOK
  <2>2. ready' \in BOOLEAN
    BY DEF ConfigureStreams
  <2>3. streams' \in BOOLEAN /\ token' \in BOOLEAN
    <3>1. streams \in BOOLEAN /\ token \in BOOLEAN
      BY <1>1 DEF SessionTypeOK
    <3>2. CASE r = "refused"
      BY <3>1, <3>2 DEF ConfigureStreams
    <3>3. CASE r # "refused"
      <4>1. /\ streams' = (r \in {"configured", "noToken"})
            /\ token' = CASE r = "configured" -> TRUE [] r = "noToken" -> FALSE
                          [] OTHER -> token
        BY <3>3, Zenon DEF ConfigureStreams
      <4>2. streams' \in BOOLEAN
        BY <4>1
      <4>3. token' = TRUE \/ token' = FALSE \/ token' = token
        BY <3>3, <4>1
      <4> QED
        BY <3>1, <4>2, <4>3, Zenon
    <3> QED
      BY <3>2, <3>3
  <2>4. cached' \in SUBSET Buffers /\ known' \in SUBSET Buffers
    BY <1>1, Zenon DEF ConfigureStreams, SessionTypeOK
  <2> QED
    BY <1>1, <1>2, <2>1, <2>2, <2>3, <2>4 DEF SessionTypeOK, cancelVars
<1>4. Cached'
  BY <1>1, <1>2, Zenon DEF Cached, ConfigureStreams, At, Filling
<1>5. Ended'
  BY <1>1, <1>2 DEF Ended, cancelVars
<1> QED
  BY <1>2, <1>3, <1>4, <1>5, Elsewhere

\* flush(), which touches no more than the flag and the epoch.
LEMMA FlushStep ==
    ASSUME IInv, NEW f \in Flushers, Flush(f) \/ FlushCancels(f) \/ FlushDrained(f)
    PROVE  IInv'
<1>1. SessionTypeOK /\ Cached /\ Ended
  BY DEF IInv
<1>2. UNCHANGED FlushVars
  BY DEF Flush, FlushCancels, FlushDrained
<1>3. SessionTypeOK'
  <2>1. /\ cancelEpoch' \in Nat /\ flushing' \in BOOLEAN
        /\ flusher' \in [Flushers -> {"idle", "cancel", "drain"}]
    <3>1. CASE Flush(f)
      BY <1>1, <3>1 DEF SessionTypeOK, Flush
    <3>2. CASE FlushCancels(f)
      BY <1>1, <3>2 DEF SessionTypeOK, FlushCancels
    <3>3. CASE FlushDrained(f)
      BY <1>1, <3>3, Zenon DEF SessionTypeOK, FlushDrained
    <3> QED
      BY <3>1, <3>2, <3>3
  <2>2. calls' \in [process: Nat, configure: Nat, flush: Nat]
    BY <1>1 DEF SessionTypeOK, Flush, FlushCancels, FlushDrained
  <2> QED
    BY <1>1, <1>2, <2>1, <2>2 DEF SessionTypeOK, FlushVars, configVars, bufferVars
<1>4. Cached' /\ Ended'
  BY <1>1, <1>2 DEF Cached, Ended, FlushVars, Outputs, At
<1> QED
  BY <1>2, <1>3, <1>4, Elsewhere DEF FlushVars, bufferVars

\* close(): the lock that it takes last is free of any request.
LEMMA CloseStep ==
    ASSUME IInv, Close \/ CloseCancels \/ CloseDrained
    PROVE  IInv'
<1>1. SessionTypeOK /\ LockInTurn /\ Cached /\ Ended
  BY DEF IInv
<1>2. UNCHANGED CloseVars
  BY DEF Close, CloseCancels, CloseDrained
<1>3. SessionTypeOK'
  <2>1. cancelEpoch' \in Nat /\ notified' \in Nat
    BY <1>1 DEF SessionTypeOK, Close, CloseCancels, CloseDrained
  <2>2. closer' \in {"idle", "cancel", "again", "drain", "drainAgain", "closed"}
    BY DEF Close, CloseCancels, CloseDrained
  <2>3. closed' = TRUE \/ closed' = closed
    BY DEF Close, CloseCancels, CloseDrained
  <2>4. closed \in BOOLEAN
    BY <1>1 DEF SessionTypeOK
  <2> QED
    BY <1>1, <1>2, <2>1, <2>2, <2>3, <2>4, Zenon DEF SessionTypeOK, CloseVars, configVars, bufferVars
<1>4. Cached'
  BY <1>1, <1>2 DEF Cached, CloseVars, Outputs, At
<1>5. Ended'
  <2>1. CASE Close
    BY <1>1, <1>2, <2>1 DEF Ended, Close, CloseVars
  <2>2. CASE CloseCancels
    BY <1>1, <1>2, <2>2 DEF Ended, CloseCancels, CloseVars
  <2>3. CASE CloseDrained
    <3>1. req.pc \in {"idle", "enter"}
      BY <1>1, <2>3 DEF LockInTurn, CloseDrained, Nobody
    <3> QED
      BY <1>1, <1>2, <2>3, <3>1 DEF Ended, CloseDrained, CloseVars, SessionTypeOK
  <2> QED
    BY <2>1, <2>2, <2>3
<1> QED
  BY <1>2, <1>3, <1>4, <1>5, Elsewhere DEF CloseVars, bufferVars

-----------------------------------------------------------------------------
LEMMA InitInv == Init => IInv
<1> SUFFICES ASSUME Init PROVE IInv
  OBVIOUS
<1>1. req = NoCall /\ NoCall \in Request
  BY DEF Init, NoCall, Request, Steps
<1>2. req.pc = "idle" /\ req.held = {} /\ req.answers = 0 /\ req.done = 0 /\ req.batch = <<>>
  BY <1>1 DEF NoCall
<1>3. SessionTypeOK
  BY <1>1, Zenon DEF Init, SessionTypeOK
<1>4. Position /\ LockInTurn
  BY <1>1, <1>2 DEF Init, Position, LockInTurn, Waiting, Filling, At
<1>5. Owned
  <2>1. Pending = {}
    BY <1>2 DEF Pending
  <2> QED
    BY <2>1 DEF Init, Owned
<1>6. Guarded /\ Fenced /\ Cached /\ Ended
  BY <1>2 DEF Init, Guarded, Fenced, Cached, Ended, Waiting, Filling, At
<1> QED
  BY <1>2, <1>3, <1>4, <1>5, <1>6 DEF IInv

LEMMA NextInv == IInv /\ [Next]_vars => IInv'
<1> SUFFICES ASSUME IInv, [Next]_vars PROVE IInv'
  OBVIOUS
<1>1. CASE UNCHANGED vars
  <2>1. UNCHANGED <<requestLock, req, ours, busy, guarded>>
    BY <1>1 DEF vars
  <2>2. SessionTypeOK' /\ Cached' /\ Ended'
    BY <1>1 DEF IInv, SessionTypeOK, Cached, Ended, Outputs, At, vars
  <2> QED
    BY <2>1, <2>2, Elsewhere
<1>2. CASE Process
  <2>1. CASE Enter \/ LoadEpoch \/ DuplicateFences \/ ImportBuffers
    BY <2>1, EntryStep, ReturnStep
  <2>2. CASE AllDone \/ RejectRequest \/ DuplicateFails \/ ImportFails
    BY <2>2, ReturnStep
  <2>3. CASE DestinationFails \/ PaceCancelled \/ SourceFails \/ SourceNotReady \/ SendResult
    BY <2>3, AnswerStep
  <2>4. CASE DestinationReady \/ Paced \/ \E r \in {"cpu", "gpu", "unfenced", "error"}: Output(r)
    BY <2>4, FillStep DEF Results
  <2> QED
    BY <1>2, <2>1, <2>2, <2>3, <2>4 DEF Process
<1>3. CASE SourceAcquired \/ SourceReady
  BY <1>3, FillStep
<1> QED
  BY <1>1, <1>2, <1>3, CallStep, ConsumersStep, ConfigureStep, FlushStep, CloseStep DEF Next

\* The whole invariant: every thread of processCaptureRequest, flush, close and
\* configureStreams (VirtualCameraSession.cpp) keeps it, whatever the
\* framework sends and the consumers of its buffers do.
THEOREM Inductive == Spec => []IInv
<1> QED
  BY InitInv, NextInv, PTL DEF Spec

\* The session's fields, the request at hand and the fences are what the code's
\* types say, in every reachable state.
THEOREM SessionTypeCorrect == Spec => []SessionTypeOK
<1>1. IInv => SessionTypeOK
  BY DEF IInv
<1> QED
  BY <1>1, Inductive, PTL

\* processSingleRequest waits for the acquire fence of every output before it
\* writes to the first, on every path: no output that is still to be written is
\* worked on by a consumer, and none can begin to while the session has it.
THEOREM EarlyWriteNever == Spec => []NoEarlyWrite
<1>1. IInv => NoEarlyWrite
  <2> SUFFICES ASSUME IInv, req.pc = "output", NEW n \in req.i .. Len(Outputs)
               PROVE  busy[Outputs[n]] # "consumer"
    BY DEF NoEarlyWrite, At
  <2>1. req.pc \in Filling
    BY DEF Filling
  <2>2. DOMAIN Outputs = 1 .. Len(Outputs) /\ Len(Outputs) \in Nat /\ req.i \in Nat \ {0}
    BY <2>1, AtWork, OutputsPending DEF IInv, Position
  <2>3. n \in DOMAIN Outputs
    BY <2>2
  <2> QED
    BY <2>1, <2>3 DEF IInv, Fenced
<1> QED
  BY <1>1, Inductive, PTL

\* Whichever way a request ends (answered, refused, cancelled, the session
\* closed under it), a buffer that a consumer still works on is back with a
\* fence for that work: failUntouched gives back the duplicates not waited for.
THEOREM ConsumersStayGuarded == Spec => []ConsumersGuarded
<1>1. IInv => ConsumersGuarded
  BY DEF IInv, Guarded, ConsumersGuarded
<1> QED
  BY <1>1, Inductive, PTL

\* importBuffer caches what a request brings before the request is accepted, and
\* configureStreams drops the cache when the framework drops its ids.
THEOREM KnownStaysCached == Spec => []KnownIsCached
<1>1. IInv => KnownIsCached
  BY DEF IInv, Cached, KnownIsCached
<1> QED
  BY <1>1, Inductive, PTL

\* Every way out of processCaptureRequest gives back what it was sent, and
\* closes the duplicates it made.
THEOREM NothingStays == Spec => []NothingKept
<1>1. IInv => NothingKept
  <2> SUFFICES ASSUME IInv PROVE NothingKept
    OBVIOUS
  <2>1. At("idle") => ours = {}
    <3> SUFFICES ASSUME At("idle") PROVE ours = {}
      OBVIOUS
    <3>1. req = NoCall
      BY DEF IInv, Position
    <3> QED
      BY <3>1 DEF IInv, Owned, Pending, NoCall
  <2>2. req.held # {} => req.pc \in Waiting /\ req.held \subseteq ToSet(Outputs)
    BY DEF IInv, Fenced
  <2> QED
    BY <2>1, <2>2 DEF IInv, NothingKept, Waiting, At
<1> QED
  BY <1>1, Inductive, PTL

\* close() takes mRequestLock after it cancelled: when it returns no request is
\* processed, none will be, and notifyCameraClosed was called once, by close()
\* or by the request that closed the session itself.
THEOREM CloseAlwaysDrains == Spec => []CloseDrains
<1>1. IInv => CloseDrains
  <2> SUFFICES ASSUME IInv PROVE CloseDrains
    OBVIOUS
  <2>1. Ended /\ closed \in BOOLEAN
    BY DEF IInv, SessionTypeOK
  <2>2. notified = 0 \/ notified = 1
    BY <2>1 DEF Ended
  <2> QED
    BY <2>1, <2>2 DEF CloseDrains, Ended
<1> QED
  BY <1>1, Inductive, PTL
=============================================================================
