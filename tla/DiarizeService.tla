--------------------------- MODULE DiarizeService ---------------------------
(***************************************************************************)
(* The diarization service (deploy/diarize-service/service.py): an event   *)
(* loop that decodes uploads and streams heartbeats, a pool of worker      *)
(* threads, and one diarizer behind one lock.                              *)
(*                                                                         *)
(* A call is one POST /diarize; its clip carries the call's own name, so   *)
(* a buffer shows whose audio it holds.  Time passes in heartbeat          *)
(* intervals (Tick); the loop runs one coroutine step at a time, and       *)
(* decode_to_mono keeps it for up to MaxDecode intervals.  The engine is   *)
(* not in the repository: start() empties its buffer, feed() appends,      *)
(* finish() answers from the buffer, and each of them may raise.           *)
(***************************************************************************)
EXTENDS Naturals, Sequences, FiniteSets

CONSTANTS Calls,      \* requests, retries included
          Workers,    \* threads of the default executor
          MaxDecode,  \* longest decode, in heartbeat intervals
          IdleLimit,  \* intervals after which the gateway drops a silent stream
          Nobody      \* no call

ASSUME ServiceAssumption == /\ Workers \in Nat \ {0}
                            /\ MaxDecode \in Nat
                            /\ IdleLimit \in Nat
                            /\ IsFiniteSet(Calls)
                            /\ Nobody \notin Calls

VARIABLES stream,  \* call -> where its request and stream are
          status,  \* call -> the HTTP status sent, 0 before
          wake,    \* call -> intervals until its coroutine is due
          idle,    \* call -> intervals since the stream's last byte
          answer,  \* call -> the final line
          decoding,\* the call whose decode holds the event loop, and for how long
          queue,   \* jobs submitted to the executor, in order
          job,     \* call -> what its job has done
          lock,    \* holder of _diarize_lock
          buffer   \* the clips fed to the one diarizer

loopVars == <<stream, status, wake, idle, answer, decoding>>
threadVars == <<queue, job, lock, buffer>>
vars == <<loopVars, threadVars>>

NoAnswer == <<"none">>
Failed(c) == <<"error", c>>     \* clip_too_long or diarize_failed, with its detail
Segments(clips) == <<"segments", clips>>
Answers == {NoAnswer} \cup {Failed(c) : c \in Calls} \cup {Segments(<<c>>) : c \in Calls}

LoopFree == decoding.call = Nobody
Running == {c \in Calls : job[c].at \in {"blocked", "started", "fed"}}

----------------------------------------------------------------------------
(* The event loop.                                                         *)

\* require_token refuses a wrong token before the body is looked at.  (Without
\* a configured token every call is refused with 503: that is left out.)
Refuse(c) ==
  /\ LoopFree
  /\ stream[c] = "new"
  /\ stream' = [stream EXCEPT ![c] = "closed"]
  /\ status' = [status EXCEPT ![c] = 401]
  /\ UNCHANGED <<wake, idle, answer, decoding, threadVars>>

\* diarize has read the upload and decodes it on the loop.
Decode(c) ==
  /\ LoopFree
  /\ stream[c] = "new"
  /\ stream' = [stream EXCEPT ![c] = "decoding"]
  /\ \E d \in 0 .. MaxDecode : decoding' = [call |-> c, left |-> d]
  /\ UNCHANGED <<status, wake, idle, answer, threadVars>>

\* A decode that fails is a 400; one that succeeds opens the stream, which
\* submits the job.
Decoded(c) ==
  /\ decoding = [call |-> c, left |-> 0]
  /\ decoding' = [call |-> Nobody, left |-> 0]
  /\ \/ /\ stream' = [stream EXCEPT ![c] = "closed"]
        /\ status' = [status EXCEPT ![c] = 400]
        /\ UNCHANGED <<queue, job, idle>>
     \/ /\ stream' = [stream EXCEPT ![c] = "open"]
        /\ status' = [status EXCEPT ![c] = 200]
        /\ queue' = Append(queue, c)
        /\ job' = [job EXCEPT ![c].at = "queued"]
        /\ idle' = [idle EXCEPT ![c] = 0]
  /\ UNCHANGED <<wake, answer, lock, buffer>>

\* The coroutine of an open stream is due.
Due(c) == LoopFree /\ stream[c] = "open" /\ wake[c] = 0

\* Mutant: once a worker runs the job, the coroutine waits without a byte.
Heartbeat_OnlyQueued(c) ==
  /\ Due(c)
  /\ job[c].at # "done"
  /\ wake' = [wake EXCEPT ![c] = 1]
  /\ idle' = [idle EXCEPT ![c] = IF job[c].at = "queued" THEN 0 ELSE @]
  /\ UNCHANGED <<stream, status, answer, decoding, threadVars>>

\* A blank line and another sleep while the job is not done ...
Heartbeat(c) ==
  /\ Due(c)
  /\ job[c].at # "done"
  /\ wake' = [wake EXCEPT ![c] = 1]
  /\ idle' = [idle EXCEPT ![c] = 0]
  /\ UNCHANGED <<stream, status, answer, decoding, threadVars>>

\* Mutant: the future is kept for the service and not for the call.
Finish_SharedFuture(c) ==
  /\ Due(c)
  /\ \E d \in Calls : job[d].at = "done" /\ answer' = [answer EXCEPT ![c] = job[d].result]
  /\ stream' = [stream EXCEPT ![c] = "closed"]
  /\ UNCHANGED <<status, wake, idle, decoding, threadVars>>

\* ... and the final line, an error's or the segments', once it is done.
Finish(c) ==
  /\ Due(c)
  /\ job[c].at = "done"
  /\ answer' = [answer EXCEPT ![c] = job[c].result]
  /\ stream' = [stream EXCEPT ![c] = "closed"]
  /\ UNCHANGED <<status, wake, idle, decoding, threadVars>>

\* The client or the gateway drops the stream: its coroutine is cancelled,
\* its job stays where it is.
Drop(c) ==
  /\ stream[c] = "open"
  /\ stream' = [stream EXCEPT ![c] = "dropped"]
  /\ UNCHANGED <<status, wake, idle, answer, decoding, threadVars>>

----------------------------------------------------------------------------
(* The worker threads: _run_diarize.                                       *)

\* A free worker takes the oldest job and asks for the lock.
Take ==
  /\ queue # <<>>
  /\ Cardinality(Running) < Workers
  /\ job' = [job EXCEPT ![Head(queue)].at = "blocked"]
  /\ queue' = Tail(queue)
  /\ UNCHANGED <<loopVars, lock, buffer>>

\* Mutant: start() is called before the lock is asked for.
Start_Unlocked(c) ==
  /\ job[c].at = "blocked"
  /\ buffer' = <<>>
  /\ job' = [job EXCEPT ![c].at = "started"]
  /\ UNCHANGED <<loopVars, queue, lock>>

\* The lock's waiters are served in any order; start() resets the session.
Start(c) ==
  /\ job[c].at = "blocked"
  /\ lock = Nobody
  /\ lock' = c
  /\ buffer' = <<>>
  /\ job' = [job EXCEPT ![c].at = "started"]
  /\ UNCHANGED <<loopVars, queue>>

Feed(c) ==
  /\ job[c].at = "started"
  /\ buffer' = Append(buffer, c)
  /\ job' = [job EXCEPT ![c].at = "fed"]
  /\ UNCHANGED <<loopVars, queue, lock>>

\* The with statement releases the lock on every way out.
Release(c, result) ==
  /\ job' = [job EXCEPT ![c] = [at |-> "done", result |-> result]]
  /\ lock' = IF lock = c THEN Nobody ELSE lock
  /\ UNCHANGED <<loopVars, queue, buffer>>

Return(c) == job[c].at = "fed" /\ Release(c, Segments(buffer))

\* Mutant: an exception leaves the lock taken.
Raise_KeepsLock(c) ==
  /\ job[c].at \in {"started", "fed"}
  /\ job' = [job EXCEPT ![c] = [at |-> "done", result |-> Failed(c)]]
  /\ UNCHANGED <<loopVars, queue, lock, buffer>>

\* start, feed or finish raises: the clip is over the engine's limit, or
\* anything else.
Raise(c) ==
  /\ job[c].at \in {"started", "fed"}
  /\ Release(c, Failed(c))

----------------------------------------------------------------------------
\* An interval passes: everything the loop can run now has run.
Tick ==
  /\ IF LoopFree THEN \A c \in Calls : ~Due(c) ELSE decoding.left > 0
  /\ \E c \in Calls : stream[c] \in {"decoding", "open"}
  /\ decoding' = IF LoopFree THEN decoding ELSE [decoding EXCEPT !.left = @ - 1]
  /\ wake' = [c \in Calls |-> IF wake[c] > 0 THEN wake[c] - 1 ELSE 0]
  /\ idle' = [c \in Calls |-> IF stream[c] = "open" /\ idle[c] < IdleLimit + 1
                              THEN idle[c] + 1 ELSE idle[c]]
  /\ UNCHANGED <<stream, status, answer, threadVars>>

Init ==
  /\ stream = [c \in Calls |-> "new"]
  /\ status = [c \in Calls |-> 0]
  /\ wake = [c \in Calls |-> 0]
  /\ idle = [c \in Calls |-> 0]
  /\ answer = [c \in Calls |-> NoAnswer]
  /\ decoding = [call |-> Nobody, left |-> 0]
  /\ queue = <<>>
  /\ job = [c \in Calls |-> [at |-> "none", result |-> NoAnswer]]
  /\ lock = Nobody
  /\ buffer = <<>>

Loop(c) == Decoded(c) \/ Heartbeat(c) \/ Finish(c)
Job(c) == Start(c) \/ Feed(c) \/ Return(c) \/ Raise(c)

Next ==
  \/ \E c \in Calls : Refuse(c) \/ Decode(c) \/ Loop(c) \/ Drop(c) \/ Job(c)
  \/ Take
  \/ Tick

Spec == Init /\ [][Next]_vars

\* The loop and the threads are scheduled, time passes, and the engine's
\* calls return or raise; nobody has to send a request or to drop one.
FairSpec == /\ Spec
            /\ WF_vars(Take) /\ WF_vars(Tick)
            /\ \A c \in Calls : /\ WF_vars(Decoded(c))
                                /\ WF_vars(Heartbeat(c)) /\ WF_vars(Finish(c))
                                /\ WF_vars(Job(c))

----------------------------------------------------------------------------
(* Properties.                                                             *)

\* Between its start() and its answer a job's session on the shared diarizer
\* holds its own clip and nothing else, with retries, dropped streams and
\* failed jobs before it and waiting beside it.
SessionIsOwn ==
  \A c \in Calls :
    /\ job[c].at = "started" => lock = c /\ buffer = <<>>
    /\ job[c].at = "fed" => lock = c /\ buffer = <<c>>

\* A stream is told what its own job came to: never another call's segments
\* and never another call's error.
AnswerIsOwn ==
  \A c \in Calls : answer[c] # NoAnswer =>
    /\ answer[c] = job[c].result
    /\ answer[c] \in {Failed(c), Segments(<<c>>)}

\* A stream is silent for no longer than its sleep and the decodes the loop
\* may do for all other calls before it gets back to it.
SilenceBounded ==
  \A c \in Calls : stream[c] = "open" => idle[c] <= 1 + (Cardinality(Calls) - 1) * MaxDecode

\* Every stream that is not dropped ends with a final line, behind whatever
\* jobs of dropped streams the retry has to wait for.
EveryStreamEnds ==
  \A c \in Calls : (stream[c] = "open") ~> (stream[c] = "dropped" \/ answer[c] # NoAnswer)
=============================================================================
