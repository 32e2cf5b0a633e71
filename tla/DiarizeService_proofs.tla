------------------------ MODULE DiarizeService_proofs ------------------------
(***************************************************************************)
(* Theorems of DiarizeService, for any number of calls and workers and     *)
(* decodes of any length.                                                  *)
(*                                                                         *)
(* SessionIsOwn is the lock's invariant.  AnswerIsOwn needs that a job is  *)
(* run once: a call is queued once, because it is decoded once, and only   *)
(* while nothing of its job exists.  SilenceBounded needs to know where    *)
(* time can still go: what is left of the decode, a decode for every call  *)
(* not yet read, and the sleep of the stream itself.                       *)
(***************************************************************************)
EXTENDS DiarizeService, FiniteSetTheorems, SequenceTheorems, TLAPS

Stages == {"none", "queued", "blocked", "started", "fed", "done"}
StreamStates == {"new", "decoding", "open", "closed", "dropped"}
Own(c) == {Failed(c), Segments(<<c>>)}

ServiceTypes ==
  /\ job \in [Calls -> [at : Stages, result : Answers]]
  /\ stream \in [Calls -> StreamStates]
  /\ answer \in [Calls -> Answers]
  /\ decoding \in [call : Calls \cup {Nobody}, left : Nat]
  /\ queue \in Seq(Calls)

\* A call comes to the queue once, from a decode, before its job exists.
QueuedOnce ==
  /\ \A i \in 1 .. Len(queue) : job[queue[i]].at = "queued"
  /\ \A i, j \in 1 .. Len(queue) : queue[i] = queue[j] => i = j
  /\ \A c \in Calls : stream[c] \in {"new", "decoding"} => job[c].at = "none"
  /\ \A c \in Calls : decoding.call = c => stream[c] = "decoding"

\* A job that is done stays done with what it came to.
ResultsOwn ==
  \A c \in Calls : /\ job[c].at = "done" => job[c].result \in Own(c)
                   /\ answer[c] # NoAnswer => job[c].at = "done" /\ answer[c] = job[c].result

ServiceInv == ServiceTypes /\ QueuedOnce /\ ResultsOwn /\ SessionIsOwn

LEMMA OwnAnswers == \A c \in Calls : Own(c) \subseteq Answers
BY DEF Own, Answers

LEMMA InitInv == Init => ServiceInv
<1> SUFFICES ASSUME Init PROVE ServiceInv
  OBVIOUS
<1>1. queue \in Seq(Calls) /\ Len(queue) = 0
  BY EmptySeq DEF Init
<1>2. \A c \in Calls : decoding.call # c
  BY ServiceAssumption DEF Init
<1>3. ServiceTypes
  BY <1>1 DEF Init, ServiceTypes, Stages, StreamStates, Answers
<1>4. QueuedOnce
  BY <1>1, <1>2 DEF Init, QueuedOnce
<1>5. ResultsOwn /\ SessionIsOwn
  BY DEF Init, ResultsOwn, SessionIsOwn
<1> QED BY <1>3, <1>4, <1>5 DEF ServiceInv

\* Steps of the loop other than the end of a decode leave the jobs alone.
LEMMA LoopStep ==
  ASSUME ServiceInv, NEW c \in Calls, Refuse(c) \/ Decode(c) \/ Heartbeat(c) \/ Drop(c)
  PROVE  ServiceInv'
<1> USE DEF ServiceInv
<1>0. UNCHANGED threadVars /\ answer' = answer
  BY DEF Refuse, Decode, Heartbeat, Drop
<1>1. SessionIsOwn' /\ ResultsOwn'
  BY <1>0 DEF threadVars, SessionIsOwn, ResultsOwn
<1>2. ServiceTypes'
  BY <1>0 DEF threadVars, ServiceTypes, StreamStates, Refuse, Decode, Heartbeat, Drop
<1> SUFFICES QueuedOnce'
  BY <1>1, <1>2
<1>3. CASE Refuse(c)
  <2>1. /\ stream[c] = "new" /\ stream' = [stream EXCEPT ![c] = "closed"]
        /\ decoding.call = Nobody /\ UNCHANGED <<queue, job, decoding>>
    BY <1>0, <1>3 DEF threadVars, Refuse, LoopFree
  <2>2. /\ stream'[c] = "closed" /\ decoding.call # c
        /\ \A d \in Calls \ {c} : stream'[d] = stream[d]
    BY <2>1, ServiceAssumption DEF ServiceTypes
  <2> QED BY <2>1, <2>2 DEF QueuedOnce
<1>4. CASE Decode(c)
  BY <1>0, <1>4, ServiceAssumption DEF threadVars, Decode, LoopFree, QueuedOnce, ServiceTypes
<1>5. CASE Heartbeat(c)
  BY <1>0, <1>5 DEF threadVars, Heartbeat, QueuedOnce
<1>6. CASE Drop(c)
  BY <1>0, <1>6 DEF threadVars, Drop, QueuedOnce, ServiceTypes
<1> QED BY <1>3, <1>4, <1>5, <1>6

\* The end of a decode queues a call that no job exists for.
LEMMA DecodedStep ==
  ASSUME ServiceInv, NEW c \in Calls, Decoded(c)
  PROVE  ServiceInv'
<1> USE DEF ServiceInv
<1>0. /\ decoding.call = c /\ stream[c] = "decoding" /\ job[c].at = "none"
      /\ decoding' = [call |-> Nobody, left |-> 0] /\ answer' = answer
      /\ lock' = lock /\ buffer' = buffer
  BY DEF Decoded, QueuedOnce
<1>1. CASE /\ stream' = [stream EXCEPT ![c] = "closed"]
           /\ UNCHANGED <<queue, job>>
  <2>1. ServiceTypes'
    BY <1>0, <1>1 DEF ServiceTypes, StreamStates
  <2>2. QueuedOnce'
    BY <1>0, <1>1, ServiceAssumption DEF QueuedOnce, ServiceTypes
  <2>3. ResultsOwn' /\ SessionIsOwn'
    BY <1>0, <1>1 DEF ResultsOwn, SessionIsOwn
  <2> QED BY <2>1, <2>2, <2>3
<1>2. CASE /\ stream' = [stream EXCEPT ![c] = "open"]
           /\ queue' = Append(queue, c)
           /\ job' = [job EXCEPT ![c].at = "queued"]
  <2>1. ServiceTypes'
    BY <1>0, <1>2 DEF ServiceTypes, StreamStates, Stages
  <2>2. \A d \in Calls : job'[d] = IF d = c THEN [job[c] EXCEPT !.at = "queued"] ELSE job[d]
    BY <1>2 DEF ServiceTypes
  <2>3. /\ job'[c].at = "queued" /\ job'[c].result = job[c].result
        /\ \A d \in Calls \ {c} : job'[d] = job[d]
    BY <2>2 DEF ServiceTypes
  <2>4. \A i \in 1 .. Len(queue) : queue[i] \in Calls \ {c}
    BY <1>0 DEF QueuedOnce, ServiceTypes
  <2>5. /\ Len(queue') = Len(queue) + 1 /\ queue'[Len(queue) + 1] = c
        /\ \A i \in 1 .. Len(queue) : queue'[i] = queue[i]
    BY <1>2 DEF ServiceTypes
  <2>6. \A i \in 1 .. Len(queue') : i \in 1 .. Len(queue) \/ i = Len(queue) + 1
    BY <2>5 DEF ServiceTypes
  <2>7. \A i \in 1 .. Len(queue') : job'[queue'[i]].at = "queued"
    BY <2>3, <2>4, <2>5, <2>6 DEF QueuedOnce
  <2>8. \A i, j \in 1 .. Len(queue') : queue'[i] = queue'[j] => i = j
    BY <2>4, <2>5, <2>6 DEF QueuedOnce
  <2>9. QueuedOnce'
    BY <1>0, <1>2, <2>3, <2>7, <2>8, ServiceAssumption DEF QueuedOnce, ServiceTypes
  <2>10. ResultsOwn' /\ SessionIsOwn'
    BY <1>0, <2>3 DEF ResultsOwn, SessionIsOwn
  <2> QED BY <2>1, <2>9, <2>10
<1> QED BY <1>1, <1>2 DEF Decoded

\* A stream ends with what its own job came to.
LEMMA FinishStep ==
  ASSUME ServiceInv, NEW c \in Calls, Finish(c)
  PROVE  ServiceInv'
<1> USE DEF ServiceInv
<1>0. UNCHANGED <<queue, job, lock, buffer, decoding>> /\ job[c].at = "done"
  BY DEF Finish, threadVars
<1>1. ServiceTypes'
  BY <1>0 DEF Finish, ServiceTypes, StreamStates
<1>2. QueuedOnce'
  BY <1>0 DEF Finish, Due, QueuedOnce, ServiceTypes
<1>3. ResultsOwn'
  BY <1>0 DEF Finish, ResultsOwn, ServiceTypes
<1>4. SessionIsOwn'
  BY <1>0 DEF SessionIsOwn
<1> QED BY <1>1, <1>2, <1>3, <1>4

LEMMA TickStep ==
  ASSUME ServiceInv, Tick
  PROVE  ServiceInv'
<1> USE DEF ServiceInv
<1>0. UNCHANGED <<queue, job, lock, buffer, stream, answer>>
  BY DEF Tick, threadVars
<1>1. decoding' \in [call : Calls \cup {Nobody}, left : Nat] /\ decoding'.call = decoding.call
  BY DEF Tick, LoopFree, ServiceTypes
<1>2. ServiceTypes' /\ QueuedOnce'
  BY <1>0, <1>1 DEF ServiceTypes, QueuedOnce
<1>3. ResultsOwn' /\ SessionIsOwn'
  BY <1>0 DEF ResultsOwn, SessionIsOwn
<1> QED BY <1>2, <1>3

\* A worker takes a call that is queued nowhere else.
LEMMA TakeStep ==
  ASSUME ServiceInv, Take
  PROVE  ServiceInv'
<1> USE DEF ServiceInv
<1> DEFINE c == queue[1]
<1>0. /\ UNCHANGED <<stream, answer, decoding, lock, buffer>>
      /\ queue \in Seq(Calls) /\ queue # <<>>
  BY DEF Take, loopVars, ServiceTypes
<1>1. /\ Len(queue) \in Nat /\ Len(queue) > 0 /\ c \in Calls /\ Head(queue) = c
      /\ job[c].at = "queued"
  <2>1. Len(queue) \in Nat /\ Len(queue) > 0
    BY <1>0, EmptySeq
  <2>2. 1 \in 1 .. Len(queue)
    BY <2>1
  <2> QED BY <1>0, <2>1, <2>2 DEF QueuedOnce
<1> HIDE DEF c
<1>2. /\ job' = [job EXCEPT ![c].at = "blocked"] /\ queue' = Tail(queue)
  BY <1>1 DEF Take
<1>3. /\ job'[c].at = "blocked" /\ job'[c].result = job[c].result
      /\ \A d \in Calls \ {c} : job'[d] = job[d]
  BY <1>1, <1>2 DEF ServiceTypes
<1>4. ServiceTypes'
  BY <1>0, <1>1, <1>2 DEF ServiceTypes, Stages
<1>5. /\ Len(queue') = Len(queue) - 1
      /\ \A i \in 1 .. Len(queue') : i + 1 \in 1 .. Len(queue) /\ queue'[i] = queue[i + 1]
  BY <1>0, <1>1, <1>2
<1>6. \A i \in 1 .. Len(queue') : queue[i + 1] \in Calls \ {c}
  BY <1>0, <1>1, <1>5 DEF QueuedOnce, c
<1>7. QueuedOnce'
  <2>1. \A i \in 1 .. Len(queue') : job'[queue'[i]].at = "queued"
    BY <1>3, <1>5, <1>6 DEF QueuedOnce
  <2>2. \A i, j \in 1 .. Len(queue') : queue'[i] = queue'[j] => i = j
    <3> SUFFICES ASSUME NEW i \in 1 .. Len(queue'), NEW j \in 1 .. Len(queue'),
                        queue'[i] = queue'[j]
                 PROVE  i = j
      OBVIOUS
    <3>1. /\ i + 1 \in 1 .. Len(queue) /\ j + 1 \in 1 .. Len(queue)
          /\ queue[i + 1] = queue[j + 1]
      BY <1>5
    <3>2. i + 1 = j + 1
      BY <3>1 DEF QueuedOnce
    <3> QED BY <1>1, <1>5, <3>2
  <2>3. \A d \in Calls : stream'[d] \in {"new", "decoding"} => job'[d].at = "none"
    BY <1>0, <1>1, <1>3 DEF QueuedOnce
  <2>4. \A d \in Calls : decoding'.call = d => stream'[d] = "decoding"
    BY <1>0 DEF QueuedOnce
  <2> QED BY <2>1, <2>2, <2>3, <2>4 DEF QueuedOnce
<1>8. ResultsOwn' /\ SessionIsOwn'
  BY <1>0, <1>1, <1>3 DEF ResultsOwn, SessionIsOwn
<1> QED BY <1>4, <1>7, <1>8

\* What the steps of a job have in common: they are neither queued nor done.
LEMMA JobFrame ==
  ASSUME ServiceInv, NEW c \in Calls, NEW r,
         UNCHANGED <<stream, answer, decoding, queue>>,
         job[c].at \in {"blocked", "started", "fed"},
         job' = [job EXCEPT ![c] = r],
         r \in [at : {"started", "fed", "done"}, result : Answers],
         r.at = "done" => r.result \in Own(c)
  PROVE  /\ ServiceTypes' /\ QueuedOnce' /\ ResultsOwn'
         /\ job'[c] = r /\ \A d \in Calls \ {c} : job'[d] = job[d]
<1> USE DEF ServiceInv
<1>1. job'[c] = r /\ \A d \in Calls \ {c} : job'[d] = job[d]
  BY DEF ServiceTypes
<1>2. ServiceTypes'
  BY DEF ServiceTypes, Stages
<1>3. \A i \in 1 .. Len(queue) : queue[i] \in Calls \ {c}
  BY DEF QueuedOnce, ServiceTypes
<1>4. \A i \in 1 .. Len(queue') : job'[queue'[i]].at = "queued"
  BY <1>1, <1>3 DEF QueuedOnce
<1>5. QueuedOnce'
  BY <1>1, <1>4 DEF QueuedOnce
<1>6. ResultsOwn'
  BY <1>1 DEF ResultsOwn
<1> QED BY <1>1, <1>2, <1>5, <1>6

LEMMA JobStep ==
  ASSUME ServiceInv, NEW c \in Calls, Job(c)
  PROVE  ServiceInv'
<1> USE DEF ServiceInv
<1>0. UNCHANGED <<stream, answer, decoding, queue>>
  BY DEF Job, Start, Feed, Return, Raise, Release, loopVars
<1>1. job[c] \in [at : Stages, result : Answers]
  BY DEF ServiceTypes
<1>2. CASE Start(c)
  <2> DEFINE r == [job[c] EXCEPT !.at = "started"]
  <2>1. r \in [at : {"started", "fed", "done"}, result : Answers] /\ r.at = "started"
    BY <1>1
  <2>2. job' = [job EXCEPT ![c] = r]
    BY <1>2 DEF Start
  <2> HIDE DEF r
  <2>3. /\ ServiceTypes' /\ QueuedOnce' /\ ResultsOwn'
        /\ job'[c] = r /\ \A d \in Calls \ {c} : job'[d] = job[d]
    BY <1>0, <1>2, <2>1, <2>2, JobFrame DEF Start
  <2>4. SessionIsOwn'
    BY <1>2, <2>1, <2>3, ServiceAssumption DEF Start, SessionIsOwn
  <2> QED BY <2>3, <2>4
<1>3. CASE Feed(c)
  <2> DEFINE r == [job[c] EXCEPT !.at = "fed"]
  <2>1. r \in [at : {"started", "fed", "done"}, result : Answers] /\ r.at = "fed"
    BY <1>1
  <2>2. job' = [job EXCEPT ![c] = r]
    BY <1>3 DEF Feed
  <2> HIDE DEF r
  <2>3. /\ ServiceTypes' /\ QueuedOnce' /\ ResultsOwn'
        /\ job'[c] = r /\ \A d \in Calls \ {c} : job'[d] = job[d]
    BY <1>0, <1>3, <2>1, <2>2, JobFrame DEF Feed
  <2>4. lock = c /\ buffer' = <<c>> /\ lock' = c
    <3>1. lock = c /\ buffer = <<>> /\ buffer' = Append(buffer, c) /\ lock' = lock
      BY <1>3 DEF Feed, SessionIsOwn
    <3>2. Append(<<>>, c) = <<c>>
      OBVIOUS
    <3> QED BY <3>1, <3>2
  <2>5. SessionIsOwn'
    BY <2>1, <2>3, <2>4 DEF SessionIsOwn
  <2> QED BY <2>3, <2>5
<1>4. ASSUME NEW e \in Own(c), Release(c, e), job[c].at \in {"started", "fed"}
      PROVE  ServiceInv'
  <2> DEFINE r == [at |-> "done", result |-> e]
  <2>1. r \in [at : {"started", "fed", "done"}, result : Answers] /\ r.at = "done" /\ r.result = e
    BY <1>4, OwnAnswers
  <2>2. job' = [job EXCEPT ![c] = r]
    BY <1>4 DEF Release
  <2> HIDE DEF r
  <2>3. /\ ServiceTypes' /\ QueuedOnce' /\ ResultsOwn'
        /\ job'[c] = r /\ \A d \in Calls \ {c} : job'[d] = job[d]
    BY <1>0, <1>4, <2>1, <2>2, JobFrame
  <2>4. \A d \in Calls \ {c} : job[d].at \notin {"started", "fed"}
    BY <1>4 DEF SessionIsOwn
  <2>5. SessionIsOwn'
    BY <2>1, <2>3, <2>4 DEF SessionIsOwn
  <2> QED BY <2>3, <2>5
<1>5. CASE Return(c)
  <2>1. buffer = <<c>>
    BY <1>5 DEF Return, SessionIsOwn
  <2>2. Segments(buffer) \in Own(c)
    BY <2>1 DEF Own
  <2> QED BY <1>4, <1>5, <2>2 DEF Return
<1>6. CASE Raise(c)
  <2>1. Failed(c) \in Own(c)
    BY DEF Own
  <2> QED BY <1>4, <1>6, <2>1 DEF Raise
<1> QED BY <1>2, <1>3, <1>5, <1>6 DEF Job

LEMMA NextInv == ServiceInv /\ [Next]_vars => ServiceInv'
<1> SUFFICES ASSUME ServiceInv, [Next]_vars PROVE ServiceInv'
  OBVIOUS
<1>1. ASSUME NEW c \in Calls,
             Refuse(c) \/ Decode(c) \/ Loop(c) \/ Drop(c) \/ Job(c)
      PROVE  ServiceInv'
  BY <1>1, LoopStep, DecodedStep, FinishStep, JobStep DEF Loop
<1>2. CASE Take
  BY <1>2, TakeStep
<1>3. CASE Tick
  BY <1>3, TickStep
<1>4. CASE UNCHANGED vars
  BY <1>4 DEF vars, loopVars, threadVars, ServiceInv, ServiceTypes, QueuedOnce,
              ResultsOwn, SessionIsOwn
<1> QED BY <1>1, <1>2, <1>3, <1>4 DEF Next

----------------------------------------------------------------------------
\* Whatever is dropped, retried or raised around it, a job that runs has the
\* diarizer's session to itself.
THEOREM SessionIsOwnAlways == Spec => []SessionIsOwn
<1>1. ServiceInv => SessionIsOwn
  BY DEF ServiceInv
<1> QED BY <1>1, InitInv, NextInv, PTL DEF Spec

\* A stream never ends with another call's segments or error.
THEOREM AnswerIsOwnAlways == Spec => []AnswerIsOwn
<1>1. ServiceInv => AnswerIsOwn
  BY DEF ServiceInv, ResultsOwn, AnswerIsOwn, Own
<1> QED BY <1>1, InitInv, NextInv, PTL DEF Spec

----------------------------------------------------------------------------
(* How long a stream is silent.                                            *)

Unread == {c \in Calls : stream[c] = "new"}
Others == Cardinality(Calls) - 1    \* the calls beside one of them

\* No decode is longer than MaxDecode, and none is left when the loop is free.
ClockTypes ==
  /\ wake \in [Calls -> {0, 1}] /\ idle \in [Calls -> Nat]
  /\ decoding.left <= MaxDecode
  /\ decoding.call = Nobody => decoding.left = 0

\* The silence of an open stream, so far and to come.
SilenceInv ==
  \A c \in Calls : stream[c] = "open" =>
    idle[c] + wake[c] + decoding.left + Cardinality(Unread) * MaxDecode
      <= 1 + Others * MaxDecode

ClockInv == ServiceInv /\ ClockTypes /\ SilenceInv

LEMMA Multiples ==
  ASSUME NEW m \in Nat
  PROVE  /\ \A u \in Nat : u * m \in Nat
         /\ \A u \in Nat : (u + 1) * m = u * m + m
         /\ \A u, v \in Nat : u <= v => u * m <= v * m
<1>1. \A u \in Nat : u * m \in Nat /\ (u + 1) * m = u * m + m
  OBVIOUS
<1>2. ASSUME NEW u \in Nat, NEW v \in Nat, u <= v
      PROVE  u * m <= v * m
  <2> DEFINE d == v - u
  <2>1. d \in Nat /\ v = u + d
    BY <1>2
  <2> HIDE DEF d
  <2>2. v * m = u * m + d * m /\ d * m \in Nat /\ u * m \in Nat
    BY <2>1
  <2> QED BY <2>2
<1> QED BY <1>1, <1>2

\* The calls not yet read are fewer than all calls, once one is read.
LEMMA UnreadCount ==
  /\ IsFiniteSet(Unread) /\ Cardinality(Unread) \in Nat
  /\ \A c \in Calls : stream[c] # "new" =>
        Others \in Nat /\ Cardinality(Unread) * MaxDecode <= Others * MaxDecode
<1>1. IsFiniteSet(Calls) /\ Cardinality(Calls) \in Nat /\ Unread \in SUBSET Calls
  BY ServiceAssumption, FS_CardinalityType DEF Unread
<1>2. IsFiniteSet(Unread) /\ Cardinality(Unread) \in Nat
  BY <1>1, FS_Subset, FS_CardinalityType
<1>3. ASSUME NEW c \in Calls, stream[c] # "new"
      PROVE  Others \in Nat /\ Cardinality(Unread) <= Others
  <2>1. Unread \in SUBSET (Calls \ {c})
    BY <1>3 DEF Unread
  <2>2. IsFiniteSet(Calls \ {c}) /\ Cardinality(Calls \ {c}) = Cardinality(Calls) - 1
    BY <1>1, FS_RemoveElement
  <2>3. Cardinality(Unread) <= Cardinality(Calls \ {c})
    BY <2>1, <2>2, FS_Subset
  <2> QED BY <1>1, <1>2, <2>2, <2>3 DEF Others
<1>4. MaxDecode \in Nat
  BY ServiceAssumption
<1> QED BY <1>2, <1>3, <1>4, Multiples

LEMMA ClockInit == Init => ClockTypes /\ SilenceInv
BY ServiceAssumption DEF Init, ClockTypes, SilenceInv

\* A call is read: its decode, if it gets one, takes its share of the silence.
LEMMA ReadStep ==
  ASSUME ClockInv, NEW c \in Calls, Refuse(c) \/ Decode(c)
  PROVE  ClockTypes' /\ SilenceInv'
<1>1. /\ stream[c] = "new" /\ decoding.call = Nobody /\ decoding.left = 0
      /\ UNCHANGED <<wake, idle>> /\ MaxDecode \in Nat
      /\ decoding'.left \in 0 .. MaxDecode /\ (decoding'.call = Nobody => decoding'.left = 0)
  BY ServiceAssumption DEF Refuse, Decode, LoopFree, ClockInv, ClockTypes
<1>2. ClockTypes'
  BY <1>1 DEF ClockInv, ClockTypes
<1>3. /\ stream' \in [Calls -> StreamStates] /\ stream'[c] \notin {"new", "open"}
      /\ \A d \in Calls \ {c} : stream'[d] = stream[d]
  BY DEF Refuse, Decode, ClockInv, ServiceInv, ServiceTypes, StreamStates
<1>4. Unread' = Unread \ {c} /\ c \in Unread
  BY <1>1, <1>3 DEF Unread
<1>5. /\ Cardinality(Unread) \in Nat /\ Cardinality(Unread') \in Nat
      /\ Cardinality(Unread) = Cardinality(Unread') + 1
  <2>1. IsFiniteSet(Unread) /\ Cardinality(Unread) \in Nat
    BY UnreadCount
  <2>2. /\ IsFiniteSet(Unread \ {c}) /\ Cardinality(Unread \ {c}) = Cardinality(Unread) - 1
    BY <1>4, <2>1, FS_RemoveElement
  <2>3. Cardinality(Unread \ {c}) \in Nat
    BY <2>2, FS_CardinalityType
  <2> QED BY <1>4, <2>1, <2>2, <2>3
<1> DEFINE u == Cardinality(Unread)
           v == Cardinality(Unread')
<1>6. u * MaxDecode = v * MaxDecode + MaxDecode /\ v * MaxDecode \in Nat
  <2> HIDE DEF u, v
  <2> QED BY <1>1, <1>5, Multiples DEF u, v
<1>7. ASSUME NEW d \in Calls, stream'[d] = "open"
      PROVE  idle'[d] + wake'[d] + decoding'.left + v * MaxDecode <= 1 + Others * MaxDecode
  <2>1. /\ stream[d] = "open" /\ idle'[d] = idle[d] /\ wake'[d] = wake[d]
        /\ idle[d] \in Nat /\ wake[d] \in Nat
    BY <1>1, <1>3, <1>7 DEF ClockInv, ClockTypes
  <2>2. idle[d] + wake[d] + 0 + u * MaxDecode <= 1 + Others * MaxDecode
    BY <1>1, <2>1 DEF ClockInv, SilenceInv
  <2>3. Others * MaxDecode \in Nat
    BY <1>1, <2>1, UnreadCount, Multiples
  <2> HIDE DEF u, v
  <2> QED BY <1>1, <1>6, <2>1, <2>2, <2>3
<1>8. SilenceInv'
  BY <1>7 DEF SilenceInv, Others
<1> QED BY <1>2, <1>8

\* A step that reads no call and lets no time pass.
LEMMA QuietStep ==
  ASSUME ClockInv, decoding'.left <= MaxDecode, decoding'.left \in Nat,
         decoding'.call = Nobody => decoding'.left = 0,
         decoding'.left <= decoding.left,
         wake' \in [Calls -> {0, 1}], idle' \in [Calls -> Nat],
         \A d \in Calls : stream'[d] = "new" <=> stream[d] = "new",
         \A d \in Calls : stream'[d] = "open" =>
            \/ stream[d] = "open" /\ idle'[d] = idle[d] /\ wake'[d] = wake[d]
            \/ idle'[d] = 0 /\ decoding'.left = 0
  PROVE  ClockTypes' /\ SilenceInv'
<1>1. ClockTypes'
  BY DEF ClockTypes
<1>2. Unread' = Unread
  BY DEF Unread
<1> DEFINE m == Cardinality(Unread) * MaxDecode
<1>3. MaxDecode \in Nat /\ Cardinality(Unread) \in Nat /\ m \in Nat
  BY ServiceAssumption, UnreadCount, Multiples
<1>4. decoding.left \in Nat
  BY DEF ClockInv, ServiceInv, ServiceTypes
<1>5. ASSUME NEW d \in Calls, stream'[d] = "open"
      PROVE  idle'[d] + wake'[d] + decoding'.left + m <= 1 + Others * MaxDecode
  <2>1. stream[d] # "new" /\ wake'[d] \in {0, 1} /\ idle'[d] \in Nat
    BY <1>5
  <2>2. Others \in Nat /\ m <= Others * MaxDecode
    BY <2>1, UnreadCount
  <2>3. Others * MaxDecode \in Nat
    BY <1>3, <2>2, Multiples
  <2>4. CASE stream[d] = "open" /\ idle'[d] = idle[d] /\ wake'[d] = wake[d]
    <3>1. idle[d] + wake[d] + decoding.left + m <= 1 + Others * MaxDecode
      BY <2>4 DEF ClockInv, SilenceInv
    <3> HIDE DEF m
    <3> QED BY <1>3, <1>4, <2>1, <2>3, <2>4, <3>1
  <2>5. CASE idle'[d] = 0 /\ decoding'.left = 0
    <3> HIDE DEF m
    <3> QED BY <1>3, <2>1, <2>2, <2>3, <2>5
  <2> QED BY <1>5, <2>4, <2>5
<1>6. SilenceInv'
  BY <1>2, <1>5 DEF SilenceInv, Others
<1> QED BY <1>1, <1>6

\* An interval passes: it comes off the sleep of a stream or off the decode.
LEMMA SilenceTick ==
  ASSUME ClockInv, Tick
  PROVE  ClockTypes' /\ SilenceInv'
<1> DEFINE m == Cardinality(Unread) * MaxDecode
<1>1. MaxDecode \in Nat /\ Cardinality(Unread) \in Nat /\ m \in Nat
  BY ServiceAssumption, UnreadCount, Multiples
<1>2. /\ decoding.left \in Nat /\ decoding'.call = decoding.call /\ stream' = stream
      /\ decoding.call = Nobody => decoding' = decoding
      /\ decoding.call # Nobody => decoding.left > 0 /\ decoding'.left = decoding.left - 1
  BY DEF Tick, LoopFree, ClockInv, ServiceInv, ServiceTypes
<1>3. ASSUME NEW d \in Calls
      PROVE  /\ wake[d] \in {0, 1} /\ wake'[d] = 0 /\ idle[d] \in Nat
             /\ idle'[d] = IF stream[d] = "open" /\ idle[d] < IdleLimit + 1
                           THEN idle[d] + 1 ELSE idle[d]
  BY DEF Tick, ClockInv, ClockTypes
<1>4. \A d \in Calls : idle'[d] \in Nat /\ idle'[d] <= idle[d] + 1
  BY <1>3
<1>5. wake' \in [Calls -> {0, 1}] /\ idle' \in [Calls -> Nat]
  <2>1. DOMAIN wake' = Calls /\ DOMAIN idle' = Calls
    BY DEF Tick
  <2>2. /\ wake' = [d \in Calls |-> wake'[d]] /\ idle' = [d \in Calls |-> idle'[d]]
    BY DEF Tick
  <2> QED BY <1>3, <1>4, <2>2
<1>6. ClockTypes'
  BY <1>1, <1>2, <1>5 DEF ClockInv, ClockTypes
<1>7. ASSUME NEW d \in Calls, stream[d] = "open"
      PROVE  idle'[d] + wake'[d] + decoding'.left + m <= 1 + Others * MaxDecode
  <2>1. idle[d] + wake[d] + decoding.left + m <= 1 + Others * MaxDecode
    BY <1>7 DEF ClockInv, SilenceInv
  <2>2. Others * MaxDecode \in Nat
    BY <1>1, <1>7, UnreadCount, Multiples
  <2>3. CASE decoding.call = Nobody
    <3>1. wake[d] = 1
      BY <1>3, <1>7, <2>3 DEF Tick, LoopFree, Due
    <3> HIDE DEF m
    <3> QED BY <1>1, <1>2, <1>3, <1>4, <2>1, <2>2, <2>3, <3>1
  <2>4. CASE decoding.call # Nobody
    <3> HIDE DEF m
    <3> QED BY <1>1, <1>2, <1>3, <1>4, <2>1, <2>2, <2>4
  <2> QED BY <2>3, <2>4
<1>8. Unread' = Unread
  BY <1>2 DEF Unread
<1>9. SilenceInv'
  BY <1>2, <1>7, <1>8 DEF SilenceInv, Others
<1> QED BY <1>6, <1>9

LEMMA ClockNext == ClockInv /\ [Next]_vars => ClockInv'
<1> SUFFICES ASSUME ClockInv, [Next]_vars PROVE ClockTypes' /\ SilenceInv'
  BY NextInv DEF ClockInv
<1>0. /\ stream \in [Calls -> StreamStates] /\ decoding.left \in Nat
      /\ wake \in [Calls -> {0, 1}] /\ idle \in [Calls -> Nat]
      /\ decoding.left <= MaxDecode /\ (decoding.call = Nobody => decoding.left = 0)
  BY DEF ClockInv, ServiceInv, ServiceTypes, ClockTypes
<1>1. ASSUME NEW c \in Calls, Heartbeat(c)
      PROVE  ClockTypes' /\ SilenceInv'
  <2>1. /\ decoding.call = Nobody /\ UNCHANGED <<stream, decoding>>
        /\ wake' \in [Calls -> {0, 1}] /\ idle' \in [Calls -> Nat] /\ idle'[c] = 0
        /\ \A d \in Calls \ {c} : idle'[d] = idle[d] /\ wake'[d] = wake[d]
    BY <1>0, <1>1 DEF Heartbeat, Due, LoopFree
  <2> QED BY <1>0, <2>1, QuietStep
<1>2. ASSUME NEW c \in Calls, Decoded(c)
      PROVE  ClockTypes' /\ SilenceInv'
  <2>1. /\ decoding' = [call |-> Nobody, left |-> 0] /\ wake' = wake
        /\ stream[c] = "decoding" /\ stream'[c] \in {"closed", "open"}
        /\ idle' \in [Calls -> Nat] /\ (stream'[c] = "open" => idle'[c] = 0)
        /\ \A d \in Calls \ {c} : idle'[d] = idle[d] /\ stream'[d] = stream[d]
    BY <1>0, <1>2 DEF Decoded, ClockInv, ServiceInv, QueuedOnce
  <2>2. decoding'.left = 0 /\ MaxDecode \in Nat
    BY <2>1, ServiceAssumption
  <2> QED BY <1>0, <2>1, <2>2, QuietStep
<1>3. ASSUME NEW c \in Calls, Finish(c) \/ Drop(c)
      PROVE  ClockTypes' /\ SilenceInv'
  <2>1. /\ UNCHANGED <<wake, idle, decoding>> /\ stream[c] = "open"
        /\ stream'[c] \in {"closed", "dropped"}
        /\ \A d \in Calls \ {c} : stream'[d] = stream[d]
    BY <1>0, <1>3 DEF Finish, Drop, Due
  <2> QED BY <1>0, <2>1, QuietStep
<1>4. ASSUME UNCHANGED loopVars
      PROVE  ClockTypes' /\ SilenceInv'
  <2>1. UNCHANGED <<wake, idle, decoding, stream>>
    BY <1>4 DEF loopVars
  <2> QED BY <1>0, <2>1, QuietStep
<1>5. ASSUME NEW c \in Calls, Job(c)
      PROVE  UNCHANGED loopVars
  BY <1>5 DEF Job, Start, Feed, Return, Raise, Release
<1>6. Take => UNCHANGED loopVars
  BY DEF Take
<1>7. UNCHANGED vars => UNCHANGED loopVars
  BY DEF vars
<1> QED BY <1>1, <1>2, <1>3, <1>4, <1>5, <1>6, <1>7, ReadStep, SilenceTick DEF Next, Loop

\* A stream is silent for its own sleep and one decode of every other call at
\* most, with any number of calls and workers: a bound on the heartbeats of
\* diarize's stream, which decode_to_mono holds up by running on the loop.
THEOREM SilenceIsBounded == Spec => []SilenceBounded
<1>1. ClockInv => SilenceBounded
  <2> SUFFICES ASSUME ClockInv, NEW c \in Calls, stream[c] = "open"
               PROVE  idle[c] <= 1 + (Cardinality(Calls) - 1) * MaxDecode
    BY DEF SilenceBounded
  <2> DEFINE m == Cardinality(Unread) * MaxDecode
  <2>1. idle[c] + wake[c] + decoding.left + m <= 1 + Others * MaxDecode
    BY DEF ClockInv, SilenceInv
  <2>2. idle[c] \in Nat /\ wake[c] \in {0, 1} /\ decoding.left \in Nat /\ MaxDecode \in Nat
    BY ServiceAssumption DEF ClockInv, ClockTypes, ServiceInv, ServiceTypes
  <2>3. m \in Nat /\ Others * MaxDecode \in Nat
    BY <2>2, UnreadCount, Multiples
  <2> HIDE DEF m
  <2>4. idle[c] <= 1 + Others * MaxDecode
    BY <2>1, <2>2, <2>3
  <2> QED BY <2>4 DEF Others
<1>2. Init => ClockInv
  BY InitInv, ClockInit DEF ClockInv
<1> QED BY <1>1, <1>2, ClockNext, PTL DEF Spec
=============================================================================
