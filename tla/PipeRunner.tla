----------------------------- MODULE PipeRunner -----------------------------
(***************************************************************************)
(* The pipe runner (lib/kuzzle/event/pipeRunner.js): it bounds the number  *)
(* of plugin pipe chains that run at a time, and buffers the others.  Its  *)
(* methods are operators from a state of the runner to the next.  The      *)
(* chain itself (waterfall.js) is "running" from run to its callback.      *)
(***************************************************************************)
EXTENDS Integers, Sequences

CONSTANTS MaxConcurrent, MaxBufferSize

\* The two assertions of the constructor.
ASSUME PipeRunnerAssumption == {MaxConcurrent, MaxBufferSize} \subseteq Nat \ {0}

\* scheduled: the _runNext calls given to setImmediate.
RunnerType(Pipes) == [running : Nat, buffer : Seq(Pipes), scheduled : Nat]

NewRunner == [running |-> 0, buffer |-> <<>>, scheduled |-> 0]

HasSlot(pr) == pr.running < MaxConcurrent

BufferFull(pr) == Len(pr.buffer) >= MaxBufferSize

\* run, for the chain of p: it starts, is buffered, or is refused.
Run(pr, p) ==
  IF HasSlot(pr) THEN [pr EXCEPT !.running = @ + 1]
  ELSE IF BufferFull(pr) THEN pr
  ELSE [pr EXCEPT !.buffer = Append(@, p)]

\* Mutant: the last pipe of the buffer is not scheduled.
Finish_OffByOne(pr) ==
  [pr EXCEPT !.running = @ - 1,
             !.scheduled = IF Len(pr.buffer) > 1 THEN @ + 1 ELSE @]

\* waterfallCallback: the chain of a pipe has ended, well or not.
Finish(pr) ==
  [pr EXCEPT !.running = @ - 1,
             !.scheduled = IF pr.buffer # <<>> THEN @ + 1 ELSE @]

\* _runNext has something to run and a slot for it.
CanRunNext(pr) == pr.buffer # <<>> /\ HasSlot(pr)

\* Mutant: the chain is started without being counted.
RunNext_NotCounted(pr) ==
  IF CanRunNext(pr)
  THEN [pr EXCEPT !.buffer = Tail(@), !.scheduled = @ - 1]
  ELSE [pr EXCEPT !.scheduled = @ - 1]

\* _runNext, called by setImmediate.
RunNext(pr) ==
  IF CanRunNext(pr)
  THEN [running |-> pr.running + 1, buffer |-> Tail(pr.buffer), scheduled |-> pr.scheduled - 1]
  ELSE [pr EXCEPT !.scheduled = @ - 1]
=============================================================================
