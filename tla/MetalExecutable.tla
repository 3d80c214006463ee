---------------------------- MODULE MetalExecutable ----------------------------
(***************************************************************************)
(* A compiled graph on Metal and the fences of its submissions             *)
(* (internal/metal/exec_darwin.go, metal_darwin.go).  A submission is one  *)
(* command buffer; its fence outlives it, because the next submission, or  *)
(* Close, releases the buffer while callers may still be inside Wait.      *)
(* Submit, Rebind, Elapsed and Close hold e.mu; a fence's own lock f.mu is *)
(* not held across the GPU wait of Wait, and is held across that of close. *)
(***************************************************************************)
EXTENDS Integers, FiniteSets

CONSTANTS
  Callers,         \* goroutines
  Clients,         \* those that call the executable
  Waiters,         \* those that hold its fences
  Nobody,
  Outcomes,        \* what a command buffer completes with: ok, a fault word one of
                   \* its kernels wrote, an error of its own, the loss of the device
  MaxSubmissions   \* bound: command buffers committed

ASSUME ExecutableAssumption ==
  /\ Clients \subseteq Callers /\ Waiters \subseteq Callers
  /\ Nobody \notin Callers /\ MaxSubmissions \in Nat
  /\ Outcomes \subseteq {"ok", "fault", "error", "loss"}

Fences == 1 .. MaxSubmissions

VARIABLES
  eMu,       \* who holds e.mu
  cur,       \* the most recent submission, 0 before the first and after Close
  closed,
  buffer,    \* fence -> its command buffer: none, running, done, released
  outcome,   \* fence -> what the GPU completed it with
  waiting,   \* fence -> the callers inside cb.Wait
  fMu,       \* fence -> who holds f.mu
  words,     \* the submission whose fault the executable's words hold, 0 when clear
  lost,      \* device.lost
  call,      \* caller -> where it is, the fence it asks, what it read, what it knew
  heard      \* caller -> fence -> what its Wait answered

vars == <<eMu, cur, closed, buffer, outcome, waiting, fMu, words, lost, call, heard>>
fences == <<buffer, outcome, waiting, fMu>>

Idle == [at |-> "idle", fence |-> 0, err |-> "none", knew |-> FALSE]

Init ==
  /\ eMu = Nobody /\ cur = 0 /\ closed = FALSE /\ words = 0 /\ lost = FALSE
  /\ buffer = [f \in Fences |-> "none"] /\ outcome = [f \in Fences |-> "none"]
  /\ waiting = [f \in Fences |-> {}] /\ fMu = [f \in Fences |-> Nobody]
  /\ call = [c \in Callers |-> Idle]
  /\ heard = [c \in Callers |-> [f \in Fences |-> "none"]]

At(c, where) == call[c].at = where
Go(c, where) == call' = [call EXCEPT ![c].at = where]

\* A call begins, knowing whether the loss had been reported by then.
Enter(c, where, f) ==
  /\ At(c, "idle")
  /\ call' = [call EXCEPT ![c] = [at |-> where, fence |-> f, err |-> "none",
                            knew |-> lost /\ where \in {"submit", "wait"}]]

\* Mutant: Close does not ask whether the submission is done.
NeverBusy == FALSE

\* Done of the current submission, under e.mu; its f.mu is free for a moment.
Busy == cur # 0 /\ buffer[cur] = "running"

Free(f) == f \notin {g \in Fences : fMu[g] # Nobody}

-----------------------------------------------------------------------------
(* Submit and Close.  Both end the current submission's command buffer.     *)

BeginSubmit(c) ==
  /\ Enter(c, "submit", 0)
  /\ UNCHANGED <<eMu, cur, closed, fences, words, lost, heard>>

BeginClose(c) ==
  /\ Enter(c, "close", 0)
  /\ UNCHANGED <<eMu, cur, closed, fences, words, lost, heard>>

\* Mutant: Submit does not ask the device for its loss.
LockSubmitUnlessBusy(c) ==
  /\ At(c, "submit") /\ eMu = Nobody /\ Free(cur)
  /\ IF closed \/ Busy
     THEN call' = [call EXCEPT ![c] = Idle] /\ UNCHANGED eMu
     ELSE eMu' = c /\ Go(c, IF cur = 0 THEN "encode" ELSE "lockFence")
  /\ UNCHANGED <<cur, closed, fences, words, lost, heard>>

\* The checks of Submit, refused or in possession of e.mu.
LockSubmit(c) ==
  /\ At(c, "submit") /\ eMu = Nobody /\ Free(cur)
  /\ IF closed \/ Busy \/ lost
     THEN call' = [call EXCEPT ![c] = Idle] /\ UNCHANGED eMu
     ELSE eMu' = c /\ Go(c, IF cur = 0 THEN "encode" ELSE "lockFence")
  /\ UNCHANGED <<cur, closed, fences, words, lost, heard>>

LockClose(c) ==
  /\ At(c, "close") /\ eMu = Nobody /\ Free(cur)
  /\ IF closed \/ Busy
     THEN call' = [call EXCEPT ![c] = Idle] /\ UNCHANGED <<eMu, closed>>
     ELSE eMu' = c /\ closed' = TRUE /\ Go(c, IF cur = 0 THEN "tearDown" ELSE "lockFence")
  /\ UNCHANGED <<cur, fences, words, lost, heard>>

\* Where a call goes once the fence is closed.
Onwards == IF closed THEN "tearDown" ELSE "encode"

LockFence(c) ==
  /\ At(c, "lockFence") /\ Free(cur)
  /\ IF buffer[cur] = "released"
     THEN Go(c, Onwards) /\ UNCHANGED fMu
     ELSE Go(c, "waitGPU") /\ fMu' = [fMu EXCEPT ![cur] = c]
  /\ UNCHANGED <<eMu, cur, closed, buffer, outcome, waiting, words, lost, heard>>

\* cb.Wait with f.mu held.
WaitGPU(c) ==
  /\ At(c, "waitGPU") /\ buffer[cur] = "done"
  /\ Go(c, "drain")
  /\ UNCHANGED <<eMu, cur, closed, fences, words, lost, heard>>

\* Mutant: the command buffer is released under those inside Wait.
ReleaseAnyway(c) ==
  /\ At(c, "drain")
  /\ buffer' = [buffer EXCEPT ![cur] = "released"] /\ Go(c, Onwards)
  /\ fMu' = [fMu EXCEPT ![cur] = Nobody]
  /\ UNCHANGED <<eMu, cur, closed, outcome, waiting, words, lost, heard>>

\* The condition is looked at with f.mu held: it sleeps, and gives f.mu up, while
\* somebody is inside Wait; else the buffer's answers are kept and it is released.
Drain(c) ==
  /\ At(c, "drain")
  /\ IF waiting[cur] = {}
     THEN buffer' = [buffer EXCEPT ![cur] = "released"] /\ Go(c, Onwards)
     ELSE Go(c, "asleep") /\ UNCHANGED buffer
  /\ fMu' = [fMu EXCEPT ![cur] = Nobody]
  /\ UNCHANGED <<eMu, cur, closed, outcome, waiting, words, lost, heard>>

\* A woken sleeper takes f.mu again before it looks.
Relock(c) ==
  /\ At(c, "woken") /\ Free(cur)
  /\ Go(c, "drain") /\ fMu' = [fMu EXCEPT ![cur] = c]
  /\ UNCHANGED <<eMu, cur, closed, buffer, outcome, waiting, words, lost, heard>>

\* The words are cleared before the buffer is committed; an encoding that fails
\* leaves no submission behind.
Encode(c) ==
  /\ At(c, "encode")
  /\ words' = 0 /\ eMu' = Nobody
  /\ call' = [call EXCEPT ![c] = Idle]
  /\ \/ UNCHANGED <<cur, buffer>>
     \/ \E f \in Fences :
          /\ buffer[f] = "none" /\ \A g \in Fences : g < f => buffer[g] # "none"
          /\ cur' = f /\ buffer' = [buffer EXCEPT ![f] = "running"]
  /\ UNCHANGED <<closed, outcome, waiting, fMu, lost, heard>>

\* The executable's resources go, the fault words with them.
TearDown(c) ==
  /\ At(c, "tearDown")
  /\ cur' = 0 /\ words' = 0 /\ eMu' = Nobody
  /\ call' = [call EXCEPT ![c] = Idle]
  /\ UNCHANGED <<closed, fences, lost, heard>>

\* Rebind and Elapsed: e.mu, and f.mu of the current fence, for a moment.
BeginRebind(c) ==
  /\ Enter(c, "rebind", 0)
  /\ UNCHANGED <<eMu, cur, closed, fences, words, lost, heard>>

Rebind(c) ==
  /\ At(c, "rebind") /\ eMu = Nobody /\ Free(cur)
  /\ call' = [call EXCEPT ![c] = Idle]
  /\ UNCHANGED <<eMu, cur, closed, fences, words, lost, heard>>

-----------------------------------------------------------------------------
(* A fence.                                                                  *)

\* Bound: a caller waits for each fence once.
BeginWait(c, f) ==
  /\ buffer[f] # "none" /\ heard[c][f] = "none"
  /\ Enter(c, "wait", f)
  /\ UNCHANGED <<eMu, cur, closed, fences, words, lost, heard>>

Of(c) == call[c].fence

\* cb.Err: a fault word is not an error of the command buffer.
BufferErr(f) == IF outcome[f] \in {"error", "loss"} THEN outcome[f] ELSE "ok"

\* Under f.mu: registered with the buffer, or answered from what close kept.
Register(c) ==
  /\ At(c, "wait") /\ Free(Of(c))
  /\ IF buffer[Of(c)] = "released"
     THEN /\ call' = [call EXCEPT ![c].at = "report", ![c].err = BufferErr(Of(c))]
          /\ UNCHANGED waiting
     ELSE /\ Go(c, "blocked")
          /\ waiting' = [waiting EXCEPT ![Of(c)] = @ \union {c}]
  /\ UNCHANGED <<eMu, cur, closed, buffer, outcome, fMu, words, lost, heard>>

\* cb.Wait returns, without f.mu.
Unblock(c) ==
  /\ At(c, "blocked") /\ buffer[Of(c)] # "running"
  /\ Go(c, "readErr")
  /\ UNCHANGED <<eMu, cur, closed, fences, words, lost, heard>>

ReadErr(c) ==
  /\ At(c, "readErr")
  /\ call' = [call EXCEPT ![c].err = BufferErr(Of(c)),
                          ![c].at = IF BufferErr(Of(c)) = "ok" THEN "readFaults" ELSE "leave"]
  /\ UNCHANGED <<eMu, cur, closed, fences, words, lost, heard>>

\* faultReport, without a lock.
ReadFaults(c) ==
  /\ At(c, "readFaults")
  /\ call' = [call EXCEPT ![c].err = IF words = 0 THEN "ok" ELSE "fault", ![c].at = "leave"]
  /\ UNCHANGED <<eMu, cur, closed, fences, words, lost, heard>>

\* The last one out wakes the caller of close.
Leave(c) ==
  /\ At(c, "leave") /\ Free(Of(c))
  /\ waiting' = [waiting EXCEPT ![Of(c)] = @ \ {c}]
  /\ call' = [d \in Callers |->
       IF d = c THEN [call[c] EXCEPT !.at = "report"]
       ELSE IF waiting'[Of(c)] = {} /\ At(d, "asleep") /\ cur = Of(c)
            THEN [call[d] EXCEPT !.at = "woken"] ELSE call[d]]
  /\ UNCHANGED <<eMu, cur, closed, buffer, outcome, fMu, words, lost, heard>>

\* Mutant: an answer is only about its own submission.
ReportOwnErr(c) ==
  /\ At(c, "report")
  /\ lost' = (lost \/ call[c].err = "loss")
  /\ heard' = [heard EXCEPT ![c][Of(c)] = call[c].err]
  /\ call' = [call EXCEPT ![c] = Idle]
  /\ UNCHANGED <<eMu, cur, closed, fences, words>>

\* noteSubmissionError, then Lost: loss explains every failure after it.
Report(c) ==
  /\ At(c, "report")
  /\ lost' = (lost \/ call[c].err = "loss")
  /\ heard' = [heard EXCEPT ![c][Of(c)] = IF lost' THEN "loss" ELSE call[c].err]
  /\ call' = [call EXCEPT ![c] = Idle]
  /\ UNCHANGED <<eMu, cur, closed, fences, words>>

\* Done, for any fence a caller holds.
BeginDone(c, f) ==
  /\ buffer[f] # "none" /\ Enter(c, "done", f)
  /\ UNCHANGED <<eMu, cur, closed, fences, words, lost, heard>>

Done(c) ==
  /\ At(c, "done") /\ Free(Of(c))
  /\ call' = [call EXCEPT ![c] = Idle]
  /\ UNCHANGED <<eMu, cur, closed, fences, words, lost, heard>>

-----------------------------------------------------------------------------
\* The GPU finishes a command buffer.
Complete(f) ==
  /\ buffer[f] = "running"
  /\ buffer' = [buffer EXCEPT ![f] = "done"]
  /\ \E o \in Outcomes :
       /\ outcome' = [outcome EXCEPT ![f] = o]
       /\ words' = IF o = "fault" THEN f ELSE words
  /\ UNCHANGED <<eMu, cur, closed, waiting, fMu, lost, call, heard>>

Begin ==
  \/ \E c \in Clients : BeginSubmit(c) \/ BeginClose(c) \/ BeginRebind(c)
  \/ \E c \in Waiters, f \in Fences : BeginWait(c, f) \/ BeginDone(c, f)

Step(c) ==
  \/ LockSubmit(c) \/ LockClose(c) \/ LockFence(c) \/ WaitGPU(c) \/ Drain(c) \/ Relock(c)
  \/ Encode(c) \/ TearDown(c) \/ Rebind(c)
  \/ Register(c) \/ Unblock(c) \/ ReadErr(c) \/ ReadFaults(c) \/ Leave(c) \/ Report(c) \/ Done(c)

Next == Begin \/ (\E c \in Callers : Step(c)) \/ \E f \in Fences : Complete(f)

Spec == Init /\ [][Next]_vars

\* The goroutines go on, and a lock they wait for is theirs in the end.  Nothing
\* is assumed of the GPU.
Fairness == \A c \in Callers : SF_vars(Step(c))

FairSpec == Spec /\ Fairness

-----------------------------------------------------------------------------
Places ==
  {"idle", "submit", "close", "lockFence", "waitGPU", "drain", "asleep", "woken", "encode",
   "tearDown", "rebind", "wait", "blocked", "readErr", "readFaults", "leave", "report", "done"}

Answers == {"none", "ok", "fault", "error", "loss"}

Call == [at : Places, fence : 0 .. MaxSubmissions, err : Answers, knew : BOOLEAN]

TypeOK ==
  /\ eMu \in Callers \union {Nobody} /\ cur \in 0 .. MaxSubmissions /\ closed \in BOOLEAN
  /\ buffer \in [Fences -> {"none", "running", "done", "released"}]
  /\ outcome \in [Fences -> Answers]
  /\ waiting \in [Fences -> SUBSET Callers] /\ fMu \in [Fences -> Callers \union {Nobody}]
  /\ words \in 0 .. MaxSubmissions /\ lost \in BOOLEAN
  /\ call \in [Callers -> Call]
  /\ heard \in [Callers -> [Fences -> Answers]]

\* Between cb.Wait and the end of its registration a caller of Wait asks a command
\* buffer that exists, and what it reads there and in the fault words is its own
\* submission's: close waits for it, and the words are cleared, or released, after
\* close (fence.Wait, fence.close, Submit, Close).
WaitersReadTheirSubmission ==
  \A c \in Callers :
    /\ call[c].at \in {"readErr", "readFaults"} => buffer[Of(c)] = "done"
    /\ At(c, "leave") => call[c].err = outcome[Of(c)]

\* Nobody who holds e.mu, or a fence's lock, is waiting for the GPU: the executable
\* waits inside close, and closes only what has completed (the comment on Wait).
\* Every call that is not a Wait for a running submission returns, whatever the
\* GPU does.
CallsReturnWithoutTheGPU ==
  \A c \in Callers :
    ~At(c, "idle") ~> (At(c, "idle") \/ (At(c, "blocked") /\ buffer[Of(c)] = "running"))

\* Once one answer has reported the loss of the device, every later Wait reports it
\* and no later Submit is accepted (driver.ErrDeviceLost: loss is sticky).
LossIsFinal ==
  [][\A c \in Callers : call[c].knew =>
       /\ At(c, "report") => heard'[c][Of(c)] \in {heard[c][Of(c)], "loss"}
       /\ At(c, "encode") => cur' = cur]_vars

\* Two answers about one submission differ only by the loss of the device: what a
\* closed fence answers from is what the command buffer said (the comment on fence:
\* "The two answers are the same").
AnswersSurviveClose ==
  \A c, d \in Callers : \A f \in Fences :
    {heard[c][f], heard[d][f]} \intersect {"none", "loss"} = {} => heard[c][f] = heard[d][f]

=============================================================================
