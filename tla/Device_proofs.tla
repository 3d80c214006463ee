------------------------------ MODULE Device_proofs ------------------------------
(***************************************************************************)
(* The backend's executable and the device over it, for every number of    *)
(* goroutines.                                                             *)
(*                                                                         *)
(* MetalExecutable: whoever is inside Wait reads what its own submission   *)
(* left, and a reported loss is final.  The two facts everything rests on  *)
(* are that e.mu is held from the check of a Submit or Close to its end,   *)
(* and that a command buffer that runs, or is done and not released, is    *)
(* the current submission's.                                               *)
(*                                                                         *)
(* DeviceLifecycle: the books match the backend, and the device is the     *)
(* registry it promises to be.  Everything rests on the lock, which keeps  *)
(* makers out while Close counts, and on whose each handle is: of the one  *)
(* call that makes or closes it, or of the device that counts it.          *)
(*                                                                         *)
(* Surface: a frame that is out keeps its image, and no drawable is lost.  *)
(* Everything rests on the frames out being of the surface's generation,   *)
(* and on the images rotating behind the oldest of them.                   *)
(***************************************************************************)
EXTENDS MetalExecutable, MCDevice, Integers, FiniteSets, Sequences, FiniteSetTheorems, SequenceTheorems, TLAPS

\* Where a call of Submit or Close holds e.mu, and where it waits for the fence.
Closing == {"waitGPU", "drain", "asleep", "woken"}
Holding == {"lockFence", "encode", "tearDown"} \union Closing

\* Where a call of Wait is between its registration and its leaving.
Reading == {"readErr", "readFaults", "leave"}
Inside == {"blocked"} \union Reading

HoldersAreAlone == \A c \in Callers : call[c].at \in Holding => eMu = c

OneIsCurrent ==
  /\ cur \in Fences => buffer[cur] # "none"
  /\ \A f \in Fences : buffer[f] \in {"running", "done"} => f = cur

\* What a Submit or Close knows of the submission before it, by how far it is.
Ready(where) ==
  /\ where = "lockFence" => cur \in Fences /\ buffer[cur] \in {"done", "released"}
  /\ where \in Closing => cur \in Fences /\ buffer[cur] = "done"
  /\ where \in {"encode", "tearDown"} => \A f \in Fences : buffer[f] \in {"none", "released"}

ClosersKnowTheBuffer == \A c \in Callers : Ready(call[c].at)

\* Those inside Wait are registered, with a buffer that is not released.
ReadersAreRegistered ==
  \A c \in Callers :
    /\ call[c].at \in {"wait", "report"} \union Inside => Of(c) \in Fences
    /\ call[c].at \in {"wait", "report"} \union Inside => buffer[Of(c)] # "none"
    /\ call[c].at \in Inside => c \in waiting[Of(c)] /\ buffer[Of(c)] # "released"
    /\ call[c].at \in Reading => buffer[Of(c)] = "done"

\* The fault words are the current submission's.
WordsAreCurrent ==
  \A f \in Fences :
    /\ buffer[f] = "running" => words = 0
    /\ buffer[f] = "done" => outcome[f] # "none" /\ (words = 0 <=> outcome[f] # "fault")

ReadersReadTheirs ==
  \A c \in Callers :
    /\ call[c].at = "readFaults" => outcome[Of(c)] \in {"ok", "fault"}
    /\ call[c].at = "leave" => call[c].err = outcome[Of(c)]

LossIsKnown ==
  \A c \in Callers : call[c].knew => lost /\ call[c].at \notin {"close"} \union Holding

IInv ==
  /\ TypeOK
  /\ HoldersAreAlone /\ OneIsCurrent /\ ClosersKnowTheBuffer
  /\ ReadersAreRegistered /\ WordsAreCurrent /\ ReadersReadTheirs
  /\ LossIsKnown

USE ExecutableAssumption

-----------------------------------------------------------------------------
(* How a step changes the caller that takes it, and no other.                *)

Others(c) == \A d \in Callers \ {c} : call'[d] = call[d]

Moved(c, where) ==
  /\ Others(c) /\ call'[c].at = where
  /\ call'[c].fence = call[c].fence /\ call'[c].knew = call[c].knew

Entered(c, where, f) ==
  /\ Others(c) /\ call'[c].at = where /\ call'[c].fence = f
  /\ call'[c].knew => lost /\ where # "close"

Back(c) == Others(c) /\ call'[c].at = "idle" /\ ~call'[c].knew

\* A call begins.
LEMMA Beginning ==
  ASSUME TypeOK, NEW c \in Callers, NEW where \in Places, NEW f \in 0 .. MaxSubmissions,
         Enter(c, where, f)
  PROVE  call' \in [Callers -> Call] /\ Entered(c, where, f)
<1> DEFINE k == lost /\ where \in {"submit", "wait"}
           new == [at |-> where, fence |-> f, err |-> "none", knew |-> k]
<1>1. k \in BOOLEAN /\ (k => lost /\ where # "close") OBVIOUS
<1>2. new.at = where /\ new.fence = f /\ new.knew = k OBVIOUS
<1>3. new \in Call
  <2> HIDE DEF k
  <2> QED BY <1>1 DEF Call, Answers
<1>4. call' = [call EXCEPT ![c] = new] BY DEF Enter
<1>5. call \in [Callers -> Call] BY DEF TypeOK
<1> HIDE DEF k, new
<1> QED BY <1>1, <1>2, <1>3, <1>4, <1>5 DEF Entered, Others

\* A call goes on.
LEMMA GoingOn ==
  ASSUME TypeOK, NEW c \in Callers, NEW where \in Places, Go(c, where)
  PROVE  call' \in [Callers -> Call] /\ Moved(c, where)
<1>1. call \in [Callers -> Call] BY DEF TypeOK
<1>2. call[c] \in Call BY <1>1
<1>3. [call[c] EXCEPT !.at = where] \in Call BY <1>2 DEF Call
<1>4. call' = [call EXCEPT ![c] = [call[c] EXCEPT !.at = where]] BY DEF Go
<1>5. call' \in [Callers -> Call] BY <1>1, <1>3, <1>4
<1>6. Others(c) BY <1>1, <1>4 DEF Others
<1>7. call'[c] = [call[c] EXCEPT !.at = where] BY <1>1, <1>4
<1> QED BY <1>2, <1>5, <1>6, <1>7 DEF Moved, Call

\* A call returns.
LEMMA Returning ==
  ASSUME TypeOK, NEW c \in Callers, call' = [call EXCEPT ![c] = Idle]
  PROVE  call' \in [Callers -> Call] /\ Back(c)
<1>1. call \in [Callers -> Call] BY DEF TypeOK
<1>2. Idle \in Call BY DEF Idle, Call, Places, Answers
<1>3. Idle.at = "idle" /\ ~Idle.knew BY DEF Idle
<1> QED BY <1>1, <1>2, <1>3 DEF Back, Others

-----------------------------------------------------------------------------
(* What steps of a kind preserve.                                            *)

\* Whoever holds e.mu holds it alone.
LEMMA OneHolder ==
  ASSUME IInv, NEW c \in Callers
  PROVE  /\ eMu = Nobody => call[c].at \notin Holding
         /\ call[c].at \in Holding => \A d \in Callers \ {c} : call[d].at \notin Holding
  BY DEF IInv, HoldersAreAlone

\* No command buffer begins or ends: what is said of buffers and words stays.
LEMMA BuffersStay ==
  ASSUME IInv, UNCHANGED <<cur, buffer, outcome, words>>
  PROVE  OneIsCurrent' /\ WordsAreCurrent' /\ \A where : Ready(where)' <=> Ready(where)
  BY DEF IInv, OneIsCurrent, WordsAreCurrent, Ready

\* A call that does not hold e.mu returns, having left Wait if it was inside.
LEMMA CallEnds ==
  ASSUME IInv, NEW c \in Callers, TypeOK', Back(c), call[c].at \notin Holding,
         UNCHANGED <<eMu, cur, buffer, outcome, words, waiting>>, lost => lost'
  PROVE  IInv'
<1>1. OneIsCurrent' /\ WordsAreCurrent' /\ \A where : Ready(where)' <=> Ready(where)
  BY BuffersStay
<1>2. HoldersAreAlone' BY DEF IInv, HoldersAreAlone, Back, Others, Holding, Closing
<1>3. ClosersKnowTheBuffer'
  <2>1. Ready("idle") BY DEF Ready, Closing
  <2> QED BY <1>1, <2>1 DEF IInv, ClosersKnowTheBuffer, Back, Others
<1>4. ReadersAreRegistered' BY DEF IInv, ReadersAreRegistered, Back, Others, Of, Inside, Reading
<1>5. ReadersReadTheirs' BY DEF IInv, ReadersReadTheirs, Back, Others, Of
<1>6. LossIsKnown' BY DEF IInv, LossIsKnown, Back, Others
<1> QED BY <1>1, <1>2, <1>3, <1>4, <1>5, <1>6 DEF IInv

\* A Submit or Close goes on with e.mu, and ends no command buffer.
LEMMA CloserMoves ==
  ASSUME IInv, NEW c \in Callers, NEW where \in Holding, TypeOK', Moved(c, where), Ready(where),
         \/ call[c].at \in {"submit", "close"} /\ eMu = Nobody /\ ~call[c].knew
         \/ call[c].at \in Holding,
         eMu' = c, UNCHANGED <<cur, buffer, outcome, words, waiting, lost>>
  PROVE  IInv'
<1>1. OneIsCurrent' /\ WordsAreCurrent' /\ \A w : Ready(w)' <=> Ready(w)
  BY BuffersStay
<1>2. HoldersAreAlone' BY OneHolder DEF IInv, HoldersAreAlone, Moved, Others
<1>3. ClosersKnowTheBuffer' BY <1>1 DEF IInv, ClosersKnowTheBuffer, Moved, Others
<1>4. ReadersAreRegistered'
  BY DEF IInv, ReadersAreRegistered, Moved, Others, Of, Inside, Reading, Holding, Closing
<1>5. ReadersReadTheirs'
  BY DEF IInv, ReadersReadTheirs, Moved, Others, Of, Holding, Closing
<1>6. LossIsKnown' BY DEF IInv, LossIsKnown, Moved, Others
<1> QED BY <1>1, <1>2, <1>3, <1>4, <1>5, <1>6 DEF IInv

-----------------------------------------------------------------------------
LEMMA InitHolds == Init => IInv
<1> SUFFICES ASSUME Init PROVE IInv OBVIOUS
<1> USE DEF Init
<1>1. TypeOK
  <2>1. Idle \in Call BY DEF Idle, Call, Places, Answers
  <2>2. call \in [Callers -> Call] BY <2>1
  <2>3. [f \in Fences |-> "none"] \in [Fences -> Answers] BY DEF Answers
  <2>4. heard \in [Callers -> [Fences -> Answers]] BY <2>3
  <2>5. buffer \in [Fences -> {"none", "running", "done", "released"}] OBVIOUS
  <2>6. waiting \in [Fences -> SUBSET Callers] /\ fMu \in [Fences -> Callers \union {Nobody}] OBVIOUS
  <2>7. 0 \in 0 .. MaxSubmissions OBVIOUS
  <2> QED BY <2>2, <2>3, <2>4, <2>5, <2>6, <2>7 DEF TypeOK
<1>2. \A c \in Callers : call[c].at = "idle" /\ ~call[c].knew BY DEF Idle
<1>3. HoldersAreAlone BY <1>2 DEF HoldersAreAlone, Holding, Closing
<1>4. OneIsCurrent /\ WordsAreCurrent BY DEF OneIsCurrent, WordsAreCurrent, Fences
<1>5. ClosersKnowTheBuffer BY <1>2 DEF ClosersKnowTheBuffer, Ready, Closing
<1>6. ReadersAreRegistered /\ ReadersReadTheirs /\ LossIsKnown
  BY <1>2 DEF ReadersAreRegistered, ReadersReadTheirs, LossIsKnown, Inside, Reading
<1> QED BY <1>1, <1>3, <1>4, <1>5, <1>6 DEF IInv

LEMMA BeginHolds ==
  ASSUME IInv, NEW c \in Callers, NEW where \in {"submit", "close", "rebind", "wait", "done"},
         NEW f \in 0 .. MaxSubmissions, Enter(c, where, f),
         where = "wait" => f \in Fences /\ buffer[f] # "none",
         UNCHANGED <<eMu, cur, closed, fences, words, lost, heard>>
  PROVE  IInv'
<1>0. call' \in [Callers -> Call] /\ Entered(c, where, f)
  <2>1. where \in Places BY DEF Places
  <2> QED BY <2>1, Beginning DEF IInv
<1>1. TypeOK' BY <1>0 DEF IInv, TypeOK, fences
<1>2. OneIsCurrent' /\ WordsAreCurrent' /\ \A w : Ready(w)' <=> Ready(w)
  BY BuffersStay DEF fences
<1>3. where \notin Holding \union Inside BY DEF Holding, Closing, Inside, Reading
<1>4. HoldersAreAlone' BY <1>0, <1>3 DEF IInv, HoldersAreAlone, Entered, Others
<1>5. ClosersKnowTheBuffer'
  <2>1. Ready(where) BY DEF Ready, Closing
  <2> QED BY <1>0, <1>2, <2>1 DEF IInv, ClosersKnowTheBuffer, Entered, Others
<1>6. ReadersAreRegistered'
  BY <1>0, <1>3 DEF IInv, ReadersAreRegistered, Entered, Others, Of, Inside, Reading, fences
<1>7. ReadersReadTheirs' BY <1>0 DEF IInv, ReadersReadTheirs, Entered, Others, Of, fences
<1>8. LossIsKnown' BY <1>0, <1>3 DEF IInv, LossIsKnown, Entered, Others
<1> QED BY <1>1, <1>2, <1>4, <1>5, <1>6, <1>7, <1>8 DEF IInv

\* The steps of Submit and Close, in their order.
LEMMA LockSubmitHolds ==
  ASSUME IInv, NEW c \in Callers, LockSubmit(c)
  PROVE  IInv'
<1>0. /\ UNCHANGED <<cur, closed, buffer, outcome, waiting, fMu, words, lost, heard>>
      /\ call[c].at = "submit" /\ eMu = Nobody
  BY DEF LockSubmit, At, fences
<1>1. CASE closed \/ Busy \/ lost
  <2>1. UNCHANGED eMu /\ call' = [call EXCEPT ![c] = Idle] BY <1>1 DEF LockSubmit
  <2>2. call' \in [Callers -> Call] /\ Back(c) BY <2>1, Returning DEF IInv
  <2>3. TypeOK' BY <1>0, <2>1, <2>2 DEF IInv, TypeOK
  <2> QED BY <1>0, <2>1, <2>2, <2>3, CallEnds, OneHolder
<1>2. CASE ~(closed \/ Busy \/ lost)
  <2> DEFINE where == IF cur = 0 THEN "encode" ELSE "lockFence"
  <2>1. eMu' = c /\ Go(c, where) BY <1>2 DEF LockSubmit
  <2>2. where \in Holding /\ where \in Places BY DEF Holding, Places
  <2>3. Ready(where) BY <1>2 DEF IInv, TypeOK, OneIsCurrent, Ready, Closing, Busy, Fences
  <2>4. ~call[c].knew BY <1>2 DEF IInv, LossIsKnown
  <2> HIDE DEF where
  <2>5. call' \in [Callers -> Call] /\ Moved(c, where) BY <2>1, <2>2, GoingOn DEF IInv
  <2>6. TypeOK' BY <1>0, <2>1, <2>5 DEF IInv, TypeOK
  <2> QED BY <1>0, <2>1, <2>2, <2>3, <2>4, <2>5, <2>6, CloserMoves
<1> QED BY <1>1, <1>2

LEMMA LockCloseHolds ==
  ASSUME IInv, NEW c \in Callers, LockClose(c)
  PROVE  IInv'
<1>0. /\ UNCHANGED <<cur, buffer, outcome, waiting, fMu, words, lost, heard>>
      /\ call[c].at = "close" /\ eMu = Nobody
  BY DEF LockClose, At, fences
<1>1. CASE closed \/ Busy
  <2>1. UNCHANGED <<eMu, closed>> /\ call' = [call EXCEPT ![c] = Idle] BY <1>1 DEF LockClose
  <2>2. call' \in [Callers -> Call] /\ Back(c) BY <2>1, Returning DEF IInv
  <2>3. TypeOK' BY <1>0, <2>1, <2>2 DEF IInv, TypeOK
  <2> QED BY <1>0, <2>1, <2>2, <2>3, CallEnds, OneHolder
<1>2. CASE ~(closed \/ Busy)
  <2> DEFINE where == IF cur = 0 THEN "tearDown" ELSE "lockFence"
  <2>1. eMu' = c /\ closed' = TRUE /\ Go(c, where) BY <1>2 DEF LockClose
  <2>2. where \in Holding /\ where \in Places BY DEF Holding, Places
  <2>3. Ready(where) BY <1>2 DEF IInv, TypeOK, OneIsCurrent, Ready, Closing, Busy, Fences
  <2>4. ~call[c].knew BY <1>0 DEF IInv, LossIsKnown
  <2> HIDE DEF where
  <2>5. call' \in [Callers -> Call] /\ Moved(c, where) BY <2>1, <2>2, GoingOn DEF IInv
  <2>6. TypeOK' BY <1>0, <2>1, <2>5 DEF IInv, TypeOK
  <2> QED BY <1>0, <2>1, <2>2, <2>3, <2>4, <2>5, <2>6, CloserMoves
<1> QED BY <1>1, <1>2

\* A closer at work: the premises of CloserMoves that hold at each of its steps.
LEMMA CloserAtWork ==
  ASSUME IInv, NEW c \in Callers, NEW from \in Holding, NEW where \in Holding, At(c, from),
         Go(c, where), Ready(where),
         fMu' \in [Fences -> Callers \union {Nobody}],
         UNCHANGED <<eMu, cur, closed, buffer, outcome, waiting, words, lost, heard>>
  PROVE  IInv'
<1>1. where \in Places BY DEF Holding, Closing, Places
<1>2. call' \in [Callers -> Call] /\ Moved(c, where) BY <1>1, GoingOn DEF IInv
<1>3. TypeOK' BY <1>2 DEF IInv, TypeOK
<1>4. call[c].at \in Holding BY DEF At
<1>5. eMu' = c BY <1>4 DEF IInv, HoldersAreAlone
<1> QED BY <1>2, <1>3, <1>4, <1>5, CloserMoves

LEMMA LockFenceHolds ==
  ASSUME IInv, NEW c \in Callers, LockFence(c)
  PROVE  IInv'
<1>0. /\ UNCHANGED <<eMu, cur, closed, buffer, outcome, waiting, words, lost, heard>>
      /\ At(c, "lockFence") /\ "lockFence" \in Holding
  BY DEF LockFence, Holding
<1>1. cur \in Fences /\ buffer[cur] \in {"done", "released"}
  BY <1>0 DEF IInv, ClosersKnowTheBuffer, Ready, At
<1>2. fMu \in [Fences -> Callers \union {Nobody}] BY DEF IInv, TypeOK
<1>3. CASE buffer[cur] = "released"
  <2>1. Go(c, Onwards) /\ UNCHANGED fMu BY <1>3 DEF LockFence
  <2>2. Onwards \in Holding BY DEF Onwards, Holding
  <2>3. \A f \in Fences : buffer[f] \in {"none", "released"}
    BY <1>3 DEF IInv, OneIsCurrent, TypeOK
  <2>4. Ready(Onwards) BY <2>3 DEF Ready, Onwards, Closing
  <2> QED BY <1>0, <1>2, <2>1, <2>2, <2>4, CloserAtWork
<1>4. CASE buffer[cur] # "released"
  <2>1. Go(c, "waitGPU") /\ fMu' = [fMu EXCEPT ![cur] = c] BY <1>4 DEF LockFence
  <2>2. "waitGPU" \in Holding BY DEF Holding, Closing
  <2>3. Ready("waitGPU") BY <1>1, <1>4 DEF Ready
  <2>4. fMu' \in [Fences -> Callers \union {Nobody}] BY <1>2, <2>1
  <2> QED BY <1>0, <2>1, <2>2, <2>3, <2>4, CloserAtWork
<1> QED BY <1>3, <1>4

\* Whoever waits with the fence, or for it, knows a buffer that is done.
LEMMA ClosingKnows ==
  ASSUME IInv, NEW c \in Callers, call[c].at \in Closing
  PROVE  cur \in Fences /\ buffer[cur] = "done" /\ \A where \in Closing : Ready(where)
  BY DEF IInv, ClosersKnowTheBuffer, Ready, Closing

LEMMA WaitGPUHolds ==
  ASSUME IInv, NEW c \in Callers, WaitGPU(c)
  PROVE  IInv'
<1>1. /\ UNCHANGED <<eMu, cur, closed, buffer, outcome, waiting, fMu, words, lost, heard>>
      /\ At(c, "waitGPU") /\ Go(c, "drain")
  BY DEF WaitGPU, fences
<1>2. {"waitGPU", "drain"} \subseteq Holding /\ {"waitGPU", "drain"} \subseteq Closing
  BY DEF Holding, Closing
<1>3. Ready("drain") BY <1>1, <1>2, ClosingKnows DEF At
<1>4. fMu' \in [Fences -> Callers \union {Nobody}] BY <1>1 DEF IInv, TypeOK
<1> QED BY <1>1, <1>2, <1>3, <1>4, CloserAtWork

LEMMA RelockHolds ==
  ASSUME IInv, NEW c \in Callers, Relock(c)
  PROVE  IInv'
<1>1. /\ UNCHANGED <<eMu, cur, closed, buffer, outcome, waiting, words, lost, heard>>
      /\ At(c, "woken") /\ Go(c, "drain") /\ fMu' = [fMu EXCEPT ![cur] = c]
  BY DEF Relock
<1>2. {"woken", "drain"} \subseteq Holding /\ {"woken", "drain"} \subseteq Closing
  BY DEF Holding, Closing
<1>3. Ready("drain") BY <1>1, <1>2, ClosingKnows DEF At
<1>4. fMu' \in [Fences -> Callers \union {Nobody}] BY <1>1 DEF IInv, TypeOK
<1> QED BY <1>1, <1>2, <1>3, <1>4, CloserAtWork

\* The command buffer is released: nobody is inside Wait for it, nor for another.
LEMMA DrainHolds ==
  ASSUME IInv, NEW c \in Callers, Drain(c)
  PROVE  IInv'
<1>0. /\ UNCHANGED <<eMu, cur, closed, outcome, waiting, words, lost, heard>>
      /\ At(c, "drain") /\ fMu' = [fMu EXCEPT ![cur] = Nobody]
  BY DEF Drain
<1>1. "drain" \in Holding /\ "drain" \in Closing BY DEF Holding, Closing
<1>2. cur \in Fences /\ buffer[cur] = "done" /\ \A where \in Closing : Ready(where)
  BY <1>0, <1>1, ClosingKnows DEF At
<1>3. fMu' \in [Fences -> Callers \union {Nobody}] BY <1>0 DEF IInv, TypeOK
<1>4. CASE waiting[cur] # {}
  <2>1. Go(c, "asleep") /\ UNCHANGED buffer BY <1>4 DEF Drain
  <2>2. "asleep" \in Holding /\ "asleep" \in Closing BY DEF Holding, Closing
  <2> QED BY <1>0, <1>1, <1>2, <1>3, <2>1, <2>2, CloserAtWork
<1>5. CASE waiting[cur] = {}
  <2>1. Go(c, Onwards) /\ buffer' = [buffer EXCEPT ![cur] = "released"] BY <1>5 DEF Drain
  <2>2. Onwards \in {"encode", "tearDown"} BY DEF Onwards
  <2>3. Onwards \in Places /\ Onwards \in Holding BY <2>2 DEF Places, Holding
  <2>4. call' \in [Callers -> Call] /\ Moved(c, Onwards) BY <2>1, <2>3, GoingOn DEF IInv
  <2>5. buffer' \in [Fences -> {"none", "running", "done", "released"}]
    BY <2>1 DEF IInv, TypeOK
  <2>6. TypeOK' BY <1>0, <1>3, <2>4, <2>5 DEF IInv, TypeOK
  <2>7. \A f \in Fences : buffer'[f] = IF f = cur THEN "released" ELSE buffer[f]
    BY <2>1 DEF IInv, TypeOK
  <2>8. \A f \in Fences : buffer'[f] \in {"none", "released"}
    BY <2>7 DEF IInv, OneIsCurrent, TypeOK
  <2>9. \A d \in Callers : call[d].at \notin Inside
    <3>1. SUFFICES ASSUME NEW d \in Callers, call[d].at \in Inside PROVE FALSE OBVIOUS
    <3>2. /\ Of(d) \in Fences /\ d \in waiting[Of(d)]
          /\ buffer[Of(d)] \notin {"none", "released"}
      BY <3>1 DEF IInv, ReadersAreRegistered
    <3>3. Of(d) = cur BY <3>2 DEF IInv, OneIsCurrent, TypeOK
    <3> QED BY <1>5, <3>2, <3>3
  <2>10. HoldersAreAlone' BY <1>0, <1>1, <2>3, <2>4, OneHolder
    DEF IInv, HoldersAreAlone, Moved, Others, At
  <2>11. OneIsCurrent' /\ WordsAreCurrent'
    BY <1>0, <1>2, <2>7, <2>8 DEF IInv, OneIsCurrent, WordsAreCurrent
  <2>12. \A d \in Callers \ {c} : call'[d].at \notin Holding
    BY <1>0, <1>1, <2>4, OneHolder DEF Moved, Others, At
  <2>13. Ready(Onwards)' BY <1>0, <2>2, <2>8 DEF Ready, Closing, Onwards
  <2>14. ClosersKnowTheBuffer'
    <3>1. SUFFICES ASSUME NEW d \in Callers PROVE Ready(call[d].at)'
      BY DEF ClosersKnowTheBuffer
    <3>2. CASE d = c
      <4>1. call'[c].at = Onwards BY <2>4 DEF Moved
      <4> QED BY <1>0, <2>2, <2>8, <3>2, <4>1 DEF Ready, Closing
    <3>3. CASE d # c BY <2>12, <3>3 DEF Ready, Holding
    <3> QED BY <3>2, <3>3
  <2>15. ReadersAreRegistered' /\ ReadersReadTheirs'
    <3>1. \A d \in Callers : call'[d].at \notin Inside
      BY <2>2, <2>4, <2>9 DEF Moved, Others, Inside, Reading
    <3>2. ReadersReadTheirs' BY <3>1 DEF ReadersReadTheirs, Inside, Reading
    <3>3. \A d \in Callers : call'[d].at \in {"wait", "report"} => call'[d] = call[d]
      BY <2>2, <2>4 DEF Moved, Others
    <3>4. \A f \in Fences : buffer[f] # "none" => buffer'[f] # "none" BY <2>7
    <3>5. ReadersAreRegistered' BY <3>1, <3>3, <3>4 DEF IInv, ReadersAreRegistered, Of, Inside, Reading
    <3> QED BY <3>2, <3>5
  <2>16. LossIsKnown' BY <1>0, <1>1, <2>4 DEF IInv, LossIsKnown, Moved, Others, At
  <2> QED BY <2>6, <2>10, <2>11, <2>14, <2>15, <2>16 DEF IInv
<1> QED BY <1>4, <1>5

LEMMA EncodeHolds ==
  ASSUME IInv, NEW c \in Callers, Encode(c)
  PROVE  IInv'
<1>0. /\ UNCHANGED <<closed, outcome, waiting, fMu, lost, heard>>
      /\ call[c].at = "encode" /\ words' = 0 /\ eMu' = Nobody
      /\ call' = [call EXCEPT ![c] = Idle]
  BY DEF Encode, At
<1>1. call' \in [Callers -> Call] /\ Back(c) BY <1>0, Returning DEF IInv
<1>2. "encode" \in Holding BY DEF Holding
<1>3. \A f \in Fences : buffer[f] \in {"none", "released"}
  BY <1>0 DEF IInv, ClosersKnowTheBuffer, Ready
<1>4. \/ UNCHANGED <<cur, buffer>>
      \/ \E f \in Fences : /\ buffer[f] = "none" /\ cur' = f
                           /\ buffer' = [buffer EXCEPT ![f] = "running"]
  BY DEF Encode
<1>5. /\ buffer' \in [Fences -> {"none", "running", "done", "released"}]
      /\ cur' \in 0 .. MaxSubmissions
      /\ \A f \in Fences : /\ buffer'[f] \in {"none", "released", "running"}
                           /\ buffer'[f] = "running" => f = cur'
                           /\ buffer[f] # "none" => buffer'[f] = buffer[f]
      /\ cur' \in Fences => buffer'[cur'] # "none"
  BY <1>3, <1>4 DEF IInv, TypeOK, OneIsCurrent, Fences
<1>6. TypeOK' BY <1>0, <1>1, <1>5 DEF IInv, TypeOK
<1>7. \A d \in Callers : call'[d].at \notin Holding
  BY <1>0, <1>1, <1>2, OneHolder DEF Back, Others, Holding, Closing
<1>8. HoldersAreAlone' BY <1>7 DEF HoldersAreAlone
<1>9. ClosersKnowTheBuffer' BY <1>7 DEF ClosersKnowTheBuffer, Ready, Holding
<1>10. OneIsCurrent' /\ WordsAreCurrent' BY <1>0, <1>5 DEF OneIsCurrent, WordsAreCurrent
<1>11. \A d \in Callers : call[d].at \notin Inside
  BY <1>3 DEF IInv, ReadersAreRegistered
<1>12. \A d \in Callers : call'[d].at \notin Inside
  BY <1>1, <1>11 DEF Back, Others, Inside, Reading
<1>13. ReadersReadTheirs' BY <1>12 DEF ReadersReadTheirs, Inside, Reading
<1>14. ReadersAreRegistered'
  BY <1>1, <1>5, <1>12 DEF IInv, ReadersAreRegistered, Back, Others, Of, Inside, Reading
<1>15. LossIsKnown' BY <1>0, <1>1 DEF IInv, LossIsKnown, Back, Others
<1> QED BY <1>6, <1>8, <1>9, <1>10, <1>13, <1>14, <1>15 DEF IInv

LEMMA TearDownHolds ==
  ASSUME IInv, NEW c \in Callers, TearDown(c)
  PROVE  IInv'
<1>0. /\ UNCHANGED <<closed, buffer, outcome, waiting, fMu, lost, heard>>
      /\ call[c].at = "tearDown" /\ cur' = 0 /\ words' = 0 /\ eMu' = Nobody
      /\ call' = [call EXCEPT ![c] = Idle]
  BY DEF TearDown, At, fences
<1>1. call' \in [Callers -> Call] /\ Back(c) BY <1>0, Returning DEF IInv
<1>2. "tearDown" \in Holding BY DEF Holding
<1>3. \A f \in Fences : buffer[f] \in {"none", "released"}
  BY <1>0 DEF IInv, ClosersKnowTheBuffer, Ready
<1>4. TypeOK' BY <1>0, <1>1 DEF IInv, TypeOK
<1>5. \A d \in Callers : call'[d].at \notin Holding
  BY <1>0, <1>1, <1>2, OneHolder DEF Back, Others, Holding, Closing
<1>6. HoldersAreAlone' BY <1>5 DEF HoldersAreAlone
<1>7. ClosersKnowTheBuffer' BY <1>5 DEF ClosersKnowTheBuffer, Ready, Holding
<1>8. OneIsCurrent' /\ WordsAreCurrent' BY <1>0, <1>3 DEF OneIsCurrent, WordsAreCurrent, Fences
<1>9. ReadersAreRegistered'
  BY <1>0, <1>1 DEF IInv, ReadersAreRegistered, Back, Others, Of, Inside, Reading
<1>10. ReadersReadTheirs' BY <1>0, <1>1 DEF IInv, ReadersReadTheirs, Back, Others, Of
<1>11. LossIsKnown' BY <1>0, <1>1 DEF IInv, LossIsKnown, Back, Others
<1> QED BY <1>4, <1>6, <1>7, <1>8, <1>9, <1>10, <1>11 DEF IInv

\* The calls that look for a moment, and the end of a Wait.
LEMMA MomentHolds ==
  ASSUME IInv, NEW c \in Callers, Rebind(c) \/ Done(c) \/ Report(c)
  PROVE  IInv'
<1>1. /\ UNCHANGED <<eMu, cur, closed, buffer, outcome, waiting, fMu, words>>
      /\ call[c].at \in {"rebind", "done", "report"} /\ call' = [call EXCEPT ![c] = Idle]
      /\ lost' \in BOOLEAN /\ (lost => lost')
  BY DEF Rebind, Done, Report, At, fences, IInv, TypeOK
<1>2. call' \in [Callers -> Call] /\ Back(c) BY <1>1, Returning DEF IInv
<1>3. call \in [Callers -> Call] /\ heard \in [Callers -> [Fences -> Answers]]
  BY DEF IInv, TypeOK
<1>4. heard' \in [Callers -> [Fences -> Answers]]
  <2>1. CASE UNCHANGED heard BY <1>3, <2>1
  <2>2. CASE Report(c)
    <3>1. call[c].err \in Answers BY <1>3 DEF Call
    <3>2. (IF lost' THEN "loss" ELSE call[c].err) \in Answers BY <3>1 DEF Answers
    <3> QED BY <1>3, <2>2, <3>2 DEF Report
  <2> QED BY <2>1, <2>2 DEF Rebind, Done
<1>5. TypeOK' BY <1>1, <1>2, <1>4 DEF IInv, TypeOK
<1>6. call[c].at \notin Holding BY <1>1 DEF Holding, Closing
<1> QED BY <1>1, <1>2, <1>5, <1>6, CallEnds

-----------------------------------------------------------------------------
(* The steps of Wait.                                                        *)

\* A Wait goes on; what it has read is right at the place it reaches.
LEMMA WaiterMoves ==
  ASSUME IInv, NEW c \in Callers, NEW where \in Inside \union {"report"}, TypeOK',
         Moved(c, where), call[c].at \in {"wait", "report"} \union Inside,
         where = "blocked" => buffer[Of(c)] # "released",
         where \in Inside => c \in waiting'[Of(c)],
         where \in Reading => call[c].at \in Inside /\ buffer[Of(c)] = "done",
         where = "readFaults" => outcome[Of(c)] \in {"ok", "fault"},
         where = "leave" => call'[c].err = outcome[Of(c)],
         \A d \in Callers \ {c} : \A f \in Fences : d \in waiting[f] => d \in waiting'[f],
         UNCHANGED <<eMu, cur, buffer, outcome, words, lost>>
  PROVE  IInv'
<1>1. OneIsCurrent' /\ WordsAreCurrent' /\ \A w : Ready(w)' <=> Ready(w)
  BY BuffersStay
<1>2. where \notin {"close"} \union Holding BY DEF Inside, Reading, Holding, Closing
<1>3. HoldersAreAlone' BY <1>2 DEF IInv, HoldersAreAlone, Moved, Others
<1>4. ClosersKnowTheBuffer'
  <2>1. Ready(where) BY <1>2 DEF Ready, Holding
  <2> QED BY <1>1, <2>1 DEF IInv, ClosersKnowTheBuffer, Moved, Others
<1>5. Of(c) \in Fences /\ buffer[Of(c)] # "none"
  BY DEF IInv, ReadersAreRegistered
<1>6. ReadersAreRegistered'
  <2>1. SUFFICES ASSUME NEW d \in Callers
                 PROVE  /\ call'[d].at \in {"wait", "report"} \union Inside =>
                             Of(d)' \in Fences /\ buffer[Of(d)'] # "none"
                        /\ call'[d].at \in Inside =>
                             d \in waiting'[Of(d)'] /\ buffer[Of(d)'] # "released"
                        /\ call'[d].at \in Reading => buffer[Of(d)'] = "done"
    BY DEF ReadersAreRegistered
  <2>2. CASE d = c
    <3>1. Of(d)' = Of(c) /\ call'[d].at = where BY <2>2 DEF Moved, Of
    <3> QED BY <1>5, <2>2, <3>1 DEF Inside
  <2>3. CASE d # c
    <3>1. call'[d] = call[d] BY <2>3 DEF Moved, Others
    <3> QED BY <2>3, <3>1 DEF IInv, ReadersAreRegistered, Of, Inside, Reading
  <2> QED BY <2>2, <2>3
<1>7. ReadersReadTheirs' BY DEF IInv, ReadersReadTheirs, Moved, Others, Of
<1>8. LossIsKnown' BY <1>2 DEF IInv, LossIsKnown, Moved, Others
<1> QED BY <1>1, <1>3, <1>4, <1>6, <1>7, <1>8 DEF IInv

LEMMA RegisterHolds ==
  ASSUME IInv, NEW c \in Callers, Register(c)
  PROVE  IInv'
<1>0. /\ UNCHANGED <<eMu, cur, closed, buffer, outcome, fMu, words, lost, heard>>
      /\ call[c].at = "wait"
  BY DEF Register, At
<1>1. /\ call \in [Callers -> Call] /\ waiting \in [Fences -> SUBSET Callers]
      /\ Of(c) \in Fences
  BY <1>0 DEF IInv, TypeOK, ReadersAreRegistered
<1>2. CASE buffer[Of(c)] = "released"
  <2>1. BufferErr(Of(c)) \in Answers BY <1>1 DEF IInv, TypeOK, BufferErr, Answers
  <2> DEFINE new == [call[c] EXCEPT !.at = "report", !.err = BufferErr(Of(c))]
  <2>2. new \in Call BY <1>1, <2>1 DEF Call, Places
  <2>3. call' = [call EXCEPT ![c] = new] /\ UNCHANGED waiting BY <1>2 DEF Register
  <2>4. new.at = "report" /\ new.fence = call[c].fence /\ new.knew = call[c].knew
    BY <1>1 DEF Call
  <2> HIDE DEF new
  <2>5. call' \in [Callers -> Call] /\ Moved(c, "report")
    BY <1>1, <2>2, <2>3, <2>4 DEF Moved, Others
  <2>6. TypeOK' BY <1>0, <2>3, <2>5 DEF IInv, TypeOK
  <2>7. "report" \notin Inside /\ "report" \notin Reading BY DEF Inside, Reading
  <2> QED BY <1>0, <2>3, <2>5, <2>6, <2>7, WaiterMoves
<1>3. CASE buffer[Of(c)] # "released"
  <2>1. Go(c, "blocked") /\ waiting' = [waiting EXCEPT ![Of(c)] = @ \union {c}]
    BY <1>3 DEF Register
  <2>2. call' \in [Callers -> Call] /\ Moved(c, "blocked") BY <2>1, GoingOn DEF IInv, Places
  <2>3. waiting' \in [Fences -> SUBSET Callers] BY <1>1, <2>1
  <2>4. TypeOK' BY <1>0, <2>2, <2>3 DEF IInv, TypeOK
  <2>5. /\ \A d \in Callers : \A f \in Fences : d \in waiting[f] => d \in waiting'[f]
        /\ c \in waiting'[Of(c)]
    BY <1>1, <2>1
  <2>6. "blocked" \in Inside /\ "blocked" \notin Reading BY DEF Inside, Reading
  <2> QED BY <1>0, <1>3, <2>2, <2>4, <2>5, <2>6, WaiterMoves
<1> QED BY <1>2, <1>3

\* The premises of WaiterMoves that hold for any caller inside Wait.
LEMMA WaiterInside ==
  ASSUME IInv, NEW c \in Callers, call[c].at \in Inside
  PROVE  /\ Of(c) \in Fences /\ c \in waiting[Of(c)]
         /\ buffer[Of(c)] \notin {"none", "released"}
         /\ call[c].at \in Reading => buffer[Of(c)] = "done"
  BY DEF IInv, ReadersAreRegistered

LEMMA UnblockHolds ==
  ASSUME IInv, NEW c \in Callers, Unblock(c)
  PROVE  IInv'
<1>0. /\ UNCHANGED <<eMu, cur, closed, buffer, outcome, waiting, fMu, words, lost, heard>>
      /\ call[c].at = "blocked" /\ Go(c, "readErr") /\ buffer[Of(c)] # "running"
  BY DEF Unblock, At, fences
<1>1. "blocked" \in Inside /\ "readErr" \in Inside BY DEF Inside, Reading
<1>2. call' \in [Callers -> Call] /\ Moved(c, "readErr") BY <1>0, GoingOn DEF IInv, Places
<1>3. TypeOK' BY <1>0, <1>2 DEF IInv, TypeOK
<1>4. c \in waiting[Of(c)] /\ buffer[Of(c)] = "done"
  BY <1>0, <1>1, WaiterInside DEF IInv, TypeOK
<1> QED BY <1>0, <1>1, <1>2, <1>3, <1>4, WaiterMoves

\* A reader goes on with what it read.
LEMMA ReaderReads ==
  ASSUME IInv, NEW c \in Callers, NEW where \in {"readFaults", "leave"}, NEW e \in Answers,
         call[c].at \in {"readErr", "readFaults"},
         call' = [call EXCEPT ![c].err = e, ![c].at = where],
         where = "readFaults" => outcome[Of(c)] \in {"ok", "fault"},
         where = "leave" => e = outcome[Of(c)],
         UNCHANGED <<eMu, cur, closed, fences, words, lost, heard>>
  PROVE  IInv'
<1>1. call \in [Callers -> Call] BY DEF IInv, TypeOK
<1> DEFINE new == [call[c] EXCEPT !.err = e, !.at = where]
<1>2. new \in Call BY <1>1 DEF Call, Places
<1>3. new.at = where /\ new.err = e /\ new.fence = call[c].fence /\ new.knew = call[c].knew
  BY <1>1 DEF Call
<1>4. call' = [call EXCEPT ![c] = new] OBVIOUS
<1> HIDE DEF new
<1>5. call' \in [Callers -> Call] /\ Moved(c, where) /\ call'[c].err = e
  BY <1>1, <1>2, <1>3, <1>4 DEF Moved, Others
<1>6. TypeOK' BY <1>5 DEF IInv, TypeOK, fences
<1>7. call[c].at \in Inside /\ call[c].at \in Reading /\ where \in Inside
  BY DEF Inside, Reading
<1>8. c \in waiting[Of(c)] /\ buffer[Of(c)] = "done" BY <1>7, WaiterInside
<1> QED BY <1>5, <1>6, <1>7, <1>8, WaiterMoves DEF fences

LEMMA ReadErrHolds ==
  ASSUME IInv, NEW c \in Callers, ReadErr(c)
  PROVE  IInv'
<1> DEFINE e == BufferErr(Of(c))
           where == IF e = "ok" THEN "readFaults" ELSE "leave"
<1>1. /\ UNCHANGED <<eMu, cur, closed, fences, words, lost, heard>>
      /\ call[c].at = "readErr" /\ call' = [call EXCEPT ![c].err = e, ![c].at = where]
  BY DEF ReadErr, At
<1>2. call[c].at \in Inside /\ call[c].at \in Reading BY <1>1 DEF Inside, Reading
<1>3. Of(c) \in Fences /\ buffer[Of(c)] = "done" BY <1>2, WaiterInside
<1>4. outcome[Of(c)] \in Answers \ {"none"} BY <1>3 DEF IInv, TypeOK, WordsAreCurrent
<1>5. e \in Answers /\ where \in {"readFaults", "leave"} BY <1>4 DEF BufferErr, Answers
<1>6. where = "readFaults" => outcome[Of(c)] \in {"ok", "fault"} BY <1>4 DEF BufferErr, Answers
<1>7. where = "leave" => e = outcome[Of(c)] BY DEF BufferErr
<1> HIDE DEF e, where
<1> QED BY <1>1, <1>5, <1>6, <1>7, ReaderReads

LEMMA ReadFaultsHolds ==
  ASSUME IInv, NEW c \in Callers, ReadFaults(c)
  PROVE  IInv'
<1> DEFINE e == IF words = 0 THEN "ok" ELSE "fault"
<1>1. /\ UNCHANGED <<eMu, cur, closed, fences, words, lost, heard>>
      /\ call[c].at = "readFaults" /\ call' = [call EXCEPT ![c].err = e, ![c].at = "leave"]
  BY DEF ReadFaults, At
<1>2. call[c].at \in Inside /\ call[c].at \in Reading BY <1>1 DEF Inside, Reading
<1>3. Of(c) \in Fences /\ buffer[Of(c)] = "done" BY <1>2, WaiterInside
<1>4. outcome[Of(c)] \in {"ok", "fault"} BY <1>1 DEF IInv, ReadersReadTheirs
<1>5. e = outcome[Of(c)] BY <1>3, <1>4 DEF IInv, WordsAreCurrent
<1>6. e \in Answers BY DEF Answers
<1> HIDE DEF e
<1> QED BY <1>1, <1>5, <1>6, ReaderReads

\* Leaving changes the caller that leaves and, at most, where the closer is.
LEMMA LeaveHolds ==
  ASSUME IInv, NEW c \in Callers, Leave(c)
  PROVE  IInv'
<1>1. /\ UNCHANGED <<eMu, cur, closed, buffer, outcome, fMu, words, lost, heard>>
      /\ call[c].at = "leave" /\ waiting' = [waiting EXCEPT ![Of(c)] = @ \ {c}]
  BY DEF Leave, At
<1>2. /\ call' \in [Callers -> Call] /\ call'[c].at = "report"
      /\ \A d \in Callers : /\ call'[d].fence = call[d].fence /\ call'[d].err = call[d].err
                            /\ call'[d].knew = call[d].knew
      /\ \A d \in Callers \ {c} :
           call'[d].at = call[d].at \/ (call[d].at = "asleep" /\ call'[d].at = "woken")
  <2>1. SUFFICES ASSUME NEW d \in Callers
                 PROVE  /\ call'[d] \in Call /\ (d = c => call'[d].at = "report")
                        /\ call'[d].fence = call[d].fence /\ call'[d].err = call[d].err
                        /\ call'[d].knew = call[d].knew
                        /\ d # c => \/ call'[d].at = call[d].at
                                    \/ call[d].at = "asleep" /\ call'[d].at = "woken"
    BY DEF Leave
  <2>2. call[d] \in Call BY DEF IInv, TypeOK
  <2>3. \/ call'[d] = [call[d] EXCEPT !.at = "report"] /\ d = c
        \/ call'[d] = [call[d] EXCEPT !.at = "woken"] /\ call[d].at = "asleep" /\ d # c
        \/ call'[d] = call[d] /\ d # c
    BY DEF Leave, At
  <2> QED BY <2>2, <2>3 DEF Call, Places
<1>3. waiting \in [Fences -> SUBSET Callers] BY DEF IInv, TypeOK
<1>4. waiting' \in [Fences -> SUBSET Callers] BY <1>1, <1>3
<1>5. TypeOK' BY <1>1, <1>2, <1>4 DEF IInv, TypeOK
<1>6. OneIsCurrent' /\ WordsAreCurrent' /\ \A w : Ready(w)' <=> Ready(w)
  BY <1>1, BuffersStay
<1>7. \A d \in Callers : call'[d].at \in Holding => call[d].at \in Holding
  BY <1>2 DEF Holding, Closing
<1>8. HoldersAreAlone' BY <1>1, <1>7 DEF IInv, HoldersAreAlone
<1>9. ClosersKnowTheBuffer'
  <2>1. Ready("report") BY DEF Ready, Closing
  <2>2. Ready("asleep") => Ready("woken") BY DEF Ready, Closing
  <2> QED BY <1>2, <1>6, <2>1, <2>2 DEF IInv, ClosersKnowTheBuffer
<1>10. ReadersAreRegistered'
  <2>1. SUFFICES ASSUME NEW d \in Callers, call'[d].at \in {"wait", "report"} \union Inside
                 PROVE  /\ Of(d)' \in Fences /\ buffer[Of(d)'] # "none"
                        /\ call'[d].at \in Inside =>
                             d \in waiting'[Of(d)'] /\ buffer[Of(d)'] # "released"
                        /\ call'[d].at \in Reading => buffer[Of(d)'] = "done"
    BY <1>1 DEF ReadersAreRegistered, Inside
  <2>2. Of(d)' = Of(d) BY <1>2 DEF Of
  <2>3. CASE d = c
    <3>1. call[c].at \in Inside /\ call'[c].at \notin Inside /\ call'[c].at \notin Reading
      BY <1>1, <1>2 DEF Inside, Reading
    <3> QED BY <2>2, <2>3, <3>1, WaiterInside
  <2>4. CASE d # c
    <3>1. call'[d].at = call[d].at BY <1>2, <2>1, <2>4 DEF Inside, Reading
    <3>2. /\ Of(d) \in Fences /\ buffer[Of(d)] # "none"
          /\ call[d].at \in Inside => d \in waiting[Of(d)] /\ buffer[Of(d)] # "released"
          /\ call[d].at \in Reading => buffer[Of(d)] = "done"
      BY <2>1, <3>1 DEF IInv, ReadersAreRegistered
    <3>3. d \in waiting[Of(d)] => d \in waiting'[Of(d)] BY <1>1, <1>3, <2>4, <3>2
    <3> QED BY <2>2, <3>1, <3>2, <3>3
  <2> QED BY <2>3, <2>4
<1>11. ReadersReadTheirs' BY <1>1, <1>2 DEF IInv, ReadersReadTheirs, Of
<1>12. LossIsKnown' BY <1>1, <1>2, <1>7 DEF IInv, LossIsKnown
<1> QED BY <1>5, <1>6, <1>8, <1>9, <1>10, <1>11, <1>12 DEF IInv

LEMMA CompleteHolds ==
  ASSUME IInv, NEW f \in Fences, Complete(f)
  PROVE  IInv'
<1>1. /\ UNCHANGED <<eMu, cur, closed, waiting, fMu, lost, call, heard>>
      /\ buffer[f] = "running" /\ buffer' = [buffer EXCEPT ![f] = "done"]
  BY DEF Complete
<1>2. PICK o \in Outcomes : /\ outcome' = [outcome EXCEPT ![f] = o]
                            /\ words' = IF o = "fault" THEN f ELSE words
  BY DEF Complete
<1>3. o \in Answers \ {"none"} BY DEF Answers
<1>4. /\ buffer \in [Fences -> {"none", "running", "done", "released"}]
      /\ outcome \in [Fences -> Answers] /\ words \in 0 .. MaxSubmissions
  BY DEF IInv, TypeOK
<1>5. /\ buffer' \in [Fences -> {"none", "running", "done", "released"}]
      /\ outcome' \in [Fences -> Answers] /\ words' \in 0 .. MaxSubmissions
  BY <1>1, <1>2, <1>3, <1>4 DEF Fences
<1>6. TypeOK' BY <1>1, <1>5 DEF IInv, TypeOK
<1>7. /\ f = cur /\ words = 0
      /\ \A g \in Fences \ {f} : buffer[g] \in {"none", "released"}
  BY <1>1, <1>4 DEF IInv, OneIsCurrent, WordsAreCurrent
<1>8. \A c \in Callers : call[c].at \notin Holding
  <2>1. SUFFICES ASSUME NEW c \in Callers, call[c].at \in Holding PROVE FALSE OBVIOUS
  <2>2. Ready(call[c].at) BY DEF IInv, ClosersKnowTheBuffer
  <2> QED BY <1>1, <1>7, <2>1, <2>2 DEF Ready, Holding
<1>9. \A c \in Callers : call[c].at \notin Reading
  <2>1. SUFFICES ASSUME NEW c \in Callers, call[c].at \in Reading PROVE FALSE OBVIOUS
  <2>2. call[c].at \in Inside BY <2>1 DEF Inside
  <2> QED BY <1>1, <1>7, <2>1, <2>2, WaiterInside
<1>10. HoldersAreAlone' BY <1>1, <1>8 DEF HoldersAreAlone
<1>11. ClosersKnowTheBuffer' BY <1>1, <1>8 DEF ClosersKnowTheBuffer, Ready, Holding
<1>12. OneIsCurrent' BY <1>1, <1>4, <1>7 DEF OneIsCurrent
<1>13. WordsAreCurrent'
  BY <1>1, <1>2, <1>3, <1>4, <1>7 DEF WordsAreCurrent, Fences
<1>14. ReadersAreRegistered'
  BY <1>1, <1>4, <1>9 DEF IInv, ReadersAreRegistered, Of, Inside
<1>15. ReadersReadTheirs' BY <1>1, <1>9 DEF ReadersReadTheirs, Reading
<1>16. LossIsKnown' BY <1>1 DEF IInv, LossIsKnown
<1> QED BY <1>6, <1>10, <1>11, <1>12, <1>13, <1>14, <1>15, <1>16 DEF IInv

-----------------------------------------------------------------------------
LEMMA NextHolds ==
  ASSUME IInv, [Next]_vars
  PROVE  IInv'
<1>1. CASE Begin
  <2>1. ASSUME NEW c \in Clients, BeginSubmit(c) \/ BeginClose(c) \/ BeginRebind(c)
        PROVE  IInv'
    <3>1. c \in Callers /\ 0 \in 0 .. MaxSubmissions OBVIOUS
    <3> QED BY <2>1, <3>1, BeginHolds DEF BeginSubmit, BeginClose, BeginRebind
  <2>2. ASSUME NEW c \in Waiters, NEW f \in Fences, BeginWait(c, f) \/ BeginDone(c, f)
        PROVE  IInv'
    <3>1. c \in Callers /\ f \in 0 .. MaxSubmissions BY DEF Fences
    <3> QED BY <2>2, <3>1, BeginHolds DEF BeginWait, BeginDone
  <2> QED BY <1>1, <2>1, <2>2 DEF Begin
<1>2. CASE \E c \in Callers : Step(c)
  <2>1. PICK c \in Callers : Step(c) BY <1>2
  <2> QED BY <2>1, LockSubmitHolds, LockCloseHolds, LockFenceHolds, WaitGPUHolds, DrainHolds,
             RelockHolds, EncodeHolds, TearDownHolds, MomentHolds, RegisterHolds,
             UnblockHolds, ReadErrHolds, ReadFaultsHolds, LeaveHolds DEF Step
<1>3. CASE \E f \in Fences : Complete(f) BY <1>3, CompleteHolds
<1>4. CASE UNCHANGED vars
  <2>1. UNCHANGED <<eMu, cur, closed, buffer, outcome, waiting, fMu, words, lost, call, heard>>
    BY <1>4 DEF vars
  <2>2. TypeOK' BY <2>1 DEF IInv, TypeOK
  <2>3. OneIsCurrent' /\ WordsAreCurrent' /\ \A w : Ready(w)' <=> Ready(w)
    BY <2>1, BuffersStay
  <2>4. HoldersAreAlone' /\ ReadersReadTheirs' /\ LossIsKnown'
    BY <2>1 DEF IInv, HoldersAreAlone, ReadersReadTheirs, LossIsKnown, Of
  <2>5. ClosersKnowTheBuffer' /\ ReadersAreRegistered'
    BY <2>1, <2>3 DEF IInv, ClosersKnowTheBuffer, ReadersAreRegistered, Of
  <2> QED BY <2>2, <2>3, <2>4, <2>5 DEF IInv
<1> QED BY <1>1, <1>2, <1>3, <1>4 DEF Next

THEOREM Inductive == Spec => []IInv
<1>1. Init => IInv BY InitHolds
<1>2. IInv /\ [Next]_vars => IInv' BY NextHolds
<1> QED BY <1>1, <1>2, PTL DEF Spec

\* The variables keep their types, for every number of callers and submissions.
THEOREM TypeCorrect == Spec => []TypeOK
<1>1. IInv => TypeOK BY DEF IInv
<1> QED BY <1>1, Inductive, PTL

\* However the waits of a fence interleave with the Submit or Close that ends its
\* command buffer, and with the submission after it, whoever is inside Wait finds the
\* buffer there and reads its own submission's fault words (fence.Wait, fence.close).
THEOREM WaitersReadTheirs == Spec => []WaitersReadTheirSubmission
<1>1. IInv => WaitersReadTheirSubmission
  BY DEF IInv, ReadersAreRegistered, ReadersReadTheirs, WaitersReadTheirSubmission, Reading, At
<1> QED BY <1>1, Inductive, PTL

\* A loss one answer has reported is in every later answer, and no later Submit gets
\* as far as encoding (device.lost, noteSubmissionError, Submit).
THEOREM LossStaysFinal == Spec => LossIsFinal
<1> DEFINE Final == \A c \in Callers : call[c].knew =>
             /\ At(c, "report") => heard'[c][Of(c)] \in {heard[c][Of(c)], "loss"}
             /\ At(c, "encode") => cur' = cur
<1>1. ASSUME IInv, Next PROVE Final
  <2>1. SUFFICES ASSUME NEW c \in Callers, call[c].knew
                 PROVE  /\ At(c, "report") => heard'[c][Of(c)] \in {heard[c][Of(c)], "loss"}
                        /\ At(c, "encode") => cur' = cur
    OBVIOUS
  <2>2. lost /\ ~At(c, "encode") BY <1>1, <2>1 DEF IInv, LossIsKnown, At, Holding
  <2>3. ASSUME At(c, "report")
        PROVE  heard'[c][Of(c)] \in {heard[c][Of(c)], "loss"}
    <3>1. /\ heard \in [Callers -> [Fences -> Answers]] /\ Of(c) \in Fences
      BY <1>1, <2>3 DEF IInv, TypeOK, ReadersAreRegistered, At
    <3>2. ASSUME NEW d \in Callers, Report(d)
          PROVE  heard'[c][Of(c)] \in {heard[c][Of(c)], "loss"}
      BY <2>2, <3>1, <3>2 DEF Report
    <3>3. UNCHANGED heard \/ \E d \in Callers : Report(d)
      BY <1>1 DEF Next, Begin, BeginSubmit, BeginClose, BeginRebind, BeginWait, BeginDone, Step,
        LockSubmit, LockClose, LockFence, WaitGPU, Drain, Relock, Encode, TearDown, Rebind,
        Register, Unblock, ReadErr, ReadFaults, Leave, Done, Complete
    <3> QED BY <3>2, <3>3
  <2> QED BY <2>2, <2>3
<1>2. IInv /\ [Next]_vars => [Final]_vars BY <1>1
<1>3. [][Final]_vars => LossIsFinal BY PTL DEF LossIsFinal
<1> QED BY <1>2, <1>3, Inductive, PTL DEF Spec

-----------------------------------------------------------------------------
(* The device over the backends: its children, its locks and its counts.      *)
Handles == PoolIds \union GraphIds

\* A call that makes a child, from the lock to its last step; and Close once it
\* has the lock.
Makes(c) ==
  \/ pc[c] \in {"setlock", "try", "cap", "alloc", "add", "append", "first", "count", "lower", "register"}
  \/ pc[c] = "uncount" /\ doing[c] = "Build"
Counting == {"countset", "decide", "closeset", "backend"}

LocksExclude ==
  /\ \A c \in Workers : Makes(c) => c \in readers
  /\ readers # {} => open
  /\ \A c \in Workers : pc[c] \in {"drain"} \union Counting => writer = c
  /\ \A c \in Workers : pc[c] \in Counting => readers = {}

\* What a call is about, by where it is.
CallFits(c) ==
  /\ pc[c] = "rlock" => doing[c] \in {"NewPool", "NewBuffer", "Build", "Register"}
  /\ pc[c] \in {"setlock", "try"} => doing[c] = "NewBuffer"
  /\ pc[c] = "cap" => doing[c] \in {"NewPool", "NewBuffer"}
  /\ pc[c] = "alloc" => doing[c] \in {"NewPool", "NewBuffer", "Build"}
  /\ pc[c] = "add" => doing[c] = "NewPool" /\ arg[c] \in PoolIds
  /\ pc[c] = "append" => doing[c] = "NewBuffer" /\ arg[c] \in PoolIds
  /\ pc[c] = "first" => arg[c] \in PoolIds
  /\ pc[c] \in {"count", "lower"} => doing[c] = "Build" /\ arg[c] \in GraphIds
  /\ pc[c] = "uncount" => doing[c] \in {"Build", "CloseChild"} /\ arg[c] \in GraphIds
  /\ pc[c] \in {"free", "leave"} => doing[c] = "CloseChild" /\ arg[c] \in Handles

\* The call that has h in hand, to make it or to close it.
Has(c, h) == pc[c] \in {"add", "append", "count", "lower", "free", "uncount", "leave"} /\ arg[c] = h
InMaking(h) == \E c \in Workers : Has(c, h) /\ Makes(c)
InClosing(h) == \E c \in Workers : Has(c, h) /\ ~Makes(c)

\* Whose a handle is: of the call that makes or closes it, or of the device that
\* counts it.  The backend holds it between its allocation and its release.
Owned(h) ==
  /\ \A c, d \in Workers : Has(c, h) /\ Has(d, h) => c = d
  /\ handle[h] = "making" <=> InMaking(h)
  /\ handle[h] = "closed" <=> InClosing(h)
  /\ InClosing(h) => h \in pools \union graphs
  /\ handle[h] = "open" => h \in pools \union graphs \union Dev!InSet
  /\ h \in pools \union graphs => handle[h] \in {"open", "closed"}
  /\ h \in Dev!InSet => handle[h] = "open" /\ h \notin pools
  /\ h \in driver <=> handle[h] # "none" /\ \A c \in Workers : Has(c, h) => pc[c] \notin {"leave", "uncount"}

HandlesAreOwned == \A h \in Handles : Owned(h)

\* The graphs whose block implicitBlocks counts, and the calls that were let past
\* the cap and have not registered.
Charged ==
  {g \in GraphIds : handle[g] # "none" /\ \A c \in Workers : Has(c, g) => pc[c] \notin {"count", "leave"}}
Admitted == {c \in Workers : pc[c] \in {"alloc", "add", "append"} /\ doing[c] # "Build"}

\* What is registered and what the backend has, evened by those on their way.
Even(p, i, u, d, o) == p + i + u = d + o
Total(i, n, g) == i = n + g
Fits(p, n, a, most) == p + n + a =< most

Tallied ==
  /\ Even(Cardinality(pools), implicitBlocks, Cardinality(Dev!Uncounted),
          Cardinality(driver), Cardinality(Dev!Overcounted))
  /\ Total(implicitBlocks, Len(blocks), Cardinality(Charged))
  /\ Fits(Cardinality(pools), Len(blocks), Cardinality(Admitted), MaxPools + Cardinality(Workers) - 1)

\* What Close has found out, by how far it is.
NoChildren == pools = {} /\ graphs = {} /\ plain = 0
Found(c) ==
  /\ pc[c] = "countset" /\ found = {} =>
       NoChildren /\ \A i \in 1 .. Len(blocks) : i < idx[c] => live[blocks[i]] = 0
  /\ pc[c] = "decide" /\ found = {} => NoChildren /\ \A p \in Dev!InSet : live[p] = 0
  /\ pc[c] = "closeset" => ~open /\ NoChildren /\ \A p \in Dev!InSet : live[p] = 0
  /\ pc[c] = "backend" => ~open /\ driver = {}

ClosedIsEmpty ==
  /\ \A c \in Workers : Found(c)
  /\ ~open => driver = {} \/ \E c \in Workers : pc[c] = "closeset"
  /\ ~open => ~backendOpen \/ \E c \in Workers : pc[c] \in {"closeset", "backend"}

DInv ==
  /\ Dev!TypeOK /\ LocksExclude /\ (\A c \in Workers : CallFits(c))
  /\ HandlesAreOwned /\ Tallied /\ ClosedIsEmpty

-----------------------------------------------------------------------------
\* What TypeOK says, in four parts.
CallsTyped ==
  /\ pc \in [Workers -> Dev!Pcs] /\ arg \in [Workers -> Handles \union {NoOne}] /\ idx \in [Workers -> Nat]
  /\ doing \in [Workers -> {"none", "NewPool", "NewBuffer", "Build", "Register", "CloseChild", "Close"}]
LocksTyped ==
  readers \subseteq Workers /\ writer \in Workers \union {NoOne} /\ setMu \in Workers \union {NoOne}
ChildrenTyped ==
  /\ pools \subseteq PoolIds /\ graphs \subseteq GraphIds /\ plain \in Nat
  /\ blocks \in Seq(PoolIds) /\ implicitBlocks \in Int
  /\ handle \in [Handles -> {"none", "making", "open", "closed"}]
  /\ live \in [PoolIds -> Nat] /\ driver \subseteq Handles
HandleTyped == open \in BOOLEAN /\ backendOpen \in BOOLEAN

LEMMA TypesSplit == Dev!TypeOK <=> CallsTyped /\ LocksTyped /\ ChildrenTyped /\ HandleTyped
BY DEF Dev!TypeOK, CallsTyped, LocksTyped, ChildrenTyped, HandleTyped, Handles

LEMMA TypesSplitAfter == Dev!TypeOK' <=> (CallsTyped /\ LocksTyped /\ ChildrenTyped /\ HandleTyped)'
BY DEF Dev!TypeOK, CallsTyped, LocksTyped, ChildrenTyped, HandleTyped, Handles

\* Only c has moved.
OnlyMoved(c) ==
  \A d \in Workers : d # c =>
    pc'[d] = pc[d] /\ doing'[d] = doing[d] /\ arg'[d] = arg[d] /\ idx'[d] = idx[d]

LEMMA Returns ==
  ASSUME Dev!TypeOK, NEW c \in Workers, Dev!Return(c)
  PROVE  /\ CallsTyped' /\ LocksTyped' /\ OnlyMoved(c)
         /\ pc'[c] = "idle" /\ doing'[c] = "none" /\ arg'[c] = NoOne
         /\ readers' = readers \ {c} /\ writer' = (IF writer = c THEN NoOne ELSE writer)
<1>1. CallsTyped /\ LocksTyped
  BY TypesSplit
<1>2. "idle" \in Dev!Pcs
  BY DEF Dev!Pcs
<1>3. CallsTyped' /\ OnlyMoved(c) /\ pc'[c] = "idle" /\ doing'[c] = "none" /\ arg'[c] = NoOne
  BY <1>1, <1>2 DEF CallsTyped, Dev!Return, Dev!Go, OnlyMoved
<1>4. LocksTyped' /\ readers' = readers \ {c} /\ writer' = (IF writer = c THEN NoOne ELSE writer)
  BY <1>1 DEF LocksTyped, Dev!Return
<1> QED BY <1>3, <1>4

LEMMA Continues ==
  ASSUME Dev!TypeOK, NEW c \in Workers, NEW to \in Dev!Pcs, Dev!Continue(c, to)
  PROVE  /\ CallsTyped' /\ LocksTyped' /\ OnlyMoved(c)
         /\ pc'[c] = to /\ UNCHANGED <<readers, writer, setMu, doing, arg, idx>>
<1>1. CallsTyped /\ LocksTyped
  BY TypesSplit
<1>2. UNCHANGED <<readers, writer, setMu, doing, arg, idx>> /\ pc' = [pc EXCEPT ![c] = to]
  BY DEF Dev!Continue, Dev!Go, Dev!locks
<1> QED BY <1>1, <1>2 DEF CallsTyped, LocksTyped, OnlyMoved

\* Where a goroutine has a handle in hand.
Owning == {"add", "append", "count", "lower", "free", "uncount", "leave"}

-----------------------------------------------------------------------------
\* The locks, when c gives its own up and when it keeps what it has.
LEMMA ReturnLocks ==
  ASSUME Dev!TypeOK, LocksExclude, NEW c \in Workers, Dev!Return(c), open' = open
  PROVE  LocksExclude'
<1>1. /\ OnlyMoved(c) /\ pc'[c] = "idle" /\ readers' = readers \ {c}
      /\ writer' = (IF writer = c THEN NoOne ELSE writer)
  BY Returns
<1>2. \A d \in Workers : (Makes(d)' => d # c /\ Makes(d)) /\ (pc'[d] \in {"drain"} \union Counting => d # c /\ pc'[d] = pc[d])
  BY <1>1 DEF OnlyMoved, Makes, Counting
<1> QED BY <1>1, <1>2 DEF LocksExclude

LEMMA KeepLocks ==
  ASSUME LocksExclude, NEW c \in Workers, OnlyMoved(c), open' = open, UNCHANGED <<readers, writer>>,
         Makes(c)' => Makes(c), pc'[c] = "drain" => writer = c,
         pc'[c] \in Counting => writer = c /\ readers = {}
  PROVE  LocksExclude'
<1>1. \A d \in Workers : (d # c => (Makes(d)' <=> Makes(d)) /\ pc'[d] = pc[d])
  BY DEF OnlyMoved, Makes
<1> QED BY <1>1 DEF LocksExclude

\* Who makes a child finds nobody closing, and nothing is closed under it.
LEMMA MakersFindNothing ==
  ASSUME LocksExclude, NEW c \in Workers, Makes(c), OnlyMoved(c), pc'[c] \notin Counting, open' = open
  PROVE  ClosedIsEmpty'
<1>1. open /\ \A d \in Workers : pc[d] \notin Counting
  BY DEF LocksExclude
<1>2. open' /\ \A d \in Workers : pc'[d] \notin Counting
  BY <1>1 DEF OnlyMoved
<1> QED BY <1>2 DEF ClosedIsEmpty, Found, Counting

\* A step that makes nothing leaves Close's findings as they are.
LEMMA FindingsStay ==
  ASSUME ClosedIsEmpty, UNCHANGED <<open, backendOpen, found, blocks>>, driver' \subseteq driver,
         \A d \in Workers : \/ pc'[d] = pc[d] /\ idx'[d] = idx[d]
                            \/ pc[d] \notin Counting /\ pc'[d] \notin Counting,
         NoChildren => NoChildren' /\ \A p \in Dev!InSet : live[p] = 0 => live'[p] = 0
  PROVE  ClosedIsEmpty'
<1>1. Dev!InSet' = Dev!InSet /\ \A i \in 1 .. Len(blocks) : blocks[i] \in Dev!InSet
  BY DEF Dev!InSet
<1>2. \A d \in Workers : Found(d)'
  <2> SUFFICES ASSUME NEW d \in Workers PROVE Found(d)'
    OBVIOUS
  <2>1. Found(d)
    BY DEF ClosedIsEmpty
  <2>2. CASE pc'[d] = pc[d] /\ idx'[d] = idx[d]
    BY <1>1, <2>1, <2>2 DEF Found
  <2>3. CASE pc[d] \notin Counting /\ pc'[d] \notin Counting
    BY <2>3 DEF Found, Counting
  <2> QED BY <2>2, <2>3
<1>3. \A d \in Workers : pc[d] \in Counting => pc'[d] = pc[d]
  OBVIOUS
<1> QED BY <1>2, <1>3 DEF ClosedIsEmpty, Counting

-----------------------------------------------------------------------------
\* The counts.
LEMMA SameCardinality == \A S : Dev!Cardinality(S) = Cardinality(S)
BY Zenon DEF Dev!Cardinality, Cardinality

LEMMA SameFiniteness == \A S : Dev!IsFiniteSet(S) <=> IsFiniteSet(S)
BY Zenon DEF Dev!IsFiniteSet, IsFiniteSet

LEMMA Constants ==
  ASSUME Dev!DeviceAssumption
  PROVE  /\ IsFiniteSet(Workers) /\ Workers # {} /\ NoOne \notin Workers
         /\ IsFiniteSet(Handles) /\ PoolIds \cap GraphIds = {} /\ MaxPools \in Nat
<1>1. IsFiniteSet(Workers) /\ IsFiniteSet(PoolIds) /\ IsFiniteSet(GraphIds)
  BY SameFiniteness DEF Dev!DeviceAssumption
<1>2. IsFiniteSet(Handles)
  BY <1>1, FS_Union DEF Handles
<1> QED BY <1>1, <1>2 DEF Dev!DeviceAssumption

Mem(x, S) == IF x \in S THEN 1 ELSE 0

\* A set that changes by no more than one element.
LEMMA OneChanges ==
  ASSUME NEW S, IsFiniteSet(S), NEW T, NEW x, S \ {x} = T \ {x}
  PROVE  /\ IsFiniteSet(T) /\ Cardinality(S) \in Nat /\ Cardinality(T) \in Nat
         /\ Cardinality(T) = Cardinality(S) + Mem(x, T) - Mem(x, S)
<1>1. IsFiniteSet(S \ {x}) /\ Cardinality(S \ {x}) = Cardinality(S) - Mem(x, S) /\ Cardinality(S) \in Nat
  BY FS_RemoveElement, FS_CardinalityType DEF Mem
<1>2. CASE x \in T
  <2>1. T = (S \ {x}) \union {x} /\ x \notin S \ {x}
    BY <1>2
  <2>2. IsFiniteSet(T) /\ Cardinality(T) = Cardinality(S \ {x}) + 1
    BY <1>1, <2>1, FS_AddElement
  <2> QED BY <1>1, <1>2, <2>2, FS_CardinalityType DEF Mem
<1>3. CASE x \notin T
  <2>1. T = S \ {x}
    BY <1>3
  <2> QED BY <1>1, <1>3, <2>1, FS_CardinalityType DEF Mem
<1> QED BY <1>2, <1>3

\* A handle that a step of c leaves alone.
Untouched(c, h) ==
  /\ ~Has(c, h) /\ ~Has(c, h)' /\ handle'[h] = handle[h]
  /\ h \in pools' <=> h \in pools
  /\ h \in graphs' <=> h \in graphs
  /\ h \in driver' <=> h \in driver
  /\ h \in Dev!InSet' <=> h \in Dev!InSet

LEMMA UntouchedStays ==
  ASSUME NEW c \in Workers, OnlyMoved(c), NEW h \in Handles, Untouched(c, h), Owned(h)
  PROVE  Owned(h)' /\ (h \in Charged' <=> h \in Charged)
<1>1. \A d \in Workers : /\ Has(d, h)' <=> Has(d, h)
                         /\ Has(d, h) => (Makes(d)' <=> Makes(d)) /\ pc'[d] = pc[d]
  BY DEF OnlyMoved, Untouched, Has, Makes
<1>2. (InMaking(h)' <=> InMaking(h)) /\ (InClosing(h)' <=> InClosing(h))
  BY <1>1 DEF InMaking, InClosing
<1>3. Owned(h)'
  BY <1>1, <1>2 DEF Owned, Untouched
<1>4. h \in Charged' <=> h \in Charged
  BY <1>1 DEF Charged, Untouched
<1> QED BY <1>3, <1>4

LEMMA OwnedMoves ==
  ASSUME HandlesAreOwned, NEW c \in Workers, OnlyMoved(c), NEW h,
         \A k \in Handles \ {h} : Untouched(c, k), h \in Handles => Owned(h)'
  PROVE  HandlesAreOwned'
BY UntouchedStays DEF HandlesAreOwned

\* The handle that changes hands: nobody but c has it before or after.
LEMMA HandedOn ==
  ASSUME NEW c \in Workers, OnlyMoved(c), NEW h \in Handles, Owned(h),
         Has(c, h) \/ handle[h] \in {"none", "open"}
  PROVE  /\ \A d \in Workers : d # c => ~Has(d, h) /\ ~Has(d, h)'
         /\ InMaking(h) <=> Has(c, h) /\ Makes(c)
         /\ InClosing(h) <=> Has(c, h) /\ ~Makes(c)
         /\ InMaking(h)' <=> (Has(c, h) /\ Makes(c))'
         /\ InClosing(h)' <=> (Has(c, h) /\ ~Makes(c))'
<1>1. \A d \in Workers : d # c => ~Has(d, h)
  BY DEF Owned, InMaking, InClosing
<1>2. \A d \in Workers : d # c => ~Has(d, h)'
  BY <1>1 DEF OnlyMoved, Has
<1> QED BY <1>1, <1>2 DEF InMaking, InClosing

\* How far a step of c that concerns h moves each count.
More(x, T, S) == Mem(x, T) - Mem(x, S)

LEMMA CountsMove ==
  ASSUME Dev!DeviceAssumption, Dev!TypeOK, Dev!TypeOK', HandlesAreOwned,
         NEW c \in Workers, OnlyMoved(c), NEW h, \A k \in Handles \ {h} : Untouched(c, k)
  PROVE  /\ Cardinality(pools') = Cardinality(pools) + More(h, pools', pools)
         /\ Cardinality(driver') = Cardinality(driver) + More(h, driver', driver)
         /\ Cardinality(Charged') = Cardinality(Charged) + More(h, Charged', Charged)
         /\ Cardinality(Dev!Uncounted') = Cardinality(Dev!Uncounted) + More(c, Dev!Uncounted', Dev!Uncounted)
         /\ Cardinality(Dev!Overcounted') = Cardinality(Dev!Overcounted) + More(c, Dev!Overcounted', Dev!Overcounted)
         /\ Cardinality(Admitted') = Cardinality(Admitted) + More(c, Admitted', Admitted)
         /\ {Cardinality(pools), Cardinality(driver), Cardinality(Charged), Cardinality(Dev!Uncounted),
             Cardinality(Dev!Overcounted), Cardinality(Admitted)} \subseteq Nat
         /\ Cardinality(Workers) \in Nat
<1>1. IsFiniteSet(Workers) /\ IsFiniteSet(Handles)
  BY Constants
<1>2. pools \subseteq Handles /\ driver \subseteq Handles /\ pools' \subseteq Handles /\ driver' \subseteq Handles
  BY DEF Dev!TypeOK, Handles
<1>3. Charged \subseteq Handles /\ Charged' \subseteq Handles
  BY DEF Charged, Handles
<1>4. Dev!Uncounted \subseteq Workers /\ Dev!Overcounted \subseteq Workers /\ Admitted \subseteq Workers
  BY DEF Dev!Uncounted, Dev!Overcounted, Admitted
<1>5. pools \ {h} = pools' \ {h} /\ driver \ {h} = driver' \ {h}
  BY <1>2 DEF Untouched
<1>6. Charged \ {h} = Charged' \ {h}
  BY <1>3, UntouchedStays DEF HandlesAreOwned
<1>7. /\ Dev!Uncounted \ {c} = Dev!Uncounted' \ {c} /\ Dev!Overcounted \ {c} = Dev!Overcounted' \ {c}
      /\ Admitted \ {c} = Admitted' \ {c}
  BY DEF OnlyMoved, Dev!Uncounted, Dev!Overcounted, Admitted
<1>8. /\ IsFiniteSet(pools) /\ IsFiniteSet(driver) /\ IsFiniteSet(Charged)
      /\ IsFiniteSet(Dev!Uncounted) /\ IsFiniteSet(Dev!Overcounted) /\ IsFiniteSet(Admitted)
  BY <1>1, <1>2, <1>3, <1>4, FS_Subset
<1>9. \A S, T, x : IsFiniteSet(S) /\ S \ {x} = T \ {x} =>
        /\ Cardinality(S) \in Nat /\ Mem(x, T) \in Int /\ Mem(x, S) \in Int
        /\ Cardinality(T) = Cardinality(S) + Mem(x, T) - Mem(x, S)
  BY OneChanges DEF Mem
<1>10. \A S, T, x : IsFiniteSet(S) /\ S \ {x} = T \ {x} =>
        Cardinality(S) \in Nat /\ Cardinality(T) = Cardinality(S) + More(x, T, S)
  BY <1>9 DEF More
<1>11. /\ Cardinality(pools) \in Nat /\ Cardinality(driver) \in Nat /\ Cardinality(Charged) \in Nat
       /\ Cardinality(pools') = Cardinality(pools) + More(h, pools', pools)
       /\ Cardinality(driver') = Cardinality(driver) + More(h, driver', driver)
       /\ Cardinality(Charged') = Cardinality(Charged) + More(h, Charged', Charged)
  BY <1>5, <1>6, <1>8, <1>10
<1>12. /\ Cardinality(Dev!Uncounted) \in Nat /\ Cardinality(Dev!Overcounted) \in Nat /\ Cardinality(Admitted) \in Nat
       /\ Cardinality(Dev!Uncounted') = Cardinality(Dev!Uncounted) + More(c, Dev!Uncounted', Dev!Uncounted)
       /\ Cardinality(Dev!Overcounted') = Cardinality(Dev!Overcounted) + More(c, Dev!Overcounted', Dev!Overcounted)
       /\ Cardinality(Admitted') = Cardinality(Admitted) + More(c, Admitted', Admitted)
  BY <1>7, <1>8, <1>10
<1>13. Cardinality(Workers) \in Nat
  BY <1>1, FS_CardinalityType
<1> QED BY <1>11, <1>12, <1>13

LEMMA EvenStays ==
  \A p, i, u, d, o, pp, ii, uu, dd, oo \in Int :
    Even(p, i, u, d, o) /\ Even(pp, ii, uu, dd, oo) => Even(p + pp, i + ii, u + uu, d + dd, o + oo)
BY DEF Even

LEMMA TotalStays ==
  \A i, n, g, ii, nn, gg \in Int : Total(i, n, g) /\ Total(ii, nn, gg) => Total(i + ii, n + nn, g + gg)
BY DEF Total

LEMMA FitsStays ==
  \A p, n, a, most, pp, nn, aa \in Int :
    Fits(p, n, a, most) /\ Fits(pp, nn, aa, 0) => Fits(p + pp, n + nn, a + aa, most)
BY DEF Fits

LEMMA TallyMoves ==
  ASSUME Dev!DeviceAssumption, Dev!TypeOK, Dev!TypeOK', HandlesAreOwned, Tallied,
         NEW c \in Workers, OnlyMoved(c), NEW h, \A k \in Handles \ {h} : Untouched(c, k),
         NEW counted \in Int, NEW appended \in Nat,
         implicitBlocks' = implicitBlocks + counted, Len(blocks') = Len(blocks) + appended,
         Even(More(h, pools', pools), counted, More(c, Dev!Uncounted', Dev!Uncounted),
              More(h, driver', driver), More(c, Dev!Overcounted', Dev!Overcounted)),
         Total(counted, appended, More(h, Charged', Charged)),
         Fits(More(h, pools', pools), appended, More(c, Admitted', Admitted), 0)
  PROVE  Tallied'
<1>1. \A x, S, T : More(x, T, S) \in Int
  BY DEF More, Mem
<1>2. /\ More(h, pools', pools) \in Int /\ More(h, driver', driver) \in Int /\ More(h, Charged', Charged) \in Int
      /\ More(c, Dev!Uncounted', Dev!Uncounted) \in Int /\ More(c, Dev!Overcounted', Dev!Overcounted) \in Int
      /\ More(c, Admitted', Admitted) \in Int
  BY <1>1
<1>3. implicitBlocks \in Int /\ Len(blocks) \in Int /\ MaxPools \in Nat /\ appended \in Int
  BY Constants DEF Dev!TypeOK
<1>4. /\ Cardinality(pools) \in Int /\ Cardinality(driver) \in Int /\ Cardinality(Charged) \in Int
      /\ Cardinality(Dev!Uncounted) \in Int /\ Cardinality(Dev!Overcounted) \in Int /\ Cardinality(Admitted) \in Int
      /\ MaxPools + Cardinality(Workers) - 1 \in Int
  BY <1>3, CountsMove
<1>5. Even(Cardinality(pools'), implicitBlocks', Cardinality(Dev!Uncounted'),
           Cardinality(driver'), Cardinality(Dev!Overcounted'))
  <2>1. Even(Cardinality(pools) + More(h, pools', pools), implicitBlocks + counted,
             Cardinality(Dev!Uncounted) + More(c, Dev!Uncounted', Dev!Uncounted),
             Cardinality(driver) + More(h, driver', driver),
             Cardinality(Dev!Overcounted) + More(c, Dev!Overcounted', Dev!Overcounted))
    BY <1>2, <1>3, <1>4, EvenStays DEF Tallied
  <2> QED BY <2>1, CountsMove
<1>6. Total(implicitBlocks', Len(blocks'), Cardinality(Charged'))
  <2>1. Total(implicitBlocks + counted, Len(blocks) + appended, Cardinality(Charged) + More(h, Charged', Charged))
    BY <1>2, <1>3, <1>4, TotalStays DEF Tallied
  <2> QED BY <2>1, CountsMove
<1>7. Fits(Cardinality(pools'), Len(blocks'), Cardinality(Admitted'), MaxPools + Cardinality(Workers) - 1)
  <2>1. Fits(Cardinality(pools) + More(h, pools', pools), Len(blocks) + appended,
             Cardinality(Admitted) + More(c, Admitted', Admitted), MaxPools + Cardinality(Workers) - 1)
    BY <1>2, <1>3, <1>4, FitsStays DEF Tallied
  <2> QED BY <2>1, CountsMove
<1> QED BY <1>5, <1>6, <1>7 DEF Tallied

-----------------------------------------------------------------------------
\* A step that touches no handle.
LEMMA QuietBooks ==
  ASSUME Dev!DeviceAssumption, Dev!TypeOK, Dev!TypeOK', HandlesAreOwned, Tallied,
         NEW c \in Workers, OnlyMoved(c), pc[c] \notin Owning, pc'[c] \notin Owning,
         UNCHANGED <<handle, pools, graphs, driver, blocks, implicitBlocks>>
  PROVE  /\ HandlesAreOwned' /\ Charged' = Charged
         /\ (c \in Admitted' => c \in Admitted) => Tallied'
<1>1. \A k : Untouched(c, k)
  BY DEF Untouched, Has, Owning, Dev!InSet
<1>2. HandlesAreOwned'
  BY <1>1, UntouchedStays DEF HandlesAreOwned
<1>3. Charged' = Charged
  <2>1. \A k \in Handles : k \in Charged' <=> k \in Charged
    BY <1>1, UntouchedStays DEF HandlesAreOwned
  <2> QED BY <2>1 DEF Charged, Handles
<1>4. c \notin Dev!Uncounted /\ c \notin Dev!Overcounted /\ c \notin Dev!Uncounted' /\ c \notin Dev!Overcounted'
  BY DEF Dev!Uncounted, Dev!Overcounted, Owning
<1>5. ASSUME c \in Admitted' => c \in Admitted PROVE Tallied'
  <2>1. \A x, S : More(x, S, S) = 0
    BY DEF More, Mem
  <2>2. More(c, Dev!Uncounted', Dev!Uncounted) = 0 /\ More(c, Dev!Overcounted', Dev!Overcounted) = 0
    BY <1>4 DEF More, Mem
  <2>3. More(c, Admitted', Admitted) \in Int /\ More(c, Admitted', Admitted) =< 0
    BY <1>5 DEF More, Mem
  <2>4. More(c, pools', pools) = 0 /\ More(c, driver', driver) = 0 /\ More(c, Charged', Charged) = 0
    BY <2>1, <1>3
  <2>5. Even(0, 0, 0, 0, 0) /\ Total(0, 0, 0)
    BY DEF Even, Total
  <2>6. Even(More(c, pools', pools), 0, More(c, Dev!Uncounted', Dev!Uncounted),
              More(c, driver', driver), More(c, Dev!Overcounted', Dev!Overcounted))
    BY <2>2, <2>4, <2>5
  <2>7. Total(0, 0, More(c, Charged', Charged))
    BY <2>4, <2>5
  <2>8. Fits(More(c, pools', pools), 0, More(c, Admitted', Admitted), 0)
    BY <2>3, <2>4 DEF Fits
  <2>9. implicitBlocks' = implicitBlocks + 0 /\ Len(blocks') = Len(blocks) + 0 /\ 0 \in Int /\ 0 \in Nat
    BY DEF Dev!TypeOK
  <2> QED BY <1>1, <2>6, <2>7, <2>8, <2>9, TallyMoves
<1> QED BY <1>2, <1>3, <1>5

LEMMA FitsMove ==
  ASSUME \A d \in Workers : CallFits(d), NEW c \in Workers, OnlyMoved(c), CallFits(c)'
  PROVE  \A d \in Workers : CallFits(d)'
BY DEF OnlyMoved, CallFits

\* A step of a call that neither has a handle nor is inside Close's lock.
Away(c) == pc[c] \notin Owning \union Counting

LEMMA QuietStep ==
  ASSUME Dev!DeviceAssumption, DInv, NEW c \in Workers, OnlyMoved(c), CallsTyped', LocksTyped',
         Away(c), Away(c)', CallFits(c)', LocksExclude',
         UNCHANGED <<handle, pools, graphs, driver, blocks, implicitBlocks, Dev!device>>,
         plain' \in Nat, live' \in [PoolIds -> Nat], UNCHANGED <<live, plain>> \/ Makes(c),
         c \in Admitted' => c \in Admitted
  PROVE  DInv'
<1>1. Dev!TypeOK /\ HandlesAreOwned /\ Tallied /\ ClosedIsEmpty /\ LocksExclude /\ \A d \in Workers : CallFits(d)
  BY DEF DInv
<1>2. UNCHANGED <<open, backendOpen, found>>
  BY DEF Dev!device
<1>3. Dev!TypeOK'
  <2>1. ChildrenTyped' /\ HandleTyped'
    BY <1>1, <1>2, TypesSplit DEF ChildrenTyped, HandleTyped
  <2> QED BY <2>1, TypesSplitAfter
<1>4. HandlesAreOwned' /\ Tallied'
  BY <1>1, <1>3, QuietBooks DEF Away
<1>5. \A d \in Workers : CallFits(d)'
  BY <1>1, FitsMove
<1>6. ClosedIsEmpty'
  <2>1. CASE Makes(c)
    BY <1>1, <1>2, <2>1, MakersFindNothing DEF Away
  <2>2. CASE UNCHANGED <<live, plain>>
    <3>1. \A d \in Workers : \/ pc'[d] = pc[d] /\ idx'[d] = idx[d]
                             \/ pc[d] \notin Counting /\ pc'[d] \notin Counting
      BY DEF OnlyMoved, Away
    <3>2. NoChildren => NoChildren' /\ \A p \in Dev!InSet : live[p] = 0 => live'[p] = 0
      BY <2>2 DEF NoChildren
    <3> QED BY <1>1, <1>2, <3>1, <3>2, FindingsStay
  <2> QED BY <2>1, <2>2
<1> QED BY <1>1, <1>3, <1>4, <1>5, <1>6 DEF DInv

\* The call ends there, with nothing made.
LEMMA QuietReturn ==
  ASSUME Dev!DeviceAssumption, DInv, NEW c \in Workers, Dev!Return(c), Away(c),
         UNCHANGED <<pools, graphs, Dev!memory, Dev!device>>,
         plain' \in Nat, live' \in [PoolIds -> Nat], UNCHANGED <<live, plain>> \/ Makes(c)
  PROVE  DInv'
<1>1. Dev!TypeOK /\ LocksExclude
  BY DEF DInv
<1>2. CallsTyped' /\ LocksTyped' /\ OnlyMoved(c) /\ pc'[c] = "idle"
  BY <1>1, Returns
<1>3. UNCHANGED <<handle, driver, blocks, implicitBlocks, open>>
  BY DEF Dev!memory, Dev!device
<1>4. LocksExclude'
  BY <1>1, <1>3, ReturnLocks
<1>5. Away(c)' /\ CallFits(c)' /\ c \notin Admitted'
  BY <1>2 DEF Away, CallFits, Admitted, Owning, Counting
<1> QED BY <1>2, <1>3, <1>4, <1>5, QuietStep

LEMMA MakeHolds ==
  ASSUME Dev!DeviceAssumption, DInv, NEW c \in Workers, NEW kind \in {"NewPool", "NewBuffer", "Build", "Register"},
         Dev!Make(c, kind)
  PROVE  DInv'
<1>1. Dev!TypeOK /\ LocksExclude /\ CallsTyped /\ LocksTyped /\ ChildrenTyped
  BY TypesSplit DEF DInv
<1>2. /\ pc[c] = "idle" /\ pc' = [pc EXCEPT ![c] = "rlock"] /\ doing' = [doing EXCEPT ![c] = kind]
      /\ UNCHANGED <<readers, writer, setMu, arg, idx, pools, graphs, plain, live, blocks, implicitBlocks, handle,
                     driver, Dev!device, open>>
  BY DEF Dev!Make, Dev!At, Dev!Go, Dev!locks, Dev!children, Dev!memory, Dev!device
<1>3. "rlock" \in Dev!Pcs
  BY DEF Dev!Pcs
<1>4. CallsTyped' /\ OnlyMoved(c) /\ pc'[c] = "rlock" /\ doing'[c] = kind
  BY <1>1, <1>2, <1>3 DEF CallsTyped, OnlyMoved
<1>5. LocksTyped' /\ plain' \in Nat /\ live' \in [PoolIds -> Nat] /\ UNCHANGED <<live, plain>>
  BY <1>1, <1>2 DEF LocksTyped, ChildrenTyped
<1>6. Away(c) /\ Away(c)' /\ CallFits(c)' /\ c \notin Admitted' /\ ~Makes(c)'
  BY <1>2, <1>4 DEF Away, CallFits, Admitted, Owning, Counting, Makes
<1>7. LocksExclude'
  BY <1>1, <1>2, <1>4, <1>6, KeepLocks DEF Counting
<1> QED BY <1>2, <1>4, <1>5, <1>6, <1>7, QuietStep

LEMMA RLockHolds ==
  ASSUME Dev!DeviceAssumption, DInv, NEW c \in Workers, Dev!RLock(c)
  PROVE  DInv'
<1>1. Dev!TypeOK /\ LocksExclude /\ CallsTyped /\ LocksTyped /\ ChildrenTyped
  BY TypesSplit DEF DInv
<1>2. /\ pc[c] = "rlock" /\ writer = NoOne
      /\ UNCHANGED <<pools, graphs, plain, live, blocks, implicitBlocks, handle, driver, Dev!memory, Dev!device, open>>
  BY DEF Dev!RLock, Dev!At, Dev!children, Dev!memory, Dev!device
<1>3. plain' \in Nat /\ live' \in [PoolIds -> Nat] /\ UNCHANGED <<live, plain>>
  BY <1>1, <1>2 DEF ChildrenTyped
<1>4. Away(c)
  BY <1>2 DEF Away, Owning, Counting
<1>5. CASE ~open
  <2>1. Dev!Return(c)
    BY <1>5 DEF Dev!RLock
  <2> QED BY <1>2, <1>3, <1>4, <2>1, QuietReturn
<1>6. CASE open
  <2> DEFINE to == Dev!Registering[doing[c]]
  <2>1. /\ readers' = readers \union {c} /\ pc' = [pc EXCEPT ![c] = to]
        /\ UNCHANGED <<writer, setMu, doing, arg, idx>>
    BY <1>6 DEF Dev!RLock, Dev!Go
  <2>2. doing[c] \in {"NewPool", "NewBuffer", "Build", "Register"}
    BY <1>2 DEF DInv, CallFits
  <2>3. /\ doing[c] = "NewPool" => to = "cap"
        /\ doing[c] = "NewBuffer" => to = "setlock"
        /\ doing[c] = "Build" => to = "alloc"
        /\ doing[c] = "Register" => to = "register"
    BY DEF Dev!Registering
  <2>4. to \in {"cap", "setlock", "alloc", "register"} /\ to \in Dev!Pcs
    BY <2>2, <2>3 DEF Dev!Pcs
  <2> HIDE DEF to
  <2>5. CallsTyped' /\ OnlyMoved(c) /\ pc'[c] = to /\ doing'[c] = doing[c] /\ LocksTyped'
    BY <1>1, <2>1, <2>4 DEF CallsTyped, OnlyMoved, LocksTyped
  <2>6. Away(c)' /\ CallFits(c)' /\ Makes(c)'
    BY <2>2, <2>3, <2>4, <2>5 DEF Away, CallFits, Owning, Counting, Makes
  <2>7. c \notin Admitted'
    BY <2>2, <2>3, <2>4, <2>5 DEF Admitted
  <2>8. \A d \in Workers : d # c => pc'[d] = pc[d] /\ (Makes(d)' <=> Makes(d))
    BY <2>5 DEF OnlyMoved, Makes
  <2>9. \A d \in Workers : writer # d
    BY <1>2, Constants
  <2>10. LocksExclude'
    <3>1. \A d \in Workers : pc'[d] \notin {"drain"} \union Counting
      BY <1>1, <2>4, <2>5, <2>8, <2>9 DEF LocksExclude, Counting
    <3>2. \A d \in Workers : Makes(d)' => d \in readers'
      BY <1>1, <2>1, <2>8 DEF LocksExclude
    <3> QED BY <1>2, <1>6, <3>1, <3>2 DEF LocksExclude
  <2> QED BY <1>2, <1>3, <1>4, <2>5, <2>6, <2>7, <2>10, QuietStep
<1> QED BY <1>1, <1>5, <1>6 DEF Dev!TypeOK

LEMMA SetLockHolds ==
  ASSUME Dev!DeviceAssumption, DInv, NEW c \in Workers, Dev!SetLock(c)
  PROVE  DInv'
<1>1. Dev!TypeOK /\ LocksExclude /\ CallsTyped /\ LocksTyped /\ ChildrenTyped
  BY TypesSplit DEF DInv
<1>2. /\ pc[c] = "setlock" /\ pc' = [pc EXCEPT ![c] = "try"] /\ idx' = [idx EXCEPT ![c] = 1] /\ setMu' = c
      /\ UNCHANGED <<readers, writer, doing, arg, pools, graphs, plain, live, blocks, implicitBlocks, handle, driver,
                     Dev!device, open>>
  BY DEF Dev!SetLock, Dev!At, Dev!Go, Dev!children, Dev!memory, Dev!device
<1>3. "try" \in Dev!Pcs
  BY DEF Dev!Pcs
<1>4. CallsTyped' /\ OnlyMoved(c) /\ pc'[c] = "try" /\ LocksTyped'
  BY <1>1, <1>2, <1>3 DEF CallsTyped, OnlyMoved, LocksTyped
<1>5. Away(c) /\ Away(c)' /\ CallFits(c)' /\ c \notin Admitted' /\ Makes(c)
  BY <1>2, <1>4 DEF DInv, Away, CallFits, Admitted, Owning, Counting, Makes
<1>6. LocksExclude'
  BY <1>1, <1>2, <1>4, <1>5, KeepLocks DEF Counting
<1>7. plain' \in Nat /\ live' \in [PoolIds -> Nat] /\ UNCHANGED <<live, plain>>
  BY <1>1, <1>2 DEF ChildrenTyped
<1> QED BY <1>2, <1>4, <1>5, <1>6, <1>7, QuietStep

LEMMA TryBlockHolds ==
  ASSUME Dev!DeviceAssumption, DInv, NEW c \in Workers, Dev!TryBlock(c)
  PROVE  DInv'
<1>1. Dev!TypeOK /\ LocksExclude /\ CallsTyped /\ LocksTyped /\ ChildrenTyped
  BY TypesSplit DEF DInv
<1>2. /\ pc[c] = "try"
      /\ UNCHANGED <<pools, graphs, plain, blocks, implicitBlocks, handle, driver, Dev!memory, Dev!device, open>>
  BY DEF Dev!TryBlock, Dev!At, Dev!memory, Dev!device
<1>3. Away(c) /\ Makes(c) /\ plain' \in Nat
  BY <1>1, <1>2 DEF Away, Owning, Counting, Makes, ChildrenTyped
<1>4. CASE live' = [live EXCEPT ![blocks[idx[c]]] = @ + 1] /\ Dev!Return(c) /\ idx[c] =< Len(blocks)
  <2> DEFINE p == blocks[idx[c]]
  <2>0. live \in [PoolIds -> Nat] /\ live' = [live EXCEPT ![p] = live[p] + 1]
    BY <1>1, <1>4 DEF ChildrenTyped
  <2> HIDE DEF p
  <2>1. live' \in [PoolIds -> Nat]
    <3>1. \A q \in PoolIds : live'[q] = IF q = p THEN live[q] + 1 ELSE live[q]
      BY <2>0
    <3>2. \A q \in PoolIds : live[q] \in Nat
      BY <2>0
    <3>3. \A q \in PoolIds : live'[q] \in Nat
      BY <3>1, <3>2
    <3> QED BY <2>0, <3>3
  <2> QED BY <1>2, <1>3, <1>4, <2>1, QuietReturn
<1>5. CASE idx' = [idx EXCEPT ![c] = @ + 1] /\ UNCHANGED <<Dev!locks, live, pc, doing, arg>>
  <2>1. UNCHANGED <<readers, writer, setMu>> /\ pc'[c] = "try"
    BY <1>2, <1>5 DEF Dev!locks
  <2>2. CallsTyped' /\ OnlyMoved(c) /\ LocksTyped'
    BY <1>1, <1>5, <2>1 DEF CallsTyped, OnlyMoved, LocksTyped
  <2>3. Away(c)' /\ CallFits(c)' /\ c \notin Admitted'
    BY <1>2, <1>5, <2>1 DEF DInv, Away, CallFits, Admitted, Owning, Counting
  <2>4. LocksExclude'
    BY <1>1, <1>2, <1>3, <2>1, <2>2, KeepLocks DEF Counting
  <2>5. live' \in [PoolIds -> Nat]
    BY <1>1, <1>5 DEF ChildrenTyped
  <2> QED BY <1>2, <1>3, <2>2, <2>3, <2>4, <2>5, QuietStep
<1>6. CASE Dev!Continue(c, "cap") /\ UNCHANGED live
  <2>1. /\ CallsTyped' /\ LocksTyped' /\ OnlyMoved(c) /\ pc'[c] = "cap"
        /\ UNCHANGED <<readers, writer, setMu, doing, arg, idx>>
    BY <1>1, <1>6, Continues DEF Dev!Pcs
  <2>2. Away(c)' /\ c \notin Admitted'
    BY <2>1 DEF Away, Admitted, Owning, Counting
  <2>3. CallFits(c)'
    BY <1>2, <2>1 DEF DInv, CallFits
  <2>4. LocksExclude'
    BY <1>1, <1>2, <1>3, <2>1, KeepLocks DEF Counting
  <2>5. live' \in [PoolIds -> Nat]
    BY <1>1, <1>6 DEF ChildrenTyped
  <2> QED BY <1>2, <1>3, <1>6, <2>1, <2>2, <2>3, <2>4, <2>5, QuietStep
<1> QED BY <1>4, <1>5, <1>6 DEF Dev!TryBlock

LEMMA CapIsRead ==
  ASSUME DInv, Dev!DeviceAssumption, NEW c \in Workers, Dev!ReadCap(c)
  PROVE  Dev!Return(c) \/ (Cardinality(pools) + implicitBlocks < MaxPools /\ Dev!Continue(c, "alloc"))
<1>1. Dev!Cardinality(pools) = Cardinality(pools)
  BY SameCardinality
<1>2. Cardinality(pools) \in Nat /\ implicitBlocks \in Int /\ MaxPools \in Nat
  <2>1. pools \subseteq Handles
    BY DEF DInv, Dev!TypeOK, Handles
  <2> QED BY <2>1, Constants, FS_Subset, FS_CardinalityType DEF DInv, Dev!TypeOK
<1> QED BY <1>1, <1>2 DEF Dev!ReadCap

LEMMA ReadCapHolds ==
  ASSUME Dev!DeviceAssumption, DInv, NEW c \in Workers, Dev!ReadCap(c)
  PROVE  DInv'
<1>1. /\ Dev!TypeOK /\ LocksExclude /\ CallsTyped /\ LocksTyped /\ ChildrenTyped /\ HandleTyped
      /\ HandlesAreOwned /\ Tallied /\ ClosedIsEmpty
  BY TypesSplit DEF DInv
<1>2. /\ pc[c] = "cap" /\ doing[c] \in {"NewPool", "NewBuffer"}
      /\ UNCHANGED <<pools, graphs, plain, live, blocks, implicitBlocks, handle, driver, Dev!memory, Dev!device, open,
                     backendOpen, found>>
  BY DEF Dev!ReadCap, Dev!At, Dev!children, Dev!memory, Dev!device, DInv, CallFits
<1>3. Away(c) /\ Makes(c) /\ plain' \in Nat /\ live' \in [PoolIds -> Nat]
  BY <1>1, <1>2 DEF Away, Owning, Counting, Makes, ChildrenTyped
<1>4. CASE Dev!Return(c)
  BY <1>2, <1>3, <1>4, QuietReturn
<1>5. CASE Cardinality(pools) + implicitBlocks < MaxPools /\ Dev!Continue(c, "alloc")
  <2>1. /\ CallsTyped' /\ LocksTyped' /\ OnlyMoved(c) /\ pc'[c] = "alloc"
        /\ UNCHANGED <<readers, writer, setMu, doing, arg, idx>>
    BY <1>1, <1>5, Continues DEF Dev!Pcs
  <2>2. Away(c)' /\ CallFits(c)'
    BY <1>2, <2>1 DEF Away, CallFits, Owning, Counting
  <2>3. LocksExclude'
    BY <1>1, <1>2, <1>3, <2>1, KeepLocks DEF Counting
  <2>4. Dev!TypeOK'
    <3>1. ChildrenTyped' /\ HandleTyped'
      BY <1>1, <1>2 DEF ChildrenTyped, HandleTyped
    <3> QED BY <2>1, <3>1, TypesSplitAfter
  <2>5. HandlesAreOwned' /\ Charged' = Charged
    BY <1>1, <1>2, <1>3, <2>1, <2>2, <2>4, QuietBooks DEF Away
  <2>6. Dev!Uncounted' = Dev!Uncounted /\ Dev!Overcounted' = Dev!Overcounted
    BY <1>2, <2>1 DEF OnlyMoved, Dev!Uncounted, Dev!Overcounted
  <2>7. Fits(Cardinality(pools'), Len(blocks'), Cardinality(Admitted'), MaxPools + Cardinality(Workers) - 1)
    <3> DEFINE p == Cardinality(pools)  n == Len(blocks)  a == Cardinality(Admitted')
               g == Cardinality(Charged)  m == Cardinality(Workers)
    <3>1. IsFiniteSet(Workers) /\ MaxPools \in Nat /\ IsFiniteSet(Handles)
      BY Constants
    <3>2. a =< m /\ a \in Nat /\ m \in Nat
      <4>1. Admitted' \subseteq Workers
        BY DEF Admitted
      <4> QED BY <3>1, <4>1, FS_Subset, FS_CardinalityType
    <3>3. p \in Nat /\ g \in Nat /\ n \in Nat
      <4>1. pools \subseteq Handles /\ Charged \subseteq Handles
        BY <1>1 DEF ChildrenTyped, Charged, Handles
      <4> QED BY <1>1, <3>1, <4>1, FS_Subset, FS_CardinalityType DEF ChildrenTyped
    <3>4. implicitBlocks = n + g /\ p + implicitBlocks < MaxPools
      BY <1>1, <1>5 DEF Tallied, Total
    <3> HIDE DEF p, n, a, g, m
    <3>5. p + n + a =< MaxPools + m - 1
      BY <3>1, <3>2, <3>3, <3>4
    <3>6. Fits(p, n, a, MaxPools + m - 1)
      BY <3>5 DEF Fits
    <3> QED BY <1>2, <3>6 DEF p, n, a, m
  <2>8. Tallied'
    BY <1>1, <1>2, <2>5, <2>6, <2>7 DEF Tallied
  <2>9. ClosedIsEmpty'
    BY <1>1, <1>2, <1>3, <2>1, MakersFindNothing DEF Counting
  <2> QED BY <2>1, <2>2, <2>3, <2>4, <2>5, <2>8, <2>9, FitsMove DEF DInv
<1> QED BY <1>4, <1>5, CapIsRead

LEMMA FirstBufferHolds ==
  ASSUME Dev!DeviceAssumption, DInv, NEW c \in Workers, Dev!FirstBuffer(c)
  PROVE  DInv'
<1>1. ChildrenTyped
  BY TypesSplit DEF DInv
<1>2. /\ pc[c] = "first" /\ Dev!Return(c) /\ live' \in {live, [live EXCEPT ![arg[c]] = @ + 1]}
      /\ UNCHANGED <<pools, graphs, plain, Dev!memory, Dev!device>>
  BY DEF Dev!FirstBuffer, Dev!At
<1>3. arg[c] \in PoolIds
  BY <1>2 DEF DInv, CallFits
<1>4. live' \in [PoolIds -> Nat] /\ plain' \in Nat
  <2>1. live \in [PoolIds -> Nat] /\ live[arg[c]] + 1 \in Nat
    BY <1>1, <1>3 DEF ChildrenTyped
  <2> QED BY <1>1, <1>2, <2>1 DEF ChildrenTyped
<1>5. Away(c) /\ Makes(c)
  BY <1>2 DEF Away, Makes, Owning, Counting
<1> QED BY <1>2, <1>4, <1>5, QuietReturn

LEMMA RegistrationHolds ==
  ASSUME Dev!DeviceAssumption, DInv, NEW c \in Workers, Dev!Register(c)
  PROVE  DInv'
<1>1. ChildrenTyped
  BY TypesSplit DEF DInv
<1>2. /\ pc[c] = "register" /\ Dev!Return(c) /\ plain' = plain + 1
      /\ UNCHANGED <<pools, graphs, live, Dev!memory, Dev!device>>
  BY DEF Dev!Register, Dev!At
<1>3. live' \in [PoolIds -> Nat] /\ plain' \in Nat
  BY <1>1, <1>2 DEF ChildrenTyped
<1>4. Away(c) /\ Makes(c)
  BY <1>2 DEF Away, Owning, Counting, Makes
<1> QED BY <1>2, <1>3, <1>4, QuietReturn

LEMMA CloseHolds ==
  ASSUME Dev!DeviceAssumption, DInv, NEW c \in Workers, Dev!Close(c)
  PROVE  DInv'
<1>1. Dev!TypeOK /\ LocksExclude /\ CallsTyped /\ LocksTyped /\ ChildrenTyped
  BY TypesSplit DEF DInv
<1>2. /\ pc[c] = "idle" /\ pc' = [pc EXCEPT ![c] = "wlock"] /\ doing' = [doing EXCEPT ![c] = "Close"]
      /\ UNCHANGED <<readers, writer, setMu, arg, idx, pools, graphs, plain, live, blocks, implicitBlocks, handle,
                     driver, Dev!device, open>>
  BY DEF Dev!Close, Dev!At, Dev!Go, Dev!locks, Dev!children, Dev!memory, Dev!device
<1>3. "wlock" \in Dev!Pcs
  BY DEF Dev!Pcs
<1>4. CallsTyped' /\ OnlyMoved(c) /\ pc'[c] = "wlock"
  BY <1>1, <1>2, <1>3 DEF CallsTyped, OnlyMoved
<1>5. LocksTyped' /\ plain' \in Nat /\ live' \in [PoolIds -> Nat] /\ UNCHANGED <<live, plain>>
  BY <1>1, <1>2 DEF LocksTyped, ChildrenTyped
<1>6. Away(c) /\ Away(c)' /\ CallFits(c)' /\ c \notin Admitted' /\ ~Makes(c)'
  BY <1>2, <1>4 DEF Away, CallFits, Admitted, Owning, Counting, Makes
<1>7. LocksExclude'
  BY <1>1, <1>2, <1>4, <1>6, KeepLocks DEF Counting
<1> QED BY <1>2, <1>4, <1>5, <1>6, <1>7, QuietStep

LEMMA LockHolds ==
  ASSUME Dev!DeviceAssumption, DInv, NEW c \in Workers, Dev!Lock(c)
  PROVE  DInv'
<1>1. Dev!TypeOK /\ LocksExclude /\ CallsTyped /\ LocksTyped /\ ChildrenTyped
  BY TypesSplit DEF DInv
<1>2. /\ pc[c] = "wlock" /\ writer = NoOne /\ writer' = c /\ pc' = [pc EXCEPT ![c] = "drain"]
      /\ UNCHANGED <<readers, setMu, doing, arg, idx, pools, graphs, plain, live, blocks, implicitBlocks, handle,
                     driver, Dev!device, open>>
  BY DEF Dev!Lock, Dev!At, Dev!Go, Dev!locks, Dev!children, Dev!memory, Dev!device
<1>3. "drain" \in Dev!Pcs
  BY DEF Dev!Pcs
<1>4. CallsTyped' /\ OnlyMoved(c) /\ pc'[c] = "drain"
  BY <1>1, <1>2, <1>3 DEF CallsTyped, OnlyMoved
<1>5. LocksTyped' /\ plain' \in Nat /\ live' \in [PoolIds -> Nat] /\ UNCHANGED <<live, plain>>
  BY <1>1, <1>2 DEF LocksTyped, ChildrenTyped
<1>6. Away(c) /\ Away(c)' /\ CallFits(c)' /\ c \notin Admitted' /\ ~Makes(c)'
  BY <1>2, <1>4 DEF Away, CallFits, Admitted, Owning, Counting, Makes
<1>7. LocksExclude'
  <2>1. \A d \in Workers : writer # d
    BY <1>2, Constants
  <2>2. \A d \in Workers : d # c => pc'[d] = pc[d] /\ (Makes(d)' <=> Makes(d)) /\ pc[d] \notin {"drain"} \union Counting
    BY <1>1, <1>4, <2>1 DEF OnlyMoved, Makes, LocksExclude
  <2>3. \A d \in Workers : pc'[d] \in {"drain"} \union Counting => d = c
    BY <2>2
  <2> QED BY <1>1, <1>2, <1>4, <1>6, <2>2, <2>3 DEF LocksExclude, Counting
<1> QED BY <1>2, <1>4, <1>5, <1>6, <1>7, QuietStep

-----------------------------------------------------------------------------
\* Close under its lock: nobody makes anything, and nobody else is there.
LEMMA CloserIsAlone ==
  ASSUME LocksExclude, NEW c \in Workers, pc[c] \in {"drain"} \union Counting
  PROVE  /\ writer = c /\ \A d \in Workers : d # c => pc[d] \notin {"drain"} \union Counting
         /\ pc[c] # "drain" => readers = {}
BY DEF LocksExclude

LEMMA CloserStep ==
  ASSUME Dev!DeviceAssumption, DInv, NEW c \in Workers, OnlyMoved(c), CallsTyped', LocksTyped',
         pc[c] \in {"drain"} \union Counting, pc'[c] \in {"idle"} \union Counting,
         readers = {}, readers' = {}, pc'[c] # "idle" => writer' = c,
         UNCHANGED <<pools, graphs, plain, live, blocks, implicitBlocks, handle, driver>>,
         open' \in BOOLEAN, backendOpen' \in BOOLEAN,
         Found(c)',
         ~open' => driver = {} \/ pc'[c] = "closeset",
         ~open' => ~backendOpen' \/ pc'[c] \in {"closeset", "backend"}
  PROVE  DInv'
<1>1. Dev!TypeOK /\ LocksExclude /\ ChildrenTyped /\ HandlesAreOwned /\ Tallied /\ \A d \in Workers : CallFits(d)
  BY TypesSplit DEF DInv
<1>2. Dev!TypeOK'
  <2>1. ChildrenTyped' /\ HandleTyped'
    BY <1>1 DEF ChildrenTyped, HandleTyped
  <2> QED BY <2>1, TypesSplitAfter
<1>3. pc[c] \notin Owning /\ pc'[c] \notin Owning /\ ~Makes(c)' /\ c \notin Admitted' /\ CallFits(c)'
  BY DEF Counting, Owning, Makes, Admitted, CallFits
<1>4. HandlesAreOwned' /\ Tallied'
  BY <1>1, <1>2, <1>3, QuietBooks
<1>5. \A d \in Workers : d # c => pc'[d] = pc[d] /\ pc'[d] \notin {"drain"} \union Counting
  BY <1>1, CloserIsAlone DEF OnlyMoved
<1>6. LocksExclude'
  <2>1. \A d \in Workers : ~Makes(d)'
    <3> SUFFICES ASSUME NEW d \in Workers, Makes(d)' PROVE FALSE
      OBVIOUS
    <3>1. d # c /\ Makes(d)
      BY <1>3 DEF OnlyMoved, Makes
    <3> QED BY <1>1, <3>1 DEF LocksExclude
  <2> QED BY <1>5, <2>1 DEF LocksExclude, Counting
<1>7. \A d \in Workers : CallFits(d)'
  BY <1>1, <1>3, FitsMove
<1>8. ClosedIsEmpty'
  <2>1. \A d \in Workers : Found(d)'
    BY <1>5 DEF Found, Counting
  <2> QED BY <2>1 DEF ClosedIsEmpty
<1> QED BY <1>2, <1>4, <1>6, <1>7, <1>8 DEF DInv

LEMMA CountChildrenHolds ==
  ASSUME Dev!DeviceAssumption, DInv, NEW c \in Workers, Dev!CountChildren(c)
  PROVE  DInv'
<1>1. /\ Dev!TypeOK /\ LocksExclude /\ CallsTyped /\ LocksTyped /\ ChildrenTyped /\ HandleTyped /\ ClosedIsEmpty
  BY TypesSplit DEF DInv
<1>2. /\ pc[c] = "drain" /\ readers = {} /\ found' = Dev!Counted
      /\ idx' = [idx EXCEPT ![c] = 1] /\ pc' = [pc EXCEPT ![c] = "countset"]
      /\ UNCHANGED <<readers, writer, setMu, doing, arg, pools, graphs, plain, live, blocks, implicitBlocks, handle,
                     driver, open, backendOpen>>
  BY DEF Dev!CountChildren, Dev!At, Dev!Go, Dev!locks, Dev!children, Dev!memory
<1>3. "countset" \in Dev!Pcs /\ 1 \in Nat
  BY DEF Dev!Pcs
<1>4. CallsTyped' /\ OnlyMoved(c) /\ pc'[c] = "countset" /\ idx'[c] = 1
  BY <1>1, <1>2, <1>3 DEF CallsTyped, OnlyMoved
<1>5. LocksTyped' /\ open' \in BOOLEAN /\ backendOpen' \in BOOLEAN
  BY <1>1, <1>2 DEF LocksTyped, HandleTyped
<1>6. writer = c /\ \A d \in Workers : pc[d] \notin Counting
  BY <1>1, <1>2, CloserIsAlone DEF Counting
<1>7. found' = {} => NoChildren
  <2>1. ASSUME found' = {} PROVE plain = 0
    <3>1. {<<"plain", n>> : n \in 1 .. plain} = {}
      BY <1>2, <2>1 DEF Dev!Counted
    <3>2. plain \in Nat
      BY <1>1 DEF ChildrenTyped
    <3>3. ASSUME NEW n \in 1 .. plain PROVE FALSE
      <4>1. <<"plain", n>> \in {<<"plain", k>> : k \in 1 .. plain}
        OBVIOUS
      <4> QED BY <3>1, <4>1
    <3> QED BY <3>2, <3>3
  <2>2. ASSUME found' = {} PROVE pools = {} /\ graphs = {}
    <3>1. {<<"pool", p>> : p \in pools} = {} /\ {<<"graph", g>> : g \in graphs} = {}
      BY <1>2, <2>2 DEF Dev!Counted
    <3>2. ASSUME NEW p \in pools PROVE FALSE
      <4>1. <<"pool", p>> \in {<<"pool", k>> : k \in pools}
        OBVIOUS
      <4> QED BY <3>1, <4>1
    <3>3. ASSUME NEW g \in graphs PROVE FALSE
      <4>1. <<"graph", g>> \in {<<"graph", k>> : k \in graphs}
        OBVIOUS
      <4> QED BY <3>1, <4>1
    <3> QED BY <3>2, <3>3
  <2> QED BY <2>1, <2>2 DEF NoChildren
<1>8. Found(c)'
  <2>1. NoChildren' <=> NoChildren
    BY <1>2 DEF NoChildren
  <2>2. \A i \in 1 .. Len(blocks)' : ~(i < idx'[c])
    BY <1>4
  <2> QED BY <1>4, <1>7, <2>1, <2>2 DEF Found
<1>9. ~open' => driver = {} /\ ~backendOpen'
  BY <1>2, <1>6 DEF ClosedIsEmpty, Counting, DInv
<1> QED BY <1>2, <1>4, <1>5, <1>6, <1>8, <1>9, CloserStep DEF Counting

LEMMA CountBuffersHolds ==
  ASSUME Dev!DeviceAssumption, DInv, NEW c \in Workers, Dev!CountBuffers(c)
  PROVE  DInv'
<1>1. /\ Dev!TypeOK /\ LocksExclude /\ CallsTyped /\ LocksTyped /\ ChildrenTyped /\ HandleTyped /\ Found(c)
      /\ ClosedIsEmpty
  BY TypesSplit DEF DInv, ClosedIsEmpty
<1>2. /\ pc[c] = "countset"
      /\ UNCHANGED <<pools, graphs, plain, live, blocks, implicitBlocks, handle, driver, open, backendOpen>>
  BY DEF Dev!CountBuffers, Dev!At, Dev!children, Dev!memory
<1>3. writer = c /\ readers = {} /\ \A d \in Workers : d # c => pc[d] \notin Counting
  BY <1>1, <1>2, CloserIsAlone DEF Counting
<1>4. open' \in BOOLEAN /\ backendOpen' \in BOOLEAN /\ (~open' => driver = {} /\ ~backendOpen')
  <2>1. \A d \in Workers : pc[d] \notin {"closeset", "backend"}
    BY <1>2, <1>3 DEF Counting
  <2> QED BY <1>1, <1>2, <2>1 DEF HandleTyped, ClosedIsEmpty
<1>5. (NoChildren' <=> NoChildren) /\ Dev!InSet' = Dev!InSet
  BY <1>2 DEF NoChildren, Dev!InSet
<1>6. CASE idx[c] =< Len(blocks)
  <2>1. /\ found' = found \union Dev!BuffersOf(blocks[idx[c]]) /\ idx' = [idx EXCEPT ![c] = @ + 1]
        /\ UNCHANGED <<readers, writer, setMu, pc, doing, arg>>
    BY <1>6 DEF Dev!CountBuffers, Dev!locks
  <2>2. CallsTyped' /\ OnlyMoved(c) /\ pc'[c] = "countset" /\ idx'[c] = idx[c] + 1 /\ idx[c] \in Nat /\ LocksTyped'
    BY <1>1, <1>2, <2>1 DEF CallsTyped, OnlyMoved, LocksTyped
  <2>3. ASSUME found' = {} PROVE NoChildren /\ \A i \in 1 .. Len(blocks) : i < idx[c] + 1 => live[blocks[i]] = 0
    <3>1. found = {} /\ Dev!BuffersOf(blocks[idx[c]]) = {}
      BY <2>1, <2>3
    <3>2. NoChildren /\ \A i \in 1 .. Len(blocks) : i < idx[c] => live[blocks[i]] = 0
      BY <1>1, <1>2, <3>1 DEF Found
    <3>3. ASSUME idx[c] \in 1 .. Len(blocks) PROVE live[blocks[idx[c]]] = 0
      <4> DEFINE n == live[blocks[idx[c]]]
      <4>1. n \in Nat
        BY <1>1, <3>3 DEF ChildrenTyped
      <4>2. ASSUME NEW k \in 1 .. n PROVE FALSE
        <5>1. <<"buffer", <<blocks[idx[c]], k>> >> \in Dev!BuffersOf(blocks[idx[c]])
          BY DEF Dev!BuffersOf
        <5> QED BY <3>1, <5>1
      <4> HIDE DEF n
      <4>3. n = 0
        BY <4>1, <4>2
      <4> QED BY <4>3 DEF n
    <3>4. \A i \in 1 .. Len(blocks) : i < idx[c] + 1 => i < idx[c] \/ i = idx[c]
      BY <2>2
    <3> QED BY <3>2, <3>3, <3>4
  <2>4. Found(c)'
    BY <1>2, <1>5, <2>2, <2>3 DEF Found
  <2> QED BY <1>2, <1>3, <1>4, <2>1, <2>2, <2>4, CloserStep DEF Counting
<1>7. CASE ~(idx[c] =< Len(blocks))
  <2>1. Dev!Continue(c, "decide") /\ UNCHANGED found
    BY <1>7 DEF Dev!CountBuffers
  <2>2. /\ CallsTyped' /\ LocksTyped' /\ OnlyMoved(c) /\ pc'[c] = "decide"
        /\ UNCHANGED <<readers, writer, setMu, doing, arg, idx>>
    BY <1>1, <2>1, Continues DEF Dev!Pcs
  <2>3. \A i \in 1 .. Len(blocks) : i < idx[c]
    <3>1. idx[c] \in Nat /\ Len(blocks) \in Nat
      BY <1>1 DEF CallsTyped, ChildrenTyped
    <3> QED BY <1>7, <3>1
  <2>4. found = {} => NoChildren /\ \A p \in Dev!InSet : live[p] = 0
    BY <1>1, <1>2, <2>3 DEF Found, Dev!InSet
  <2>5. Found(c)'
    BY <1>2, <1>5, <2>1, <2>2, <2>4 DEF Found
  <2> QED BY <1>2, <1>3, <1>4, <2>2, <2>5, CloserStep DEF Counting
<1> QED BY <1>6, <1>7

LEMMA DecideHolds ==
  ASSUME Dev!DeviceAssumption, DInv, NEW c \in Workers, Dev!Decide(c)
  PROVE  DInv'
<1>1. /\ Dev!TypeOK /\ LocksExclude /\ CallsTyped /\ LocksTyped /\ ChildrenTyped /\ HandleTyped /\ Found(c)
      /\ ClosedIsEmpty
  BY TypesSplit DEF DInv, ClosedIsEmpty
<1>2. /\ pc[c] = "decide"
      /\ UNCHANGED <<pools, graphs, plain, live, blocks, implicitBlocks, handle, driver, backendOpen>>
  BY DEF Dev!Decide, Dev!At, Dev!children, Dev!memory
<1>3. writer = c /\ readers = {} /\ \A d \in Workers : d # c => pc[d] \notin Counting
  BY <1>1, <1>2, CloserIsAlone DEF Counting
<1>4. ~open => driver = {} /\ ~backendOpen
  <2>1. \A d \in Workers : pc[d] \notin {"closeset", "backend"}
    BY <1>2, <1>3 DEF Counting
  <2> QED BY <1>1, <2>1 DEF ClosedIsEmpty
<1>5. (NoChildren' <=> NoChildren) /\ Dev!InSet' = Dev!InSet
  BY <1>2 DEF NoChildren, Dev!InSet
<1>6. CASE found # {} \/ ~open
  <2>1. Dev!Return(c) /\ UNCHANGED open
    BY <1>6 DEF Dev!Decide
  <2>2. CallsTyped' /\ LocksTyped' /\ OnlyMoved(c) /\ pc'[c] = "idle" /\ readers' = {}
    BY <1>1, <1>3, <2>1, Returns
  <2>3. Found(c)'
    BY <2>2 DEF Found
  <2>4. open' \in BOOLEAN /\ backendOpen' \in BOOLEAN
    BY <1>1, <1>2, <2>1 DEF HandleTyped
  <2> QED BY <1>2, <1>3, <1>4, <2>1, <2>2, <2>3, <2>4, CloserStep DEF Counting
<1>7. CASE ~(found # {} \/ ~open)
  <2>1. open' = FALSE /\ Dev!Continue(c, "closeset")
    BY <1>7 DEF Dev!Decide
  <2>2. /\ CallsTyped' /\ LocksTyped' /\ OnlyMoved(c) /\ pc'[c] = "closeset"
        /\ UNCHANGED <<readers, writer, setMu, doing, arg, idx>>
    BY <1>1, <2>1, Continues DEF Dev!Pcs
  <2>3. NoChildren /\ \A p \in Dev!InSet : live[p] = 0
    BY <1>1, <1>2, <1>7 DEF Found
  <2>4. Found(c)'
    BY <1>2, <1>5, <2>1, <2>2, <2>3 DEF Found
  <2>5. open' \in BOOLEAN /\ backendOpen' \in BOOLEAN
    BY <1>1, <1>2, <2>1 DEF HandleTyped
  <2> QED BY <1>2, <1>3, <2>1, <2>2, <2>4, <2>5, CloserStep DEF Counting
<1> QED BY <1>6, <1>7

LEMMA CloseBackendHolds ==
  ASSUME Dev!DeviceAssumption, DInv, NEW c \in Workers, Dev!CloseBackend(c)
  PROVE  DInv'
<1>1. Dev!TypeOK /\ LocksExclude /\ HandleTyped /\ Found(c)
  BY TypesSplit DEF DInv, ClosedIsEmpty
<1>2. /\ pc[c] = "backend" /\ Dev!Return(c) /\ backendOpen' = (driver # {})
      /\ UNCHANGED <<pools, graphs, plain, live, blocks, implicitBlocks, handle, driver, open>>
  BY DEF Dev!CloseBackend, Dev!At, Dev!children, Dev!memory
<1>3. readers = {} /\ CallsTyped' /\ LocksTyped' /\ OnlyMoved(c) /\ pc'[c] = "idle" /\ readers' = {}
  BY <1>1, <1>2, CloserIsAlone, Returns DEF Counting
<1>4. driver = {} /\ ~backendOpen' /\ Found(c)' /\ open' \in BOOLEAN /\ backendOpen' \in BOOLEAN
  BY <1>1, <1>2, <1>3 DEF Found, HandleTyped
<1> QED BY <1>2, <1>3, <1>4, CloserStep DEF Counting

LEMMA CloseSetHolds ==
  ASSUME Dev!DeviceAssumption, DInv, NEW c \in Workers, Dev!CloseSet(c)
  PROVE  DInv'
<1>1. /\ Dev!TypeOK /\ LocksExclude /\ CallsTyped /\ LocksTyped /\ ChildrenTyped /\ HandleTyped /\ Found(c)
      /\ HandlesAreOwned /\ Tallied /\ \A d \in Workers : CallFits(d)
  BY TypesSplit DEF DInv, ClosedIsEmpty
<1>2. /\ pc[c] = "closeset" /\ blocks' = <<>> /\ implicitBlocks' = implicitBlocks - Len(blocks)
      /\ UNCHANGED <<pools, graphs, plain, live, open, backendOpen, found>>
  BY DEF Dev!CloseSet, Dev!At, Dev!children, Dev!device
<1>3. /\ writer = c /\ readers = {}
      /\ \A d \in Workers : d # c => pc[d] \notin {"drain"} \union Counting
  BY <1>1, <1>2, CloserIsAlone DEF Counting
<1>4. ~open /\ pools = {} /\ graphs = {} /\ \A p \in Dev!InSet : live[p] = 0
  BY <1>1, <1>2 DEF Found, NoChildren
\* Every block is free, so the call goes on to the backend.
<1>5. /\ driver' = driver \ Dev!InSet
      /\ handle' = [h \in DOMAIN handle |-> IF h \in Dev!InSet THEN "none" ELSE handle[h]]
      /\ Dev!Continue(c, "backend")
  <2> DEFINE freed == {p \in Dev!InSet : live[p] = 0}
  <2>1. freed = Dev!InSet
    BY <1>4
  <2>2. /\ driver' = driver \ freed
        /\ handle' = [h \in DOMAIN handle |-> IF h \in freed THEN "none" ELSE handle[h]]
        /\ IF freed = Dev!InSet THEN Dev!Continue(c, "backend") ELSE Dev!Return(c)
    BY DEF Dev!CloseSet
  <2> HIDE DEF freed
  <2> QED BY <2>1, <2>2
<1>6. /\ CallsTyped' /\ LocksTyped' /\ OnlyMoved(c) /\ pc'[c] = "backend"
      /\ UNCHANGED <<readers, writer, setMu, doing, arg, idx>>
  BY <1>1, <1>5, Continues DEF Dev!Pcs
<1>7. Dev!InSet \subseteq Handles
  BY <1>1 DEF Dev!InSet, ChildrenTyped, Handles
<1>8. Dev!TypeOK'
  <2>1. ChildrenTyped'
    <3>1. blocks' \in Seq(PoolIds) /\ implicitBlocks' \in Int
      BY <1>1, <1>2 DEF ChildrenTyped
    <3>2. handle' \in [Handles -> {"none", "making", "open", "closed"}] /\ driver' \subseteq Handles
      BY <1>1, <1>5 DEF ChildrenTyped
    <3> QED BY <1>1, <1>2, <3>1, <3>2 DEF ChildrenTyped
  <2>2. HandleTyped'
    BY <1>1, <1>2 DEF HandleTyped
  <2> QED BY <1>6, <2>1, <2>2, TypesSplitAfter
\* Nobody has a handle: the makers are gone, and the device has no children to close.
<1>9. \A d \in Workers : ~Makes(d)
  BY <1>1, <1>3 DEF LocksExclude
<1>10. \A h \in Handles, d \in Workers : ~Has(d, h)
  <2> SUFFICES ASSUME NEW h \in Handles, NEW d \in Workers, Has(d, h) PROVE FALSE
    OBVIOUS
  <2>1. InClosing(h)
    BY <1>9 DEF InClosing
  <2> QED BY <1>1, <1>4, <2>1 DEF HandlesAreOwned, Owned
<1>11. \A h \in Handles, d \in Workers : ~Has(d, h)'
  BY <1>2, <1>6, <1>10 DEF OnlyMoved, Has
<1>12. \A h \in Handles : handle[h] \in {"none", "open"} /\ (handle[h] # "none" => h \in Dev!InSet)
  <2> SUFFICES ASSUME NEW h \in Handles PROVE handle[h] \in {"none", "open"} /\ (handle[h] # "none" => h \in Dev!InSet)
    OBVIOUS
  <2>1. ~InMaking(h) /\ ~InClosing(h) /\ Owned(h)
    BY <1>1, <1>10 DEF InMaking, InClosing, HandlesAreOwned
  <2>2. handle[h] \in {"none", "making", "open", "closed"}
    BY <1>1 DEF ChildrenTyped
  <2> QED BY <1>4, <2>1, <2>2 DEF Owned
<1>13. \A h \in Handles : handle'[h] = "none"
  <2>1. \A h \in Handles : handle'[h] = IF h \in Dev!InSet THEN "none" ELSE handle[h]
    BY <1>1, <1>5 DEF ChildrenTyped
  <2> QED BY <1>12, <2>1
<1>14. driver' = {} /\ Dev!InSet' = {}
  <2>1. driver \subseteq Dev!InSet
    BY <1>1, <1>12 DEF HandlesAreOwned, Owned, ChildrenTyped
  <2>2. Dev!InSet' = {}
    BY <1>2 DEF Dev!InSet
  <2> QED BY <1>5, <2>1, <2>2
<1>15. HandlesAreOwned'
  <2> SUFFICES ASSUME NEW h \in Handles PROVE Owned(h)'
    BY DEF HandlesAreOwned
  <2>1. ~InMaking(h)' /\ ~InClosing(h)'
    BY <1>11 DEF InMaking, InClosing
  <2> QED BY <1>2, <1>4, <1>11, <1>13, <1>14, <2>1 DEF Owned
<1>16. Tallied'
  <2>1. Charged = {} /\ Charged' = {}
    <3>1. \A g \in GraphIds : g \notin Dev!InSet
      BY <1>1, Constants DEF Dev!InSet, ChildrenTyped
    <3> QED BY <1>12, <1>13, <3>1 DEF Charged, Handles
  <2>2. Dev!Uncounted' = {} /\ Dev!Overcounted' = {} /\ Admitted' = {}
    <3>1. \A d \in Workers : pc[d] \notin Owning /\ pc[d] \notin {"alloc", "add", "append"}
      BY <1>1, <1>9, <1>10 DEF Owning, Makes, CallFits, Has, Handles
    <3>2. \A d \in Workers : pc'[d] \notin Owning /\ pc'[d] \notin {"alloc", "add", "append"}
      BY <1>6, <3>1 DEF OnlyMoved, Owning
    <3> QED BY <3>2 DEF Dev!Uncounted, Dev!Overcounted, Admitted, Owning
  <2>3. Cardinality({}) = 0
    BY FS_EmptySet
  <2>4. Len(blocks) \in Nat /\ Len(blocks') = 0
    BY <1>1, <1>2 DEF ChildrenTyped
  <2>5. implicitBlocks' = 0
    <3>1. implicitBlocks = Len(blocks) + 0
      BY <1>1, <2>1, <2>3 DEF Tallied, Total
    <3> QED BY <1>2, <2>4, <3>1
  <2>6. Even(0, 0, 0, 0, 0) /\ Total(0, 0, 0)
    BY DEF Even, Total
  <2>7. Fits(0, 0, 0, MaxPools + Cardinality(Workers) - 1)
    <3>1. Cardinality(Workers) \in Nat /\ Cardinality(Workers) # 0 /\ MaxPools \in Nat
      BY Constants, FS_EmptySet, FS_CardinalityType
    <3> QED BY <3>1 DEF Fits
  <2>8. /\ Even(Cardinality(pools'), implicitBlocks', Cardinality(Dev!Uncounted'),
                Cardinality(driver'), Cardinality(Dev!Overcounted'))
        /\ Total(implicitBlocks', Len(blocks'), Cardinality(Charged'))
        /\ Fits(Cardinality(pools'), Len(blocks'), Cardinality(Admitted'), MaxPools + Cardinality(Workers) - 1)
    BY <1>2, <1>4, <1>14, <2>1, <2>2, <2>3, <2>4, <2>5, <2>6, <2>7
  <2> QED BY <2>8 DEF Tallied
<1>17. \A d \in Workers : CallFits(d)'
  <2>1. CallFits(c)'
    BY <1>6 DEF CallFits
  <2> QED BY <1>1, <1>6, <2>1, FitsMove
<1>18. LocksExclude'
  <2>1. ~Makes(c)'
    BY <1>6 DEF Makes
  <2> QED BY <1>1, <1>2, <1>3, <1>6, <2>1, KeepLocks
<1>19. ClosedIsEmpty'
  <2>1. Found(c)'
    BY <1>2, <1>4, <1>6, <1>14 DEF Found
  <2>2. \A d \in Workers : Found(d)'
    BY <1>3, <1>6, <2>1 DEF OnlyMoved, Found, Counting
  <2> QED BY <1>6, <1>14, <2>2 DEF ClosedIsEmpty
<1> QED BY <1>8, <1>15, <1>16, <1>17, <1>18, <1>19 DEF DInv

-----------------------------------------------------------------------------
\* The steps that concern one handle.
LEMMA MoreIs ==
  \A x, S, T : /\ x \in T /\ x \notin S => More(x, T, S) = 1
               /\ x \notin T /\ x \in S => More(x, T, S) = -1
               /\ (x \in T <=> x \in S) => More(x, T, S) = 0
BY DEF More, Mem

LEMMA MakerStep ==
  ASSUME Dev!DeviceAssumption, DInv, NEW c \in Workers, Makes(c), OnlyMoved(c), CallsTyped', LocksTyped', ChildrenTyped',
         Dev!Return(c) \/ (UNCHANGED <<readers, writer>> /\ pc'[c] \notin {"drain"} \union Counting),
         UNCHANGED Dev!device, CallFits(c)', HandlesAreOwned', Tallied'
  PROVE  DInv'
<1>1. Dev!TypeOK /\ LocksExclude /\ HandleTyped /\ \A d \in Workers : CallFits(d)
  BY TypesSplit DEF DInv
<1>2. UNCHANGED <<open, backendOpen, found>>
  BY DEF Dev!device
<1>3. Dev!TypeOK'
  <2>1. HandleTyped'
    BY <1>1, <1>2 DEF HandleTyped
  <2> QED BY <2>1, TypesSplitAfter
<1>4. LocksExclude'
  <2>1. CASE Dev!Return(c)
    BY <1>1, <1>2, <2>1, ReturnLocks
  <2>2. CASE UNCHANGED <<readers, writer>> /\ pc'[c] \notin {"drain"} \union Counting
    BY <1>1, <1>2, <2>2, KeepLocks
  <2> QED BY <2>1, <2>2
<1>5. ClosedIsEmpty'
  <2>1. pc'[c] \notin Counting
    BY <1>1, Returns DEF Counting
  <2> QED BY <1>1, <1>2, <2>1, MakersFindNothing
<1>6. \A d \in Workers : CallFits(d)'
  BY <1>1, FitsMove
<1> QED BY <1>3, <1>4, <1>5, <1>6 DEF DInv

\* A call that closes a child.
LEMMA LeaverStep ==
  ASSUME Dev!DeviceAssumption, DInv, NEW c \in Workers, pc[c] \notin Counting, OnlyMoved(c),
         CallsTyped', LocksTyped', ChildrenTyped',
         Dev!Return(c) \/ (/\ UNCHANGED <<readers, writer>> /\ pc'[c] \notin {"drain"} \union Counting
                           /\ Makes(c)' => Makes(c)),
         UNCHANGED <<Dev!device, blocks, live, plain>>, driver' \subseteq driver,
         pools' \subseteq pools, graphs' \subseteq graphs,
         CallFits(c)', HandlesAreOwned', Tallied'
  PROVE  DInv'
<1>1. Dev!TypeOK /\ LocksExclude /\ HandleTyped /\ ClosedIsEmpty /\ \A d \in Workers : CallFits(d)
  BY TypesSplit DEF DInv
<1>2. UNCHANGED <<open, backendOpen, found>>
  BY DEF Dev!device
<1>3. Dev!TypeOK'
  <2>1. HandleTyped'
    BY <1>1, <1>2 DEF HandleTyped
  <2> QED BY <2>1, TypesSplitAfter
<1>4. LocksExclude'
  <2>1. CASE Dev!Return(c)
    BY <1>1, <1>2, <2>1, ReturnLocks
  <2>2. CASE /\ UNCHANGED <<readers, writer>> /\ pc'[c] \notin {"drain"} \union Counting
             /\ Makes(c)' => Makes(c)
    BY <1>1, <1>2, <2>2, KeepLocks
  <2> QED BY <2>1, <2>2
<1>5. ClosedIsEmpty'
  <2>1. pc'[c] \notin Counting
    BY <1>1, Returns DEF Counting
  <2>2. \A d \in Workers : \/ pc'[d] = pc[d] /\ idx'[d] = idx[d]
                           \/ pc[d] \notin Counting /\ pc'[d] \notin Counting
    BY <2>1 DEF OnlyMoved
  <2>3. NoChildren => NoChildren' /\ \A p \in Dev!InSet : live[p] = 0 => live'[p] = 0
    BY DEF NoChildren
  <2> QED BY <1>1, <1>2, <2>2, <2>3, FindingsStay
<1>6. \A d \in Workers : CallFits(d)'
  BY <1>1, FitsMove
<1> QED BY <1>3, <1>4, <1>5, <1>6 DEF DInv

LEMMA AllocHolds ==
  ASSUME Dev!DeviceAssumption, DInv, NEW c \in Workers, Dev!Alloc(c)
  PROVE  DInv'
<1>1. /\ Dev!TypeOK /\ LocksExclude /\ CallsTyped /\ LocksTyped /\ ChildrenTyped
      /\ HandlesAreOwned /\ Tallied
  BY TypesSplit DEF DInv
<1>2. /\ pc[c] = "alloc" /\ doing[c] \in {"NewPool", "NewBuffer", "Build"}
      /\ UNCHANGED <<pools, graphs, plain, live, blocks, implicitBlocks, Dev!device>>
  BY DEF Dev!Alloc, Dev!At, Dev!children, DInv, CallFits
<1>3. Away(c) /\ Makes(c) /\ plain' \in Nat /\ live' \in [PoolIds -> Nat]
  BY <1>1, <1>2 DEF Away, Owning, Counting, Makes, ChildrenTyped
<1>4. CASE Dev!Return(c) /\ UNCHANGED <<handle, driver>>
  BY <1>2, <1>3, <1>4, QuietReturn DEF Dev!memory
<1>5. ASSUME NEW h \in IF doing[c] = "Build" THEN GraphIds ELSE PoolIds,
             handle[h] = "none", handle' = [handle EXCEPT ![h] = "making"], driver' = driver \union {h},
             arg' = [arg EXCEPT ![c] = h], pc' = [pc EXCEPT ![c] = Dev!Keeping[doing[c]]],
             UNCHANGED <<readers, writer, setMu, doing, idx>>
      PROVE  DInv'
  <2> DEFINE to == Dev!Keeping[doing[c]]
  <2>1. /\ doing[c] = "NewPool" => to = "add"
        /\ doing[c] = "NewBuffer" => to = "append"
        /\ doing[c] = "Build" => to = "count"
    BY DEF Dev!Keeping
  <2>2. to \in {"add", "append", "count"} /\ to \in Dev!Pcs
    BY <1>2, <2>1 DEF Dev!Pcs
  <2>3. pc' = [pc EXCEPT ![c] = to]
    BY <1>5
  <2> HIDE DEF to
  <2>4. /\ h \in Handles /\ (doing[c] = "Build" => h \in GraphIds /\ h \notin PoolIds)
        /\ (doing[c] # "Build" => h \in PoolIds /\ h \notin GraphIds)
    BY Constants DEF Handles
  <2>5. /\ CallsTyped' /\ OnlyMoved(c) /\ LocksTyped' /\ pc'[c] = to /\ arg'[c] = h /\ doing'[c] = doing[c]
    BY <1>1, <1>5, <2>2, <2>3, <2>4 DEF CallsTyped, OnlyMoved, LocksTyped
  <2>6. ChildrenTyped' /\ handle'[h] = "making" /\ \A k \in Handles : k # h => handle'[k] = handle[k]
    BY <1>1, <1>2, <1>5, <2>4 DEF ChildrenTyped
  <2>7. /\ \A d \in Workers : d # c => ~Has(d, h) /\ ~Has(d, h)'
        /\ InMaking(h)' <=> (Has(c, h) /\ Makes(c))'
        /\ InClosing(h)' <=> (Has(c, h) /\ ~Makes(c))'
    BY <1>1, <1>5, <2>4, <2>5, HandedOn DEF HandlesAreOwned
  <2>8. Has(c, h)' /\ Makes(c)' /\ ~Has(c, h) /\ pc'[c] \notin {"leave", "uncount"}
    BY <1>2, <2>2, <2>5 DEF Has, Makes
  <2>9. h \notin pools /\ h \notin graphs /\ h \notin Dev!InSet /\ h \notin driver /\ Dev!InSet' = Dev!InSet
    BY <1>1, <1>2, <1>5, <2>4 DEF HandlesAreOwned, Owned, Dev!InSet
  <2>10. Owned(h)'
    BY <1>2, <1>5, <2>6, <2>7, <2>8, <2>9 DEF Owned
  <2>11. \A k \in Handles \ {h} : Untouched(c, k)
    <3>1. \A k \in Handles \ {h} : ~Has(c, k) /\ ~Has(c, k)'
      BY <1>2, <2>5 DEF Has
    <3> QED BY <1>2, <1>5, <2>6, <2>9, <3>1 DEF Untouched
  <2>12. HandlesAreOwned'
    BY <1>1, <2>5, <2>10, <2>11, OwnedMoves
  <2>13. Dev!TypeOK'
    <3>1. HandleTyped'
      BY <1>1, <1>2 DEF HandleTyped, Dev!TypeOK, Dev!device
    <3> QED BY <2>5, <2>6, <3>1, TypesSplitAfter
  <2>14. Tallied'
    <3>1. h \notin Charged /\ h \notin Charged'
      BY <1>5, <2>1, <2>4, <2>5, <2>8 DEF Charged
    <3>2. /\ c \in Dev!Uncounted' /\ c \notin Dev!Uncounted
          /\ c \notin Dev!Overcounted' /\ c \notin Dev!Overcounted
      BY <1>2, <2>2, <2>5 DEF Dev!Uncounted, Dev!Overcounted
    <3>3. c \in Admitted' <=> c \in Admitted
      BY <1>2, <2>1, <2>5 DEF Admitted
    <3>4. /\ More(h, pools', pools) = 0 /\ More(h, driver', driver) = 1 /\ More(h, Charged', Charged) = 0
          /\ More(c, Dev!Uncounted', Dev!Uncounted) = 1 /\ More(c, Dev!Overcounted', Dev!Overcounted) = 0
          /\ More(c, Admitted', Admitted) = 0
      BY <1>2, <1>5, <2>9, <3>1, <3>2, <3>3, MoreIs
    <3>5. Even(0, 0, 1, 1, 0) /\ Total(0, 0, 0) /\ Fits(0, 0, 0, 0)
      BY DEF Even, Total, Fits
    <3>6. implicitBlocks' = implicitBlocks + 0 /\ Len(blocks') = Len(blocks) + 0 /\ 0 \in Int /\ 0 \in Nat
      BY <1>1, <1>2 DEF ChildrenTyped
    <3>7. /\ Even(More(h, pools', pools), 0, More(c, Dev!Uncounted', Dev!Uncounted),
                  More(h, driver', driver), More(c, Dev!Overcounted', Dev!Overcounted))
          /\ Total(0, 0, More(h, Charged', Charged))
          /\ Fits(More(h, pools', pools), 0, More(c, Admitted', Admitted), 0)
      BY <3>4, <3>5
    <3> QED BY <1>1, <2>4, <2>5, <2>11, <2>13, <3>6, <3>7, TallyMoves
  <2>15. CallFits(c)'
    BY <1>2, <2>1, <2>2, <2>4, <2>5 DEF CallFits
  <2> QED BY <1>2, <1>3, <1>5, <2>2, <2>5, <2>6, <2>12, <2>14, <2>15, MakerStep DEF Counting
<1> QED BY <1>4, <1>5 DEF Dev!Alloc, Dev!Go, Dev!locks

\* What a call knows of the handle it has in hand.
LEMMA InHand ==
  ASSUME DInv, NEW c \in Workers, pc[c] \in Owning
  PROVE  /\ arg[c] \in Handles /\ Has(c, arg[c]) /\ Owned(arg[c])
         /\ \A k \in Handles \ {arg[c]} : ~Has(c, k)
         /\ arg[c] \notin Dev!InSet
         /\ Makes(c) => handle[arg[c]] = "making" /\ arg[c] \notin pools /\ arg[c] \notin graphs
         /\ ~Makes(c) => handle[arg[c]] = "closed" /\ arg[c] \in pools \union graphs
         /\ arg[c] \in driver <=> pc[c] \notin {"leave", "uncount"}
<1>1. arg[c] \in Handles
  BY DEF DInv, CallFits, Owning, Handles
<1>2. Has(c, arg[c]) /\ Owned(arg[c]) /\ \A k \in Handles \ {arg[c]} : ~Has(c, k)
  BY <1>1 DEF Has, Owning, DInv, HandlesAreOwned
<1>3. (Makes(c) => InMaking(arg[c])) /\ (~Makes(c) => InClosing(arg[c]))
  BY <1>2 DEF InMaking, InClosing
<1>4. (Makes(c) => handle[arg[c]] = "making") /\ (~Makes(c) => handle[arg[c]] = "closed" /\ arg[c] \in pools \union graphs)
  BY <1>2, <1>3 DEF Owned
<1>5. \A d \in Workers : Has(d, arg[c]) => d = c
  BY <1>2 DEF Owned
<1>6. arg[c] \in driver <=> pc[c] \notin {"leave", "uncount"}
  BY <1>2, <1>4, <1>5 DEF Owned
<1> QED BY <1>1, <1>2, <1>4, <1>6 DEF Owned

LEMMA AddPoolHolds ==
  ASSUME Dev!DeviceAssumption, DInv, NEW c \in Workers, Dev!AddPool(c)
  PROVE  DInv'
<1>0. PICK h : h = arg[c]
  OBVIOUS
<1>1. /\ Dev!TypeOK /\ LocksExclude /\ ChildrenTyped /\ HandleTyped /\ HandlesAreOwned /\ Tallied
  BY TypesSplit DEF DInv
<1>2. /\ pc[c] = "add" /\ doing[c] = "NewPool" /\ h \in PoolIds /\ Dev!Return(c)
      /\ pools' = pools \union {h} /\ handle' = [handle EXCEPT ![h] = "open"]
      /\ UNCHANGED <<graphs, plain, live, blocks, implicitBlocks, driver, open, backendOpen, Dev!device>>
  BY <1>0 DEF Dev!AddPool, Dev!At, Dev!device, DInv, CallFits
<1>3. h \in Handles /\ h \notin GraphIds /\ Makes(c)
  BY <1>2, Constants DEF Handles, Makes
<1>4. /\ Has(c, h) /\ Owned(h) /\ (\A k \in Handles \ {h} : ~Has(c, k)) /\ h \notin Dev!InSet
      /\ handle[h] = "making" /\ h \notin pools /\ h \notin graphs /\ h \in driver
  BY <1>0, <1>2, <1>3, InHand DEF Owning
<1>5. /\ CallsTyped' /\ LocksTyped' /\ OnlyMoved(c) /\ pc'[c] = "idle"
  BY <1>1, <1>2, Returns
<1>6. ChildrenTyped' /\ HandleTyped' /\ handle'[h] = "open" /\ \A k \in Handles : k # h => handle'[k] = handle[k]
  BY <1>1, <1>2, <1>3 DEF ChildrenTyped, HandleTyped
<1>7. \A k : ~Has(c, k)'
  BY <1>5 DEF Has
<1>8. Owned(h)'
  <2>1. (\A d \in Workers : ~Has(d, h)') /\ ~InMaking(h)' /\ ~InClosing(h)'
    BY <1>3, <1>4, <1>5, <1>7, HandedOn
  <2>2. Dev!InSet' = Dev!InSet
    BY <1>2 DEF Dev!InSet
  <2> QED BY <1>2, <1>4, <1>6, <2>1, <2>2 DEF Owned
<1>9. \A k \in Handles \ {h} : Untouched(c, k)
  BY <1>2, <1>4, <1>6, <1>7 DEF Untouched, Dev!InSet
<1>10. HandlesAreOwned'
  BY <1>1, <1>5, <1>8, <1>9, OwnedMoves
<1>11. Tallied'
  <2>1. h \notin Charged /\ h \notin Charged'
    BY <1>3 DEF Charged
  <2>2. /\ c \in Dev!Uncounted /\ c \notin Dev!Uncounted' /\ c \notin Dev!Overcounted /\ c \notin Dev!Overcounted'
        /\ c \in Admitted /\ c \notin Admitted'
    BY <1>2, <1>5 DEF Dev!Uncounted, Dev!Overcounted, Admitted
  <2>3. /\ More(h, pools', pools) = 1 /\ More(h, driver', driver) = 0 /\ More(h, Charged', Charged) = 0
        /\ More(c, Dev!Uncounted', Dev!Uncounted) = -1 /\ More(c, Dev!Overcounted', Dev!Overcounted) = 0
        /\ More(c, Admitted', Admitted) = -1
    BY <1>2, <1>4, <2>1, <2>2, MoreIs
  <2>4. Even(1, 0, -1, 0, 0) /\ Total(0, 0, 0) /\ Fits(1, 0, -1, 0)
    BY DEF Even, Total, Fits
  <2>5. /\ Even(More(h, pools', pools), 0, More(c, Dev!Uncounted', Dev!Uncounted),
                More(h, driver', driver), More(c, Dev!Overcounted', Dev!Overcounted))
        /\ Total(0, 0, More(h, Charged', Charged))
        /\ Fits(More(h, pools', pools), 0, More(c, Admitted', Admitted), 0)
    BY <2>3, <2>4
  <2>6. implicitBlocks' = implicitBlocks + 0 /\ Len(blocks') = Len(blocks) + 0 /\ 0 \in Int /\ 0 \in Nat
    BY <1>1, <1>2 DEF ChildrenTyped
  <2>7. Dev!TypeOK'
    BY <1>5, <1>6, TypesSplitAfter
  <2> QED BY <1>1, <1>3, <1>5, <1>9, <2>5, <2>6, <2>7, TallyMoves
<1>12. CallFits(c)'
  BY <1>5 DEF CallFits
<1> QED BY <1>2, <1>3, <1>5, <1>6, <1>10, <1>11, <1>12, MakerStep

LEMMA SetGrows ==
  ASSUME blocks \in Seq(PoolIds), NEW h \in PoolIds, blocks' = Append(blocks, h)
  PROVE  Dev!InSet' = Dev!InSet \union {h} /\ Len(blocks') = Len(blocks) + 1
<1>1. /\ Len(blocks) \in Nat /\ Len(blocks') = Len(blocks) + 1
      /\ blocks'[Len(blocks) + 1] = h /\ \A i \in 1 .. Len(blocks) : blocks'[i] = blocks[i]
  OBVIOUS
<1>2. \A i \in 1 .. Len(blocks') : i \in 1 .. Len(blocks) \/ i = Len(blocks) + 1
  BY <1>1
<1>3. \A i \in 1 .. Len(blocks) : i \in 1 .. Len(blocks')
  BY <1>1
<1>4. Len(blocks) + 1 \in 1 .. Len(blocks')
  BY <1>1
<1> QED BY <1>1, <1>2, <1>3, <1>4 DEF Dev!InSet

LEMMA AppendBlockHolds ==
  ASSUME Dev!DeviceAssumption, DInv, NEW c \in Workers, Dev!AppendBlock(c)
  PROVE  DInv'
<1>0. PICK h : h = arg[c]
  OBVIOUS
<1>1. /\ Dev!TypeOK /\ LocksExclude /\ ChildrenTyped /\ HandleTyped /\ HandlesAreOwned /\ Tallied
  BY TypesSplit DEF DInv
<1>2. /\ pc[c] = "append" /\ doing[c] = "NewBuffer" /\ h \in PoolIds /\ Dev!Continue(c, "first")
      /\ blocks' = Append(blocks, h) /\ implicitBlocks' = implicitBlocks + 1 /\ handle' = [handle EXCEPT ![h] = "open"]
      /\ UNCHANGED <<pools, graphs, plain, live, driver, open, backendOpen, Dev!device>>
  BY <1>0 DEF Dev!AppendBlock, Dev!At, Dev!children, Dev!device, DInv, CallFits
<1>3. h \in Handles /\ h \notin GraphIds /\ Makes(c)
  BY <1>2, Constants DEF Handles, Makes
<1>4. /\ Has(c, h) /\ Owned(h) /\ (\A k \in Handles \ {h} : ~Has(c, k)) /\ h \notin Dev!InSet
      /\ handle[h] = "making" /\ h \notin pools /\ h \notin graphs /\ h \in driver
  BY <1>0, <1>2, <1>3, InHand DEF Owning
<1>5. /\ CallsTyped' /\ LocksTyped' /\ OnlyMoved(c) /\ pc'[c] = "first"
      /\ UNCHANGED <<readers, writer, setMu, doing, arg, idx>> /\ arg'[c] = h
  BY <1>0, <1>1, <1>2, Continues DEF Dev!Pcs
<1>6. /\ ChildrenTyped' /\ HandleTyped' /\ handle'[h] = "open" /\ \A k \in Handles : k # h => handle'[k] = handle[k]
  BY <1>1, <1>2, <1>3 DEF ChildrenTyped, HandleTyped
<1>7. \A k : ~Has(c, k)'
  BY <1>5 DEF Has
<1>8. Len(blocks') = Len(blocks) + 1 /\ Dev!InSet' = Dev!InSet \union {h}
  BY <1>1, <1>2, SetGrows DEF ChildrenTyped
<1>9. Owned(h)'
  <2>1. (\A d \in Workers : ~Has(d, h)') /\ ~InMaking(h)' /\ ~InClosing(h)'
    BY <1>3, <1>4, <1>5, <1>7, HandedOn
  <2> QED BY <1>2, <1>4, <1>6, <1>8, <2>1 DEF Owned
<1>10. \A k \in Handles \ {h} : Untouched(c, k)
  BY <1>2, <1>4, <1>6, <1>7, <1>8 DEF Untouched
<1>11. HandlesAreOwned'
  BY <1>1, <1>5, <1>9, <1>10, OwnedMoves
<1>12. Tallied'
  <2>1. h \notin Charged /\ h \notin Charged'
    BY <1>3 DEF Charged
  <2>2. /\ c \in Dev!Uncounted /\ c \notin Dev!Uncounted' /\ c \notin Dev!Overcounted /\ c \notin Dev!Overcounted'
        /\ c \in Admitted /\ c \notin Admitted'
    BY <1>2, <1>5 DEF Dev!Uncounted, Dev!Overcounted, Admitted
  <2>3. /\ More(h, pools', pools) = 0 /\ More(h, driver', driver) = 0 /\ More(h, Charged', Charged) = 0
        /\ More(c, Dev!Uncounted', Dev!Uncounted) = -1 /\ More(c, Dev!Overcounted', Dev!Overcounted) = 0
        /\ More(c, Admitted', Admitted) = -1
    BY <1>2, <1>4, <2>1, <2>2, MoreIs
  <2>4. Even(0, 1, -1, 0, 0) /\ Total(1, 1, 0) /\ Fits(0, 1, -1, 0)
    BY DEF Even, Total, Fits
  <2>5. /\ Even(More(h, pools', pools), 1, More(c, Dev!Uncounted', Dev!Uncounted),
                More(h, driver', driver), More(c, Dev!Overcounted', Dev!Overcounted))
        /\ Total(1, 1, More(h, Charged', Charged))
        /\ Fits(More(h, pools', pools), 1, More(c, Admitted', Admitted), 0)
    BY <2>3, <2>4
  <2>6. 1 \in Int /\ 1 \in Nat
    OBVIOUS
  <2>7. Dev!TypeOK'
    BY <1>5, <1>6, TypesSplitAfter
  <2> QED BY <1>1, <1>2, <1>3, <1>5, <1>8, <1>10, <2>5, <2>6, <2>7, TallyMoves
<1>13. CallFits(c)'
  BY <1>2, <1>5 DEF CallFits
<1> QED BY <1>2, <1>3, <1>5, <1>6, <1>11, <1>12, <1>13, MakerStep DEF Counting

LEMMA CountGraphBlockHolds ==
  ASSUME Dev!DeviceAssumption, DInv, NEW c \in Workers, Dev!CountGraphBlock(c)
  PROVE  DInv'
<1>0. PICK h : h = arg[c]
  OBVIOUS
<1>1. /\ Dev!TypeOK /\ LocksExclude /\ ChildrenTyped /\ HandleTyped /\ HandlesAreOwned /\ Tallied
  BY TypesSplit DEF DInv
<1>2. /\ pc[c] = "count" /\ doing[c] = "Build" /\ h \in GraphIds /\ Dev!Continue(c, "lower")
      /\ implicitBlocks' = implicitBlocks + 1
      /\ UNCHANGED <<pools, graphs, plain, live, blocks, handle, driver, open, backendOpen, Dev!device>>
  BY <1>0 DEF Dev!CountGraphBlock, Dev!At, Dev!children, Dev!device, DInv, CallFits
<1>3. h \in Handles /\ Makes(c)
  BY <1>2 DEF Handles, Makes
<1>4. /\ Has(c, h) /\ Owned(h) /\ (\A k \in Handles \ {h} : ~Has(c, k)) /\ h \notin Dev!InSet
      /\ handle[h] = "making" /\ h \notin pools /\ h \notin graphs /\ h \in driver
  BY <1>0, <1>2, <1>3, InHand DEF Owning
<1>5. /\ CallsTyped' /\ LocksTyped' /\ OnlyMoved(c) /\ pc'[c] = "lower"
      /\ UNCHANGED <<readers, writer, setMu, doing, arg, idx>> /\ arg'[c] = h /\ doing'[c] = "Build"
  BY <1>0, <1>1, <1>2, Continues DEF Dev!Pcs
<1>6. ChildrenTyped' /\ HandleTyped' /\ Dev!InSet' = Dev!InSet
  BY <1>1, <1>2 DEF ChildrenTyped, HandleTyped, Dev!InSet
<1>7. Has(c, h)' /\ Makes(c)' /\ \A k \in Handles \ {h} : ~Has(c, k)'
  BY <1>5 DEF Has, Makes
<1>8. \A d \in Workers : d # c => ~Has(d, h) /\ ~Has(d, h)'
  BY <1>3, <1>4, <1>5, HandedOn
<1>9. Owned(h)'
  <2>1. InMaking(h)' /\ ~InClosing(h)'
    BY <1>3, <1>4, <1>5, <1>7, HandedOn
  <2> QED BY <1>2, <1>4, <1>5, <1>6, <1>8, <2>1 DEF Owned
<1>10. \A k \in Handles \ {h} : Untouched(c, k)
  BY <1>2, <1>4, <1>6, <1>7 DEF Untouched
<1>11. HandlesAreOwned'
  BY <1>1, <1>5, <1>9, <1>10, OwnedMoves
<1>12. Tallied'
  <2>1. h \notin Charged /\ h \in Charged'
    BY <1>2, <1>4, <1>5, <1>8 DEF Charged
  <2>2. /\ c \in Dev!Uncounted /\ c \notin Dev!Uncounted' /\ c \notin Dev!Overcounted /\ c \notin Dev!Overcounted'
        /\ c \notin Admitted /\ c \notin Admitted'
    BY <1>2, <1>5 DEF Dev!Uncounted, Dev!Overcounted, Admitted
  <2>3. /\ More(h, pools', pools) = 0 /\ More(h, driver', driver) = 0 /\ More(h, Charged', Charged) = 1
        /\ More(c, Dev!Uncounted', Dev!Uncounted) = -1 /\ More(c, Dev!Overcounted', Dev!Overcounted) = 0
        /\ More(c, Admitted', Admitted) = 0
    BY <1>2, <2>1, <2>2, MoreIs
  <2>4. Even(0, 1, -1, 0, 0) /\ Total(1, 0, 1) /\ Fits(0, 0, 0, 0)
    BY DEF Even, Total, Fits
  <2>5. /\ Even(More(h, pools', pools), 1, More(c, Dev!Uncounted', Dev!Uncounted),
                More(h, driver', driver), More(c, Dev!Overcounted', Dev!Overcounted))
        /\ Total(1, 0, More(h, Charged', Charged))
        /\ Fits(More(h, pools', pools), 0, More(c, Admitted', Admitted), 0)
    BY <2>3, <2>4
  <2>6. Len(blocks') = Len(blocks) + 0 /\ 1 \in Int /\ 0 \in Nat
    BY <1>1, <1>2 DEF ChildrenTyped
  <2>7. Dev!TypeOK'
    BY <1>5, <1>6, TypesSplitAfter
  <2> QED BY <1>1, <1>2, <1>3, <1>5, <1>10, <2>5, <2>6, <2>7, TallyMoves
<1>13. CallFits(c)'
  BY <1>2, <1>5 DEF CallFits
<1> QED BY <1>2, <1>3, <1>5, <1>6, <1>11, <1>12, <1>13, MakerStep DEF Counting

LEMMA LowerHolds ==
  ASSUME Dev!DeviceAssumption, DInv, NEW c \in Workers, Dev!Lower(c)
  PROVE  DInv'
<1>0. PICK h : h = arg[c]
  OBVIOUS
<1>1. /\ Dev!TypeOK /\ LocksExclude /\ ChildrenTyped /\ HandleTyped /\ HandlesAreOwned /\ Tallied
  BY TypesSplit DEF DInv
<1>2. /\ pc[c] = "lower" /\ doing[c] = "Build" /\ h \in GraphIds
      /\ UNCHANGED <<pools, plain, live, blocks, implicitBlocks, open, backendOpen, Dev!device>>
  BY <1>0 DEF Dev!Lower, Dev!At, Dev!device, DInv, CallFits
<1>3. h \in Handles /\ Makes(c)
  BY <1>2 DEF Handles, Makes
<1>4. /\ Has(c, h) /\ Owned(h) /\ (\A k \in Handles \ {h} : ~Has(c, k)) /\ h \notin Dev!InSet
      /\ handle[h] = "making" /\ h \notin pools /\ h \notin graphs /\ h \in driver
  BY <1>0, <1>2, <1>3, InHand DEF Owning
<1>5. /\ c \notin Dev!Uncounted /\ c \notin Dev!Overcounted /\ c \notin Admitted
      /\ Dev!InSet' = Dev!InSet
      /\ implicitBlocks' = implicitBlocks + 0 /\ Len(blocks') = Len(blocks) + 0 /\ 0 \in Int /\ 0 \in Nat
  BY <1>1, <1>2 DEF Dev!Uncounted, Dev!Overcounted, Admitted, Dev!InSet, ChildrenTyped
\* The graph is counted.
<1>6. ASSUME graphs' = graphs \union {h}, handle' = [handle EXCEPT ![h] = "open"], Dev!Return(c), UNCHANGED driver
      PROVE  DInv'
  <2>1. /\ CallsTyped' /\ LocksTyped' /\ OnlyMoved(c) /\ pc'[c] = "idle"
    BY <1>1, <1>6, Returns
  <2>2. ChildrenTyped' /\ HandleTyped' /\ handle'[h] = "open" /\ \A k \in Handles : k # h => handle'[k] = handle[k]
    BY <1>1, <1>2, <1>3, <1>6 DEF ChildrenTyped, HandleTyped
  <2>3. \A k : ~Has(c, k)'
    BY <2>1 DEF Has
  <2>4. /\ \A d \in Workers : d # c => ~Has(d, h) /\ ~Has(d, h)'
        /\ ~InMaking(h)' /\ ~InClosing(h)'
    BY <1>3, <1>4, <2>1, <2>3, HandedOn
  <2>5. \A d \in Workers : ~Has(d, h)'
    BY <2>3, <2>4
  <2>6. Owned(h)'
    BY <1>2, <1>4, <1>5, <1>6, <2>2, <2>4, <2>5 DEF Owned
  <2>7. \A k \in Handles \ {h} : Untouched(c, k)
    BY <1>2, <1>4, <1>5, <1>6, <2>2, <2>3 DEF Untouched
  <2>8. HandlesAreOwned'
    BY <1>1, <2>1, <2>6, <2>7, OwnedMoves
  <2>9. Tallied'
    <3>1. h \in Charged /\ h \in Charged'
      BY <1>2, <1>4, <2>2, <2>4, <2>5 DEF Charged
    <3>2. c \notin Dev!Uncounted' /\ c \notin Dev!Overcounted' /\ c \notin Admitted'
      BY <2>1 DEF Dev!Uncounted, Dev!Overcounted, Admitted
    <3>3. /\ More(h, pools', pools) = 0 /\ More(h, driver', driver) = 0 /\ More(h, Charged', Charged) = 0
          /\ More(c, Dev!Uncounted', Dev!Uncounted) = 0 /\ More(c, Dev!Overcounted', Dev!Overcounted) = 0
          /\ More(c, Admitted', Admitted) = 0
      BY <1>2, <1>5, <1>6, <3>1, <3>2, MoreIs
    <3>4. Even(0, 0, 0, 0, 0) /\ Total(0, 0, 0) /\ Fits(0, 0, 0, 0)
      BY DEF Even, Total, Fits
    <3>5. /\ Even(More(h, pools', pools), 0, More(c, Dev!Uncounted', Dev!Uncounted),
                  More(h, driver', driver), More(c, Dev!Overcounted', Dev!Overcounted))
          /\ Total(0, 0, More(h, Charged', Charged))
          /\ Fits(More(h, pools', pools), 0, More(c, Admitted', Admitted), 0)
      BY <3>3, <3>4
    <3>6. Dev!TypeOK'
      BY <2>1, <2>2, TypesSplitAfter
    <3> QED BY <1>1, <1>3, <1>5, <2>1, <2>7, <3>5, <3>6, TallyMoves
  <2>10. CallFits(c)'
    BY <2>1 DEF CallFits
  <2> QED BY <1>2, <1>3, <1>6, <2>1, <2>2, <2>8, <2>9, <2>10, MakerStep
\* The memory is freed, and counted until the next step.
<1>7. ASSUME driver' = driver \ {h}, Dev!Continue(c, "uncount"), UNCHANGED <<graphs, handle>>
      PROVE  DInv'
  <2>1. /\ CallsTyped' /\ LocksTyped' /\ OnlyMoved(c) /\ pc'[c] = "uncount"
        /\ UNCHANGED <<readers, writer, setMu, doing, arg, idx>> /\ arg'[c] = h /\ doing'[c] = "Build"
    BY <1>0, <1>1, <1>2, <1>7, Continues DEF Dev!Pcs
  <2>2. ChildrenTyped' /\ HandleTyped'
    BY <1>1, <1>2, <1>7 DEF ChildrenTyped, HandleTyped
  <2>3. Has(c, h)' /\ Makes(c)' /\ \A k \in Handles \ {h} : ~Has(c, k)'
    BY <2>1 DEF Has, Makes
  <2>4. /\ \A d \in Workers : d # c => ~Has(d, h) /\ ~Has(d, h)'
        /\ InMaking(h)' /\ ~InClosing(h)'
    BY <1>3, <1>4, <2>1, <2>3, HandedOn
  <2>5. Owned(h)'
    BY <1>2, <1>4, <1>5, <1>7, <2>1, <2>3, <2>4 DEF Owned
  <2>6. \A k \in Handles \ {h} : Untouched(c, k)
    BY <1>2, <1>4, <1>5, <1>7, <2>3 DEF Untouched
  <2>7. HandlesAreOwned'
    BY <1>1, <2>1, <2>5, <2>6, OwnedMoves
  <2>8. Tallied'
    <3>1. h \in Charged /\ h \in Charged'
      BY <1>2, <1>4, <1>7, <2>1, <2>4 DEF Charged
    <3>2. c \notin Dev!Uncounted' /\ c \in Dev!Overcounted' /\ c \notin Admitted'
      BY <2>1 DEF Dev!Uncounted, Dev!Overcounted, Admitted
    <3>3. /\ More(h, pools', pools) = 0 /\ More(h, driver', driver) = -1 /\ More(h, Charged', Charged) = 0
          /\ More(c, Dev!Uncounted', Dev!Uncounted) = 0 /\ More(c, Dev!Overcounted', Dev!Overcounted) = 1
          /\ More(c, Admitted', Admitted) = 0
      BY <1>2, <1>4, <1>5, <1>7, <3>1, <3>2, MoreIs
    <3>4. Even(0, 0, 0, -1, 1) /\ Total(0, 0, 0) /\ Fits(0, 0, 0, 0)
      BY DEF Even, Total, Fits
    <3>5. /\ Even(More(h, pools', pools), 0, More(c, Dev!Uncounted', Dev!Uncounted),
                  More(h, driver', driver), More(c, Dev!Overcounted', Dev!Overcounted))
          /\ Total(0, 0, More(h, Charged', Charged))
          /\ Fits(More(h, pools', pools), 0, More(c, Admitted', Admitted), 0)
      BY <3>3, <3>4
    <3>6. Dev!TypeOK'
      BY <2>1, <2>2, TypesSplitAfter
    <3> QED BY <1>1, <1>3, <1>5, <2>1, <2>6, <3>5, <3>6, TallyMoves
  <2>9. CallFits(c)'
    BY <1>2, <2>1 DEF CallFits
  <2> QED BY <1>2, <1>3, <2>1, <2>2, <2>7, <2>8, <2>9, MakerStep DEF Counting
<1> QED BY <1>0, <1>6, <1>7 DEF Dev!Lower

LEMMA MarkClosedHolds ==
  ASSUME Dev!DeviceAssumption, DInv, NEW c \in Workers, NEW h \in Handles, Dev!MarkClosed(c, h)
  PROVE  DInv'
<1>1. /\ Dev!TypeOK /\ LocksExclude /\ CallsTyped /\ LocksTyped /\ ChildrenTyped /\ HandleTyped
      /\ HandlesAreOwned /\ Tallied
  BY TypesSplit DEF DInv
<1>2. /\ pc[c] = "idle" /\ handle[h] = "open" /\ h \in pools \union graphs
      /\ handle' = [handle EXCEPT ![h] = "closed"] /\ arg' = [arg EXCEPT ![c] = h]
      /\ doing' = [doing EXCEPT ![c] = "CloseChild"] /\ pc' = [pc EXCEPT ![c] = "free"]
      /\ UNCHANGED <<readers, writer, setMu, idx, pools, graphs, plain, live, blocks, implicitBlocks, driver,
                     open, backendOpen, Dev!device>>
  BY DEF Dev!MarkClosed, Dev!At, Dev!Go, Dev!locks, Dev!children, Dev!device
<1>3. Owned(h) /\ h \notin Dev!InSet
  <2>1. Owned(h)
    BY <1>1 DEF HandlesAreOwned
  <2>2. graphs \cap Dev!InSet = {}
    BY <1>1, Constants DEF ChildrenTyped, Dev!InSet
  <2> QED BY <1>2, <2>1, <2>2 DEF Owned
<1>4. /\ CallsTyped' /\ LocksTyped' /\ OnlyMoved(c) /\ pc'[c] = "free" /\ arg'[c] = h /\ doing'[c] = "CloseChild"
  <2>1. "free" \in Dev!Pcs
    BY DEF Dev!Pcs
  <2> QED BY <1>1, <1>2, <2>1 DEF CallsTyped, LocksTyped, OnlyMoved
<1>5. ChildrenTyped' /\ HandleTyped' /\ handle'[h] = "closed" /\ \A k \in Handles : k # h => handle'[k] = handle[k]
  BY <1>1, <1>2 DEF ChildrenTyped, HandleTyped
<1>6. Has(c, h)' /\ ~Makes(c)' /\ (\A k \in Handles \ {h} : ~Has(c, k)') /\ \A k : ~Has(c, k)
  BY <1>2, <1>4 DEF Has, Makes
<1>7. /\ \A d \in Workers : d # c => ~Has(d, h) /\ ~Has(d, h)'
      /\ ~InMaking(h)' /\ InClosing(h)'
  BY <1>2, <1>3, <1>4, <1>6, HandedOn
<1>8. h \in driver /\ Dev!InSet' = Dev!InSet
  <2>1. \A d \in Workers : ~Has(d, h)
    BY <1>6, <1>7
  <2> QED BY <1>2, <1>3, <2>1 DEF Owned, Dev!InSet
<1>9. Owned(h)'
  BY <1>2, <1>3, <1>4, <1>5, <1>7, <1>8 DEF Owned
<1>10. \A k \in Handles \ {h} : Untouched(c, k)
  BY <1>2, <1>5, <1>6, <1>8 DEF Untouched
<1>11. HandlesAreOwned'
  BY <1>1, <1>4, <1>9, <1>10, OwnedMoves
<1>12. Tallied'
  <2>1. h \in Charged <=> h \in Charged'
    BY <1>2, <1>4, <1>5, <1>6, <1>7 DEF Charged
  <2>2. /\ c \notin Dev!Uncounted /\ c \notin Dev!Uncounted' /\ c \notin Dev!Overcounted /\ c \notin Dev!Overcounted'
        /\ c \notin Admitted /\ c \notin Admitted'
    BY <1>2, <1>4 DEF Dev!Uncounted, Dev!Overcounted, Admitted
  <2>3. /\ More(h, pools', pools) = 0 /\ More(h, driver', driver) = 0 /\ More(h, Charged', Charged) = 0
        /\ More(c, Dev!Uncounted', Dev!Uncounted) = 0 /\ More(c, Dev!Overcounted', Dev!Overcounted) = 0
        /\ More(c, Admitted', Admitted) = 0
    BY <1>2, <2>1, <2>2, MoreIs
  <2>4. Even(0, 0, 0, 0, 0) /\ Total(0, 0, 0) /\ Fits(0, 0, 0, 0)
    BY DEF Even, Total, Fits
  <2>5. /\ Even(More(h, pools', pools), 0, More(c, Dev!Uncounted', Dev!Uncounted),
                More(h, driver', driver), More(c, Dev!Overcounted', Dev!Overcounted))
        /\ Total(0, 0, More(h, Charged', Charged))
        /\ Fits(More(h, pools', pools), 0, More(c, Admitted', Admitted), 0)
    BY <2>3, <2>4
  <2>6. implicitBlocks' = implicitBlocks + 0 /\ Len(blocks') = Len(blocks) + 0 /\ 0 \in Int /\ 0 \in Nat
    BY <1>1, <1>2 DEF ChildrenTyped
  <2>7. Dev!TypeOK'
    BY <1>4, <1>5, TypesSplitAfter
  <2> QED BY <1>1, <1>4, <1>10, <2>5, <2>6, <2>7, TallyMoves
<1>13. CallFits(c)' /\ pc[c] \notin Counting
  BY <1>2, <1>4 DEF CallFits, Counting
<1> QED BY <1>2, <1>4, <1>5, <1>6, <1>11, <1>12, <1>13, LeaverStep DEF Counting

LEMMA FreeHolds ==
  ASSUME Dev!DeviceAssumption, DInv, NEW c \in Workers, Dev!Free(c)
  PROVE  DInv'
<1>0. PICK h : h = arg[c]
  OBVIOUS
<1> DEFINE to == IF h \in PoolIds THEN "leave" ELSE "uncount"
<1>1. /\ Dev!TypeOK /\ LocksExclude /\ ChildrenTyped /\ HandleTyped /\ HandlesAreOwned /\ Tallied
  BY TypesSplit DEF DInv
<1>2. /\ pc[c] = "free" /\ doing[c] = "CloseChild" /\ h \in Handles /\ Dev!Continue(c, to) /\ driver' = driver \ {h}
      /\ UNCHANGED <<pools, graphs, plain, live, blocks, implicitBlocks, handle, open, backendOpen, Dev!device>>
  BY <1>0 DEF Dev!Free, Dev!At, Dev!children, Dev!device, DInv, CallFits
<1>3. ~Makes(c) /\ to \in Dev!Pcs /\ to \in {"leave", "uncount"}
  BY <1>2 DEF Makes, Dev!Pcs
<1>4. /\ Has(c, h) /\ Owned(h) /\ (\A k \in Handles \ {h} : ~Has(c, k)) /\ h \notin Dev!InSet
      /\ handle[h] = "closed" /\ h \in pools \union graphs /\ h \in driver
  BY <1>0, <1>2, <1>3, InHand DEF Owning
<1>5. /\ CallsTyped' /\ LocksTyped' /\ OnlyMoved(c) /\ pc'[c] = to
      /\ UNCHANGED <<readers, writer, setMu, doing, arg, idx>> /\ arg'[c] = h /\ doing'[c] = "CloseChild"
  BY <1>0, <1>1, <1>2, <1>3, Continues
<1>6. ChildrenTyped' /\ HandleTyped' /\ Dev!InSet' = Dev!InSet
  BY <1>1, <1>2 DEF ChildrenTyped, HandleTyped, Dev!InSet
<1>7. Has(c, h)' /\ ~Makes(c)' /\ \A k \in Handles \ {h} : ~Has(c, k)'
  BY <1>3, <1>5 DEF Has, Makes
<1>8. /\ \A d \in Workers : d # c => ~Has(d, h) /\ ~Has(d, h)'
      /\ ~InMaking(h)' /\ InClosing(h)'
  BY <1>2, <1>4, <1>5, <1>7, HandedOn
<1>9. Owned(h)'
  BY <1>2, <1>3, <1>4, <1>5, <1>6, <1>7, <1>8 DEF Owned
<1>10. \A k \in Handles \ {h} : Untouched(c, k)
  BY <1>2, <1>4, <1>6, <1>7 DEF Untouched
<1>11. HandlesAreOwned'
  BY <1>1, <1>2, <1>5, <1>9, <1>10, OwnedMoves
<1>12. Tallied'
  <2>0. h \in GraphIds <=> h \notin PoolIds
    BY <1>2, Constants DEF Handles
  <2>1. h \in Charged <=> h \in Charged'
    BY <1>2, <1>4, <1>5, <1>8, <2>0 DEF Charged
  <2>2. /\ c \notin Dev!Uncounted /\ c \notin Dev!Uncounted' /\ c \notin Dev!Overcounted /\ c \in Dev!Overcounted'
        /\ c \notin Admitted /\ c \notin Admitted'
    BY <1>2, <1>5 DEF Dev!Uncounted, Dev!Overcounted, Admitted
  <2>3. /\ More(h, pools', pools) = 0 /\ More(h, driver', driver) = -1 /\ More(h, Charged', Charged) = 0
        /\ More(c, Dev!Uncounted', Dev!Uncounted) = 0 /\ More(c, Dev!Overcounted', Dev!Overcounted) = 1
        /\ More(c, Admitted', Admitted) = 0
    BY <1>2, <1>4, <2>1, <2>2, MoreIs
  <2>4. Even(0, 0, 0, -1, 1) /\ Total(0, 0, 0) /\ Fits(0, 0, 0, 0)
    BY DEF Even, Total, Fits
  <2>5. /\ Even(More(h, pools', pools), 0, More(c, Dev!Uncounted', Dev!Uncounted),
                More(h, driver', driver), More(c, Dev!Overcounted', Dev!Overcounted))
        /\ Total(0, 0, More(h, Charged', Charged))
        /\ Fits(More(h, pools', pools), 0, More(c, Admitted', Admitted), 0)
    BY <2>3, <2>4
  <2>6. implicitBlocks' = implicitBlocks + 0 /\ Len(blocks') = Len(blocks) + 0 /\ 0 \in Int /\ 0 \in Nat
    BY <1>1, <1>2 DEF ChildrenTyped
  <2>7. Dev!TypeOK'
    BY <1>5, <1>6, TypesSplitAfter
  <2> QED BY <1>1, <1>2, <1>5, <1>10, <2>5, <2>6, <2>7, TallyMoves
<1>13. CallFits(c)' /\ pc[c] \notin Counting
  BY <1>2, <1>5 DEF CallFits, Counting, Handles
<1> QED BY <1>2, <1>3, <1>5, <1>6, <1>7, <1>11, <1>12, <1>13, LeaverStep DEF Counting

LEMMA UncountHolds ==
  ASSUME Dev!DeviceAssumption, DInv, NEW c \in Workers, Dev!Uncount(c)
  PROVE  DInv'
<1>0. PICK h : h = arg[c]
  OBVIOUS
<1>1. /\ Dev!TypeOK /\ LocksExclude /\ ChildrenTyped /\ HandleTyped /\ HandlesAreOwned /\ Tallied
  BY TypesSplit DEF DInv
<1>2. /\ pc[c] = "uncount" /\ doing[c] \in {"Build", "CloseChild"} /\ h \in GraphIds
      /\ implicitBlocks' = implicitBlocks - 1
      /\ UNCHANGED <<pools, graphs, plain, live, blocks, driver, open, backendOpen, Dev!device>>
  BY <1>0 DEF Dev!Uncount, Dev!At, Dev!children, Dev!device, DInv, CallFits
<1>3. h \in Handles /\ h \notin PoolIds /\ (Makes(c) <=> doing[c] = "Build")
  BY <1>2, Constants DEF Handles, Makes
<1>4. /\ Has(c, h) /\ Owned(h) /\ (\A k \in Handles \ {h} : ~Has(c, k)) /\ h \notin Dev!InSet
      /\ Makes(c) => handle[h] = "making" /\ h \notin pools /\ h \notin graphs
      /\ ~Makes(c) => handle[h] = "closed" /\ h \in pools \union graphs
      /\ h \notin driver
  BY <1>0, <1>2, InHand DEF Owning
<1>5. h \in Charged /\ c \notin Dev!Uncounted /\ c \in Dev!Overcounted /\ c \notin Admitted
  <2>1. \A d \in Workers : d # c => ~Has(d, h)
    BY <1>4 DEF Owned
  <2> QED BY <1>2, <1>4, <2>1 DEF Charged, Dev!Uncounted, Dev!Overcounted, Admitted
<1>6. /\ Dev!InSet' = Dev!InSet /\ Len(blocks') = Len(blocks) + 0
      /\ implicitBlocks' = implicitBlocks + (-1) /\ -1 \in Int /\ 0 \in Nat
  BY <1>1, <1>2 DEF ChildrenTyped, Dev!InSet
\* However it goes on, the graph's block is off the books.
<1>7. ASSUME OnlyMoved(c), CallsTyped', LocksTyped', ChildrenTyped', HandleTyped', h \notin Charged',
             c \notin Dev!Uncounted', c \notin Dev!Overcounted', c \notin Admitted',
             \A k \in Handles \ {h} : Untouched(c, k)
      PROVE  Tallied'
  <2>1. /\ More(h, pools', pools) = 0 /\ More(h, driver', driver) = 0 /\ More(h, Charged', Charged) = -1
        /\ More(c, Dev!Uncounted', Dev!Uncounted) = 0 /\ More(c, Dev!Overcounted', Dev!Overcounted) = -1
        /\ More(c, Admitted', Admitted) = 0
    BY <1>2, <1>5, <1>7, MoreIs
  <2>2. Even(0, -1, 0, 0, -1) /\ Total(-1, 0, -1) /\ Fits(0, 0, 0, 0)
    BY DEF Even, Total, Fits
  <2>3. /\ Even(More(h, pools', pools), -1, More(c, Dev!Uncounted', Dev!Uncounted),
                More(h, driver', driver), More(c, Dev!Overcounted', Dev!Overcounted))
        /\ Total(-1, 0, More(h, Charged', Charged))
        /\ Fits(More(h, pools', pools), 0, More(c, Admitted', Admitted), 0)
    BY <2>1, <2>2
  <2>4. Dev!TypeOK'
    BY <1>7, TypesSplitAfter
  <2> QED BY <1>1, <1>3, <1>6, <1>7, <2>3, <2>4, TallyMoves
<1>8. CASE doing[c] = "Build"
  <2>1. handle' = [handle EXCEPT ![h] = "none"] /\ Dev!Return(c)
    BY <1>0, <1>8 DEF Dev!Uncount
  <2>2. CallsTyped' /\ LocksTyped' /\ OnlyMoved(c) /\ pc'[c] = "idle"
    BY <1>1, <2>1, Returns
  <2>3. ChildrenTyped' /\ HandleTyped' /\ handle'[h] = "none" /\ \A k \in Handles : k # h => handle'[k] = handle[k]
    BY <1>1, <1>2, <1>3, <2>1 DEF ChildrenTyped, HandleTyped
  <2>4. \A k : ~Has(c, k)'
    BY <2>2 DEF Has
  <2>5. (\A d \in Workers : d # c => ~Has(d, h)') /\ ~InMaking(h)' /\ ~InClosing(h)'
    BY <1>3, <1>4, <2>2, <2>4, HandedOn
  <2>6. Owned(h)'
    BY <1>2, <1>3, <1>4, <1>6, <1>8, <2>3, <2>4, <2>5 DEF Owned
  <2>7. \A k \in Handles \ {h} : Untouched(c, k)
    BY <1>2, <1>4, <1>6, <2>3, <2>4 DEF Untouched
  <2>8. HandlesAreOwned'
    BY <1>1, <2>2, <2>6, <2>7, OwnedMoves
  <2>9. Tallied'
    <3>1. h \notin Charged' /\ c \notin Dev!Uncounted' /\ c \notin Dev!Overcounted' /\ c \notin Admitted'
      BY <2>2, <2>3 DEF Charged, Dev!Uncounted, Dev!Overcounted, Admitted
    <3> QED BY <1>7, <2>2, <2>3, <2>7, <3>1
  <2>10. CallFits(c)'
    BY <2>2 DEF CallFits
  <2> QED BY <1>2, <1>3, <1>8, <2>1, <2>2, <2>3, <2>8, <2>9, <2>10, MakerStep
<1>9. CASE doing[c] = "CloseChild"
  <2>1. UNCHANGED handle /\ Dev!Continue(c, "leave")
    BY <1>9 DEF Dev!Uncount
  <2>2. /\ CallsTyped' /\ LocksTyped' /\ OnlyMoved(c) /\ pc'[c] = "leave"
        /\ UNCHANGED <<readers, writer, setMu, doing, arg, idx>> /\ arg'[c] = h /\ doing'[c] = "CloseChild"
    BY <1>0, <1>1, <1>9, <2>1, Continues DEF Dev!Pcs
  <2>3. ChildrenTyped' /\ HandleTyped'
    BY <1>1, <1>2, <2>1 DEF ChildrenTyped, HandleTyped
  <2>4. Has(c, h)' /\ ~Makes(c)' /\ \A k \in Handles \ {h} : ~Has(c, k)'
    BY <2>2 DEF Has, Makes
  <2>5. (\A d \in Workers : d # c => ~Has(d, h)') /\ ~InMaking(h)' /\ InClosing(h)'
    BY <1>3, <1>4, <2>2, <2>4, HandedOn
  <2>6. Owned(h)'
    BY <1>2, <1>3, <1>4, <1>6, <1>9, <2>1, <2>2, <2>4, <2>5 DEF Owned
  <2>7. \A k \in Handles \ {h} : Untouched(c, k)
    BY <1>2, <1>4, <1>6, <2>1, <2>4 DEF Untouched
  <2>8. HandlesAreOwned'
    BY <1>1, <2>2, <2>6, <2>7, OwnedMoves
  <2>9. Tallied'
    <3>1. h \notin Charged' /\ c \notin Dev!Uncounted' /\ c \notin Dev!Overcounted' /\ c \notin Admitted'
      BY <1>3, <2>2, <2>4 DEF Charged, Dev!Uncounted, Dev!Overcounted, Admitted
    <3> QED BY <1>7, <2>2, <2>3, <2>7, <3>1
  <2>10. CallFits(c)' /\ pc[c] \notin Counting
    BY <1>2, <1>3, <2>2 DEF CallFits, Counting
  <2> QED BY <1>2, <2>1, <2>2, <2>3, <2>4, <2>8, <2>9, <2>10, LeaverStep DEF Counting
<1> QED BY <1>2, <1>8, <1>9

LEMMA ChildLeaveHolds ==
  ASSUME Dev!DeviceAssumption, DInv, NEW c \in Workers, Dev!Leave(c)
  PROVE  DInv'
<1>0. PICK h : h = arg[c]
  OBVIOUS
<1>1. /\ Dev!TypeOK /\ LocksExclude /\ ChildrenTyped /\ HandleTyped /\ HandlesAreOwned /\ Tallied
  BY TypesSplit DEF DInv
<1>2. /\ pc[c] = "leave" /\ doing[c] = "CloseChild" /\ h \in Handles /\ Dev!Return(c)
      /\ pools' = pools \ {h} /\ graphs' = graphs \ {h} /\ handle' = [handle EXCEPT ![h] = "none"]
      /\ UNCHANGED <<plain, live, blocks, implicitBlocks, driver, open, backendOpen, Dev!device>>
  BY <1>0 DEF Dev!Leave, Dev!At, Dev!device, DInv, CallFits
<1>3. ~Makes(c) /\ (h \in GraphIds <=> h \notin PoolIds)
  BY <1>2, Constants DEF Makes, Handles
<1>4. /\ Has(c, h) /\ Owned(h) /\ (\A k \in Handles \ {h} : ~Has(c, k)) /\ h \notin Dev!InSet
      /\ handle[h] = "closed" /\ h \in pools \union graphs /\ h \notin driver
  BY <1>0, <1>2, <1>3, InHand DEF Owning
<1>5. /\ CallsTyped' /\ LocksTyped' /\ OnlyMoved(c) /\ pc'[c] = "idle"
  BY <1>1, <1>2, Returns
<1>6. /\ ChildrenTyped' /\ HandleTyped' /\ Dev!InSet' = Dev!InSet
      /\ handle'[h] = "none" /\ \A k \in Handles : k # h => handle'[k] = handle[k]
  BY <1>1, <1>2 DEF ChildrenTyped, HandleTyped, Dev!InSet
<1>7. \A k : ~Has(c, k)'
  BY <1>5 DEF Has
<1>8. (\A d \in Workers : d # c => ~Has(d, h)') /\ ~InMaking(h)' /\ ~InClosing(h)'
  BY <1>2, <1>4, <1>5, <1>7, HandedOn
<1>9. Owned(h)'
  BY <1>2, <1>4, <1>6, <1>7, <1>8 DEF Owned
<1>10. \A k \in Handles \ {h} : Untouched(c, k)
  BY <1>2, <1>4, <1>6, <1>7 DEF Untouched
<1>11. HandlesAreOwned'
  BY <1>1, <1>2, <1>5, <1>9, <1>10, OwnedMoves
<1>12. Tallied'
  <2>1. h \notin Charged /\ h \notin Charged'
    BY <1>2, <1>4, <1>6 DEF Charged
  <2>2. /\ c \notin Dev!Uncounted /\ c \notin Dev!Uncounted' /\ c \notin Dev!Overcounted'
        /\ c \notin Admitted /\ c \notin Admitted' /\ (c \in Dev!Overcounted <=> h \in PoolIds)
    BY <1>0, <1>2, <1>5 DEF Dev!Uncounted, Dev!Overcounted, Admitted
  <2>3. h \in pools <=> h \in PoolIds
    BY <1>1, <1>3, <1>4 DEF ChildrenTyped
  <2>4. /\ More(h, driver', driver) = 0 /\ More(h, Charged', Charged) = 0
        /\ More(c, Dev!Uncounted', Dev!Uncounted) = 0 /\ More(c, Admitted', Admitted) = 0
    BY <1>2, <2>1, <2>2, MoreIs
  <2>5. /\ h \in PoolIds => More(h, pools', pools) = -1 /\ More(c, Dev!Overcounted', Dev!Overcounted) = -1
        /\ h \notin PoolIds => More(h, pools', pools) = 0 /\ More(c, Dev!Overcounted', Dev!Overcounted) = 0
    BY <1>2, <2>2, <2>3, MoreIs
  <2>6. /\ Even(0, 0, 0, 0, 0) /\ Even(-1, 0, 0, 0, -1) /\ Total(0, 0, 0)
        /\ Fits(0, 0, 0, 0) /\ Fits(-1, 0, 0, 0)
    BY DEF Even, Total, Fits
  <2>7. /\ Even(More(h, pools', pools), 0, More(c, Dev!Uncounted', Dev!Uncounted),
                More(h, driver', driver), More(c, Dev!Overcounted', Dev!Overcounted))
        /\ Total(0, 0, More(h, Charged', Charged))
        /\ Fits(More(h, pools', pools), 0, More(c, Admitted', Admitted), 0)
    BY <2>4, <2>5, <2>6
  <2>8. implicitBlocks' = implicitBlocks + 0 /\ Len(blocks') = Len(blocks) + 0 /\ 0 \in Int /\ 0 \in Nat
    BY <1>1, <1>2 DEF ChildrenTyped
  <2>9. Dev!TypeOK'
    BY <1>5, <1>6, TypesSplitAfter
  <2> QED BY <1>1, <1>2, <1>5, <1>10, <2>7, <2>8, <2>9, TallyMoves
<1>13. CallFits(c)' /\ pc[c] \notin Counting
  BY <1>2, <1>5 DEF CallFits, Counting
<1> QED BY <1>2, <1>5, <1>6, <1>11, <1>12, <1>13, LeaverStep

-----------------------------------------------------------------------------
\* What happens to a child between the calls.
LEMMA ChildStep ==
  ASSUME DInv, UNCHANGED <<Dev!locks, Dev!memory, Dev!device, pools, graphs, pc, doing, arg, idx>>,
         plain' \in Nat, live' \in [PoolIds -> Nat],
         NoChildren => plain' = 0 /\ \A p \in PoolIds : live[p] = 0 => live'[p] = 0
  PROVE  DInv'
<1>1. /\ LocksExclude /\ ClosedIsEmpty /\ CallsTyped /\ LocksTyped /\ ChildrenTyped /\ HandleTyped
      /\ HandlesAreOwned /\ Tallied /\ \A d \in Workers : CallFits(d)
  BY TypesSplit DEF DInv
<1>2. UNCHANGED <<readers, writer, setMu, blocks, implicitBlocks, handle, driver, open, backendOpen, found,
                  pools, graphs, pc, doing, arg, idx>>
  BY DEF Dev!locks, Dev!memory, Dev!device
<1>3. Dev!TypeOK'
  <2>1. CallsTyped' /\ LocksTyped' /\ ChildrenTyped' /\ HandleTyped'
    BY <1>1, <1>2 DEF CallsTyped, LocksTyped, ChildrenTyped, HandleTyped
  <2> QED BY <2>1, TypesSplitAfter
<1>4. LocksExclude' /\ \A d \in Workers : CallFits(d)'
  BY <1>1, <1>2 DEF LocksExclude, CallFits, Makes, Counting
<1>5. HandlesAreOwned'
  <2>1. \A h, d : (Has(d, h)' <=> Has(d, h)) /\ (Makes(d)' <=> Makes(d))
    BY <1>2 DEF Has, Makes
  <2>2. \A h : (InMaking(h)' <=> InMaking(h)) /\ (InClosing(h)' <=> InClosing(h))
    BY <2>1 DEF InMaking, InClosing
  <2>3. Dev!InSet' = Dev!InSet
    BY <1>2 DEF Dev!InSet
  <2> QED BY <1>1, <1>2, <2>1, <2>2, <2>3 DEF HandlesAreOwned, Owned
<1>6. Tallied'
  <2>1. /\ Charged' = Charged /\ Admitted' = Admitted
        /\ Dev!Uncounted' = Dev!Uncounted /\ Dev!Overcounted' = Dev!Overcounted
    BY <1>2 DEF Charged, Admitted, Has, Dev!Uncounted, Dev!Overcounted
  <2> QED BY <1>1, <1>2, <2>1 DEF Tallied
<1>7. ClosedIsEmpty'
  <2>1. Dev!InSet \subseteq PoolIds
    BY <1>1 DEF Dev!InSet, ChildrenTyped
  <2>2. NoChildren => NoChildren' /\ \A p \in Dev!InSet : live[p] = 0 => live'[p] = 0
    BY <1>2, <2>1 DEF NoChildren
  <2> QED BY <1>1, <1>2, <2>2, FindingsStay
<1> QED BY <1>3, <1>4, <1>5, <1>6, <1>7 DEF DInv

LEMMA ChildrenHold ==
  ASSUME DInv, Dev!ClosePlain \/ \E p \in PoolIds : Dev!NewPoolBuffer(p) \/ Dev!CloseBuffer(p)
  PROVE  DInv'
<1>1. ChildrenTyped
  BY TypesSplit DEF DInv
<1>2. CASE Dev!ClosePlain
  <2>1. /\ plain > 0 /\ plain' = plain - 1
        /\ UNCHANGED <<Dev!locks, Dev!memory, Dev!device, pools, graphs, live, pc, doing, arg, idx>>
    BY <1>2 DEF Dev!ClosePlain
  <2>2. plain' \in Nat /\ live' \in [PoolIds -> Nat] /\ live' = live /\ plain # 0
    BY <1>1, <2>1 DEF ChildrenTyped
  <2> QED BY <2>1, <2>2, ChildStep DEF NoChildren
<1>3. ASSUME NEW p \in PoolIds, Dev!NewPoolBuffer(p) PROVE DInv'
  <2>1. /\ p \in pools /\ live' = [live EXCEPT ![p] = @ + 1]
        /\ UNCHANGED <<Dev!locks, Dev!memory, Dev!device, pools, graphs, plain, pc, doing, arg, idx>>
    BY <1>3 DEF Dev!NewPoolBuffer
  <2>2. plain' \in Nat /\ live' \in [PoolIds -> Nat]
    <3>1. live \in [PoolIds -> Nat] /\ live[p] + 1 \in Nat
      BY <1>1 DEF ChildrenTyped
    <3> QED BY <1>1, <2>1, <3>1 DEF ChildrenTyped
  <2>3. ~NoChildren
    BY <2>1 DEF NoChildren
  <2> QED BY <2>1, <2>2, <2>3, ChildStep
<1>4. ASSUME NEW p \in PoolIds, Dev!CloseBuffer(p) PROVE DInv'
  <2>1. /\ live[p] > 0 /\ live' = [live EXCEPT ![p] = @ - 1]
        /\ UNCHANGED <<Dev!locks, Dev!memory, Dev!device, pools, graphs, plain, pc, doing, arg, idx>>
    BY <1>4 DEF Dev!CloseBuffer
  <2>2. live \in [PoolIds -> Nat] /\ live[p] - 1 \in Nat
    BY <1>1, <2>1 DEF ChildrenTyped
  <2>3. plain' \in Nat /\ live' \in [PoolIds -> Nat]
    BY <1>1, <2>1, <2>2 DEF ChildrenTyped
  <2>4. NoChildren => plain' = 0 /\ \A q \in PoolIds : live[q] = 0 => live'[q] = 0
    BY <2>1, <2>2 DEF NoChildren
  <2> QED BY <2>1, <2>3, <2>4, ChildStep
<1> QED BY <1>2, <1>3, <1>4

-----------------------------------------------------------------------------
LEMMA DeviceInit == ASSUME Dev!DeviceAssumption, Dev!Init PROVE DInv
<1>1. Dev!TypeOK
  <2>1. "idle" \in Dev!Pcs
    BY DEF Dev!Pcs
  <2> QED BY <2>1 DEF Dev!Init, Dev!TypeOK
<1>2. \A c \in Workers : pc[c] = "idle"
  BY DEF Dev!Init
<1>3. \A h \in Handles : handle[h] = "none"
  BY DEF Dev!Init, Handles
<1>4. LocksExclude /\ (\A c \in Workers : CallFits(c)) /\ (\A c \in Workers : ~Makes(c))
  BY <1>2 DEF LocksExclude, CallFits, Makes, Counting, Dev!Init
<1>5. \A h, c : c \in Workers => ~Has(c, h)
  BY <1>2 DEF Has
<1>6. Dev!InSet = {} /\ pools = {} /\ graphs = {} /\ driver = {} /\ blocks = <<>> /\ implicitBlocks = 0 /\ open
  BY DEF Dev!Init, Dev!InSet
<1>7. HandlesAreOwned
  BY <1>3, <1>5, <1>6 DEF HandlesAreOwned, Owned, InMaking, InClosing
<1>8. Tallied
  <2>1. Charged = {} /\ Admitted = {} /\ Dev!Uncounted = {} /\ Dev!Overcounted = {}
    BY <1>2, <1>3 DEF Charged, Admitted, Dev!Uncounted, Dev!Overcounted, Handles
  <2>2. Cardinality({}) = 0 /\ Len(blocks) = 0
    BY <1>6, FS_EmptySet
  <2>3. Even(0, 0, 0, 0, 0) /\ Total(0, 0, 0)
    BY DEF Even, Total
  <2>4. Fits(0, 0, 0, MaxPools + Cardinality(Workers) - 1)
    <3>1. Cardinality(Workers) \in Nat /\ Cardinality(Workers) # 0 /\ MaxPools \in Nat
      BY Constants, FS_EmptySet, FS_CardinalityType
    <3> QED BY <3>1 DEF Fits
  <2> QED BY <1>6, <2>1, <2>2, <2>3, <2>4 DEF Tallied
<1>9. ClosedIsEmpty
  BY <1>2, <1>6 DEF ClosedIsEmpty, Found
<1> QED BY <1>1, <1>4, <1>7, <1>8, <1>9 DEF DInv

LEMMA DeviceNext == ASSUME Dev!DeviceAssumption, DInv, [Dev!Next]_Dev!vars PROVE DInv'
<1>1. ASSUME NEW c \in Workers, Dev!Begin(c) PROVE DInv'
  BY <1>1, MakeHolds, MarkClosedHolds, CloseHolds DEF Dev!Begin, Handles
<1>2. ASSUME NEW c \in Workers, Dev!Making(c) PROVE DInv'
  BY <1>2, RLockHolds, SetLockHolds, TryBlockHolds, ReadCapHolds, AllocHolds, AddPoolHolds, AppendBlockHolds,
     FirstBufferHolds, CountGraphBlockHolds, LowerHolds, RegistrationHolds DEF Dev!Making
<1>3. ASSUME NEW c \in Workers, Dev!Leaving(c) PROVE DInv'
  BY <1>3, FreeHolds, UncountHolds, ChildLeaveHolds DEF Dev!Leaving
<1>4. ASSUME NEW c \in Workers, Dev!Closing(c) PROVE DInv'
  BY <1>4, LockHolds, CountChildrenHolds, CountBuffersHolds, DecideHolds, CloseSetHolds, CloseBackendHolds
  DEF Dev!Closing
<1>5. CASE UNCHANGED Dev!vars
  <2>1. UNCHANGED <<Dev!locks, Dev!memory, Dev!device, pools, graphs, plain, live, pc, doing, arg, idx>>
    BY <1>5 DEF Dev!vars, Dev!children
  <2>2. plain' \in Nat /\ live' \in [PoolIds -> Nat] /\ live' = live /\ plain' = plain
    BY <2>1 DEF DInv, Dev!TypeOK
  <2> QED BY <2>1, <2>2, ChildStep DEF NoChildren
<1> QED BY <1>1, <1>2, <1>3, <1>4, <1>5, ChildrenHold DEF Dev!Next, Dev!InCall

LEMMA DInvImpliesBooks == ASSUME Dev!DeviceAssumption, DInv PROVE Dev!BooksMatchTheBackend
<1>1. Dev!ClosedMeansReleased
  BY DEF DInv, ClosedIsEmpty, Dev!ClosedMeansReleased
<1>2. Dev!CountsAreExact
  BY SameCardinality DEF DInv, Tallied, Even, Dev!CountsAreExact
<1>3. Dev!PoolsNearTheCap
  <2> DEFINE p == Cardinality(pools)  n == Len(blocks)  a == Cardinality(Admitted)  m == Cardinality(Workers)
  <2>1. p + n + a =< MaxPools + m - 1
    BY DEF DInv, Tallied, Fits
  <2>2. p \in Nat /\ n \in Nat /\ a \in Nat /\ m \in Nat /\ MaxPools \in Nat
    <3>1. pools \subseteq Handles /\ Admitted \subseteq Workers /\ n \in Nat
      BY DEF DInv, Dev!TypeOK, Admitted, Handles
    <3> QED BY <3>1, Constants, FS_Subset, FS_CardinalityType
  <2> HIDE DEF p, n, a, m
  <2>3. p + n =< MaxPools + m - 1
    BY <2>1, <2>2
  <2> QED BY <2>3, SameCardinality DEF p, n, m, Dev!PoolsNearTheCap
<1> QED BY <1>1, <1>2, <1>3 DEF DInv, Dev!BooksMatchTheBackend

\* For every number of goroutines, pools and graphs and every cap: what the device
\* counts is what the backend holds but for the calls between the one and the other,
\* the cap is passed by fewer pools than there are callers, and a closed device has
\* given its memory and its backend back (device.go, pool.go).
THEOREM BooksAreKept == ASSUME Dev!DeviceAssumption PROVE Dev!Spec => []BooksMatchTheBackend
<1>1. Dev!Init => DInv
  BY DeviceInit
<1>2. DInv /\ [Dev!Next]_Dev!vars => DInv'
  BY DeviceNext
<1>3. DInv => BooksMatchTheBackend
  BY DInvImpliesBooks DEF BooksMatchTheBackend
<1> QED BY <1>1, <1>2, <1>3, PTL DEF Dev!Spec

-----------------------------------------------------------------------------
\* The whole device is the registry.  Besides the books that takes where buffers can
\* be: in a pool that is open, and in the implicit set when a call is about to ask it.
LiveInPlace ==
  /\ \A p \in PoolIds : handle[p] # "open" => live[p] = 0
  /\ \A c \in Workers : pc[c] = "first" => arg[c] \in Dev!InSet
  /\ \A c \in Workers : pc[c] = "try" => idx[c] >= 1

RInv == DInv /\ LiveInPlace

Promise == [Dev!Device!Next]_<<open, Dev!Children>>

\* A buffer that counts as the device's child.
Buf(p, n) == p \in Dev!InSet /\ n \in 1 .. live[p]

LEMMA Members ==
  \A x : x \in Dev!Children <=>
    \/ \E p \in pools : x = <<"pool", p>>
    \/ \E g \in graphs : x = <<"graph", g>>
    \/ \E n \in 1 .. plain : x = <<"plain", n>>
    \/ \E p \in Dev!InSet : \E n \in 1 .. live[p] : x = <<"buffer", <<p, n>> >>
BY DEF Dev!Children, Dev!Counted, Dev!BuffersOf

LEMMA MembersAfter ==
  \A x : x \in Dev!Children' <=>
    \/ \E p \in pools' : x = <<"pool", p>>
    \/ \E g \in graphs' : x = <<"graph", g>>
    \/ \E n \in 1 .. plain' : x = <<"plain", n>>
    \/ \E p \in Dev!InSet' : \E n \in 1 .. live'[p] : x = <<"buffer", <<p, n>> >>
BY DEF Dev!Children, Dev!Counted, Dev!BuffersOf

LEMMA NothingJoins ==
  ASSUME UNCHANGED <<open, pools, graphs, plain>>, \A p, n : Buf(p, n)' <=> Buf(p, n)
  PROVE  Promise
<1>1. \A x : x \in Dev!Children' <=> x \in Dev!Children
  <2>1. \A x : (\E p \in Dev!InSet' : \E n \in 1 .. live'[p] : x = <<"buffer", <<p, n>> >>)
                 <=> \E p, n : Buf(p, n)' /\ x = <<"buffer", <<p, n>> >>
    BY DEF Buf
  <2>2. \A x : (\E p \in Dev!InSet : \E n \in 1 .. live[p] : x = <<"buffer", <<p, n>> >>)
                 <=> \E p, n : Buf(p, n) /\ x = <<"buffer", <<p, n>> >>
    BY DEF Buf
  <2> QED BY <2>1, <2>2, Members, MembersAfter
<1>2. Dev!Children' = Dev!Children
  BY <1>1
<1> QED BY <1>2 DEF Promise

LEMMA OneJoins ==
  ASSUME open, open' = open, NEW x, x \notin Dev!Children, \A y : y \in Dev!Children' <=> y \in Dev!Children \/ y = x
  PROVE  Promise
<1>1. Dev!Children' = Dev!Children \union {x} /\ x \in Dev!Children'
  OBVIOUS
<1>2. Dev!Device!Add
  BY <1>1 DEF Dev!Device!Add
<1> QED BY <1>2 DEF Promise, Dev!Device!Next

LEMMA OneLeaves ==
  ASSUME open' = open, NEW x, x \in Dev!Children, \A y : y \in Dev!Children' <=> y \in Dev!Children /\ y # x
  PROVE  Promise
<1>1. Dev!Children' = Dev!Children \ {x}
  OBVIOUS
<1>2. Dev!Device!Remove
  BY <1>1 DEF Dev!Device!Remove
<1> QED BY <1>2 DEF Promise, Dev!Device!Next

\* The members that a step can add or take, one kind at a time.
LEMMA BuffersChange ==
  ASSUME UNCHANGED <<open, pools, graphs, plain>>, NEW p, NEW n
  PROVE  /\ open /\ ~Buf(p, n) /\ (\A q, k : Buf(q, k)' <=> Buf(q, k) \/ (q = p /\ k = n)) => Promise
         /\ Buf(p, n) /\ (\A q, k : Buf(q, k)' <=> Buf(q, k) /\ ~(q = p /\ k = n)) => Promise
<1> DEFINE x == <<"buffer", <<p, n>> >>
<1>1. x \in Dev!Children <=> Buf(p, n)
  BY Members DEF Buf
<1>2. ASSUME open, ~Buf(p, n), \A q, k : Buf(q, k)' <=> Buf(q, k) \/ (q = p /\ k = n) PROVE Promise
  <2>1. \A y : y \in Dev!Children' <=> y \in Dev!Children \/ y = x
    <3>1. \A y : (\E q \in Dev!InSet' : \E k \in 1 .. live'[q] : y = <<"buffer", <<q, k>> >>)
                   <=> (\E q \in Dev!InSet : \E k \in 1 .. live[q] : y = <<"buffer", <<q, k>> >>) \/ y = x
      BY <1>2 DEF Buf
    <3> HIDE DEF x
    <3> QED BY <3>1, Members, MembersAfter
  <2> HIDE DEF x
  <2> QED BY <1>1, <1>2, <2>1, OneJoins
<1>3. ASSUME Buf(p, n), \A q, k : Buf(q, k)' <=> Buf(q, k) /\ ~(q = p /\ k = n) PROVE Promise
  <2>1. \A y : y \in Dev!Children' <=> y \in Dev!Children /\ y # x
    <3>1. \A y : (\E q \in Dev!InSet' : \E k \in 1 .. live'[q] : y = <<"buffer", <<q, k>> >>)
                   <=> (\E q \in Dev!InSet : \E k \in 1 .. live[q] : y = <<"buffer", <<q, k>> >>) /\ y # x
      BY <1>3 DEF Buf
    <3>2. x[1] = "buffer" /\ "buffer" # "pool" /\ "buffer" # "graph" /\ "buffer" # "plain"
      OBVIOUS
    <3> QED BY <3>1, <3>2, Members, MembersAfter
  <2> HIDE DEF x
  <2> QED BY <1>1, <1>3, <2>1, OneLeaves
<1> QED BY <1>2, <1>3

LEMMA PlaceStep ==
  ASSUME LiveInPlace, NEW c \in Workers, OnlyMoved(c), Dev!InSet \subseteq Dev!InSet',
         \A p \in PoolIds : handle'[p] # "open" => live'[p] = 0,
         pc'[c] = "first" => arg'[c] \in Dev!InSet', pc'[c] = "try" => idx'[c] >= 1
  PROVE  LiveInPlace'
BY DEF LiveInPlace, OnlyMoved

LEMMA SetIsOpen ==
  ASSUME DInv
  PROVE  \A p \in Dev!InSet : p \in PoolIds /\ handle[p] = "open" /\ p \notin pools
BY DEF DInv, Dev!TypeOK, Dev!InSet, HandlesAreOwned, Owned, Handles

LEMMA MakersAreLetIn == ASSUME DInv, NEW c \in Workers, Makes(c) PROVE open
BY DEF DInv, LocksExclude

\* A step that touches no child.
LEMMA NoChildMoves ==
  ASSUME RInv, NEW c \in Workers, OnlyMoved(c), UNCHANGED <<open, pools, graphs, plain, live, blocks, handle>>,
         pc'[c] # "first", pc'[c] = "try" => idx'[c] >= 1
  PROVE  LiveInPlace' /\ Promise
<1>1. Dev!InSet' = Dev!InSet
  BY DEF Dev!InSet
<1>2. LiveInPlace'
  BY <1>1, PlaceStep DEF RInv, LiveInPlace
<1>3. \A p, n : Buf(p, n)' <=> Buf(p, n)
  BY <1>1 DEF Buf
<1> QED BY <1>2, <1>3, NothingJoins

\* A call that ends there.
LEMMA NoChildReturns ==
  ASSUME RInv, NEW c \in Workers, Dev!Return(c), UNCHANGED <<open, pools, graphs, plain, live, blocks, handle>>
  PROVE  LiveInPlace' /\ Promise
<1>1. OnlyMoved(c) /\ pc'[c] = "idle"
  BY Returns DEF RInv, DInv
<1> QED BY <1>1, NoChildMoves

LEMMA NoChildContinues ==
  ASSUME RInv, NEW c \in Workers, NEW to \in Dev!Pcs \ {"first", "try"}, Dev!Continue(c, to),
         UNCHANGED <<open, pools, graphs, plain, live, blocks, handle>>
  PROVE  LiveInPlace' /\ Promise
<1>1. OnlyMoved(c) /\ pc'[c] = to
  BY Continues DEF RInv, DInv
<1> QED BY <1>1, NoChildMoves

LEMMA BeginPromises ==
  ASSUME Dev!DeviceAssumption, RInv, NEW c \in Workers, Dev!Begin(c)
  PROVE  LiveInPlace' /\ Promise
<1>1. CallsTyped /\ ChildrenTyped
  BY TypesSplit DEF RInv, DInv
<1>2. ASSUME NEW kind \in {"NewPool", "NewBuffer", "Build", "Register"}, Dev!Make(c, kind)
      PROVE  LiveInPlace' /\ Promise
  <2>1. /\ pc' = [pc EXCEPT ![c] = "rlock"] /\ doing' = [doing EXCEPT ![c] = kind]
        /\ UNCHANGED <<arg, idx, pools, graphs, plain, live, blocks, handle, open>>
    BY <1>2 DEF Dev!Make, Dev!Go, Dev!children, Dev!memory, Dev!device
  <2>2. OnlyMoved(c) /\ pc'[c] = "rlock"
    BY <1>1, <2>1 DEF CallsTyped, OnlyMoved
  <2> QED BY <2>1, <2>2, NoChildMoves
<1>3. ASSUME Dev!Close(c)
      PROVE  LiveInPlace' /\ Promise
  <2>1. /\ pc' = [pc EXCEPT ![c] = "wlock"] /\ doing' = [doing EXCEPT ![c] = "Close"]
        /\ UNCHANGED <<arg, idx, pools, graphs, plain, live, blocks, handle, open>>
    BY <1>3 DEF Dev!Close, Dev!Go, Dev!children, Dev!memory, Dev!device
  <2>2. OnlyMoved(c) /\ pc'[c] = "wlock"
    BY <1>1, <2>1 DEF CallsTyped, OnlyMoved
  <2> QED BY <2>1, <2>2, NoChildMoves
<1>4. ASSUME NEW h \in Handles, Dev!MarkClosed(c, h)
      PROVE  LiveInPlace' /\ Promise
  <2>1. /\ h \in graphs \/ (h \in pools /\ live[h] = 0)
        /\ handle' = [handle EXCEPT ![h] = "closed"] /\ arg' = [arg EXCEPT ![c] = h]
        /\ doing' = [doing EXCEPT ![c] = "CloseChild"] /\ pc' = [pc EXCEPT ![c] = "free"]
        /\ UNCHANGED <<idx, pools, graphs, plain, live, blocks, open>>
    BY <1>4 DEF Dev!MarkClosed, Dev!Go, Dev!children, Dev!device
  <2>2. OnlyMoved(c) /\ pc'[c] = "free"
    BY <1>1, <2>1 DEF CallsTyped, OnlyMoved
  <2>3. Dev!InSet' = Dev!InSet
    BY <2>1 DEF Dev!InSet
  <2>4. \A p \in PoolIds : handle'[p] # "open" => live'[p] = 0
    <3>1. \A p \in Handles : handle'[p] = IF p = h THEN "closed" ELSE handle[p]
      BY <1>1, <2>1 DEF ChildrenTyped
    <3>2. h \in PoolIds => live[h] = 0
      BY <1>1, <2>1, Constants DEF ChildrenTyped
    <3> QED BY <2>1, <3>1, <3>2 DEF RInv, LiveInPlace, Handles
  <2>5. LiveInPlace'
    BY <2>2, <2>3, <2>4, PlaceStep DEF RInv
  <2>6. \A p, n : Buf(p, n)' <=> Buf(p, n)
    BY <2>1, <2>3 DEF Buf
  <2> QED BY <2>1, <2>5, <2>6, NothingJoins
<1> QED BY <1>2, <1>3, <1>4 DEF Dev!Begin, Handles

\* A block of the implicit set gives a buffer.
LEMMA BufferJoins ==
  ASSUME RInv, NEW c \in Workers, OnlyMoved(c), pc'[c] = "idle", open, NEW p \in Dev!InSet,
         live' = [live EXCEPT ![p] = @ + 1], UNCHANGED <<open, pools, graphs, plain, blocks, handle>>
  PROVE  LiveInPlace' /\ Promise
<1>1. DInv /\ LiveInPlace /\ ChildrenTyped
  BY TypesSplit DEF RInv, DInv
<1>2. p \in PoolIds /\ handle[p] = "open" /\ \A q \in Dev!InSet : q \in PoolIds
  BY <1>1, SetIsOpen
<1>3. \A q \in PoolIds : live'[q] = IF q = p THEN live[q] + 1 ELSE live[q]
  BY <1>1 DEF ChildrenTyped
<1>4. Dev!InSet' = Dev!InSet
  BY DEF Dev!InSet
<1>5. LiveInPlace'
  BY <1>1, <1>2, <1>3, <1>4, PlaceStep DEF LiveInPlace
<1>6. PICK m : m = live[p] + 1
  OBVIOUS
<1>7. live[p] \in Nat /\ ~Buf(p, m)
  BY <1>1, <1>2, <1>6 DEF Buf, ChildrenTyped
<1>8. \A q, k : Buf(q, k)' <=> Buf(q, k) \/ (q = p /\ k = m)
  <2>1. \A k : k \in 1 .. live[p] + 1 <=> k \in 1 .. live[p] \/ k = m
    BY <1>6, <1>7
  <2> QED BY <1>2, <1>3, <1>4, <2>1 DEF Buf
<1> QED BY <1>5, <1>7, <1>8, BuffersChange

\* The steps that give the device a child.
LEMMA ChildJoins ==
  ASSUME Dev!DeviceAssumption, RInv, NEW c \in Workers,
         Dev!AddPool(c) \/ Dev!AppendBlock(c) \/ Dev!FirstBuffer(c) \/ Dev!Lower(c) \/ Dev!Register(c)
  PROVE  LiveInPlace' /\ Promise
<1>1. DInv /\ LiveInPlace /\ Dev!TypeOK /\ CallsTyped /\ LocksTyped /\ ChildrenTyped
  BY TypesSplit DEF RInv, DInv
<1>2. PICK h : h = arg[c]
  OBVIOUS
<1>3. Makes(c) /\ open /\ open' = open
  <2>1. Makes(c)
    BY DEF Dev!AddPool, Dev!AppendBlock, Dev!FirstBuffer, Dev!Lower, Dev!Register, Dev!At, Makes
  <2> QED BY <1>1, <2>1, MakersAreLetIn
    DEF Dev!AddPool, Dev!AppendBlock, Dev!FirstBuffer, Dev!Lower, Dev!Register, Dev!device
<1>4. CASE Dev!AddPool(c)
  <2>1. /\ pc[c] = "add" /\ h \in PoolIds /\ Dev!Return(c)
        /\ pools' = pools \union {h} /\ handle' = [handle EXCEPT ![h] = "open"]
        /\ UNCHANGED <<graphs, plain, live, blocks>>
    BY <1>1, <1>2, <1>4 DEF Dev!AddPool, Dev!At, DInv, CallFits
  <2>2. h \notin pools
    BY <1>1, <1>2, <1>3, <2>1, InHand DEF Owning
  <2>3. OnlyMoved(c) /\ pc'[c] = "idle" /\ Dev!InSet' = Dev!InSet
    BY <1>1, <2>1, Returns DEF Dev!InSet
  <2>4. \A p \in PoolIds : handle'[p] # "open" => live'[p] = 0
    BY <1>1, <2>1 DEF LiveInPlace, ChildrenTyped, Handles
  <2>5. LiveInPlace'
    BY <1>1, <2>3, <2>4, PlaceStep
  <2>6. <<"pool", h>> \notin Dev!Children
    BY <2>2, Members
  <2>7. \A y : y \in Dev!Children' <=> y \in Dev!Children \/ y = <<"pool", h>>
    BY <2>1, <2>3, Members, MembersAfter
  <2> QED BY <1>3, <2>5, <2>6, <2>7, OneJoins
<1>5. CASE Dev!AppendBlock(c)
  <2>1. /\ pc[c] = "append" /\ h \in PoolIds /\ Dev!Continue(c, "first")
        /\ blocks' = Append(blocks, h) /\ handle' = [handle EXCEPT ![h] = "open"]
        /\ UNCHANGED <<open, pools, graphs, plain, live>>
    BY <1>1, <1>2, <1>3, <1>5 DEF Dev!AppendBlock, Dev!At, Dev!children, DInv, CallFits
  <2>2. OnlyMoved(c) /\ pc'[c] = "first" /\ arg'[c] = h
    BY <1>1, <1>2, <2>1, Continues DEF Dev!Pcs
  <2>3. Dev!InSet' = Dev!InSet \union {h}
    BY <1>1, <2>1, SetGrows DEF ChildrenTyped
  <2>4. handle[h] = "making"
    BY <1>1, <1>2, <1>3, <2>1, InHand DEF Owning
  <2>5. live[h] = 0
    BY <1>1, <2>1, <2>4 DEF LiveInPlace
  <2>6. \A p \in PoolIds : handle'[p] # "open" => live'[p] = 0
    BY <1>1, <2>1 DEF LiveInPlace, ChildrenTyped, Handles
  <2>7. LiveInPlace'
    BY <1>1, <2>2, <2>3, <2>6, PlaceStep
  <2>8. \A p, n : Buf(p, n)' <=> Buf(p, n)
    <3>1. \A n : n \notin 1 .. live[h]
      BY <2>5
    <3> QED BY <2>1, <2>3, <3>1 DEF Buf
  <2> QED BY <2>1, <2>7, <2>8, NothingJoins
<1>6. CASE Dev!FirstBuffer(c)
  <2>1. /\ pc[c] = "first" /\ Dev!Return(c) /\ live' \in {live, [live EXCEPT ![h] = @ + 1]}
        /\ UNCHANGED <<open, pools, graphs, plain, blocks, handle>>
    BY <1>2, <1>3, <1>6 DEF Dev!FirstBuffer, Dev!At, Dev!memory
  <2>2. CASE live' = live
    BY <2>1, <2>2, NoChildReturns
  <2>3. CASE live' = [live EXCEPT ![h] = @ + 1]
    <3>1. h \in Dev!InSet
      BY <1>1, <1>2, <2>1 DEF LiveInPlace
    <3>2. OnlyMoved(c) /\ pc'[c] = "idle"
      BY <1>1, <2>1, Returns
    <3> QED BY <1>3, <2>1, <2>3, <3>1, <3>2, BufferJoins
  <2> QED BY <2>1, <2>2, <2>3
<1>7. CASE Dev!Lower(c)
  <2>1. /\ pc[c] = "lower" /\ h \in GraphIds /\ h \notin PoolIds /\ UNCHANGED <<open, pools, plain, live, blocks>>
    BY <1>1, <1>2, <1>3, <1>7, Constants DEF Dev!Lower, Dev!At, DInv, CallFits
  <2>2. CASE Dev!Continue(c, "uncount") /\ UNCHANGED <<graphs, handle>>
    BY <2>1, <2>2, NoChildContinues DEF Dev!Pcs
  <2>3. CASE graphs' = graphs \union {h} /\ handle' = [handle EXCEPT ![h] = "open"] /\ Dev!Return(c)
    <3>1. h \notin graphs
      BY <1>1, <1>2, <1>3, <2>1, InHand DEF Owning
    <3>2. OnlyMoved(c) /\ pc'[c] = "idle" /\ Dev!InSet' = Dev!InSet
      BY <1>1, <2>1, <2>3, Returns DEF Dev!InSet
    <3>3. \A p \in PoolIds : handle'[p] # "open" => live'[p] = 0
      BY <1>1, <2>1, <2>3 DEF LiveInPlace, ChildrenTyped, Handles
    <3>4. LiveInPlace'
      BY <1>1, <3>2, <3>3, PlaceStep
    <3>5. <<"graph", h>> \notin Dev!Children
      BY <3>1, Members
    <3>6. \A y : y \in Dev!Children' <=> y \in Dev!Children \/ y = <<"graph", h>>
      BY <2>1, <2>3, <3>2, Members, MembersAfter
    <3> QED BY <1>3, <3>4, <3>5, <3>6, OneJoins
  <2> QED BY <1>2, <1>7, <2>2, <2>3 DEF Dev!Lower
<1>8. CASE Dev!Register(c)
  <2>1. Dev!Return(c) /\ plain' = plain + 1 /\ plain \in Nat /\ UNCHANGED <<pools, graphs, live, blocks, handle>>
    BY <1>1, <1>8 DEF Dev!Register, Dev!memory, ChildrenTyped
  <2>2. OnlyMoved(c) /\ pc'[c] = "idle" /\ Dev!InSet' = Dev!InSet
    BY <1>1, <2>1, Returns DEF Dev!InSet
  <2>3. LiveInPlace'
    BY <1>1, <2>1, <2>2, PlaceStep DEF LiveInPlace
  <2>4. \A n : n \in 1 .. plain' <=> n \in 1 .. plain \/ n = plain + 1
    BY <2>1
  <2>5. PICK m : m = plain + 1
    OBVIOUS
  <2>6. <<"plain", m>> \notin Dev!Children
    BY <2>1, <2>5, Members
  <2>7. \A y : y \in Dev!Children' <=> y \in Dev!Children \/ y = <<"plain", m>>
    BY <2>1, <2>2, <2>4, <2>5, Members, MembersAfter
  <2> QED BY <1>3, <2>3, <2>6, <2>7, OneJoins
<1> QED BY <1>4, <1>5, <1>6, <1>7, <1>8

LEMMA MakingPromises ==
  ASSUME Dev!DeviceAssumption, RInv, NEW c \in Workers, Dev!Making(c)
  PROVE  LiveInPlace' /\ Promise
<1>1. DInv /\ LiveInPlace /\ Dev!TypeOK /\ CallsTyped /\ LocksTyped /\ ChildrenTyped
  BY TypesSplit DEF RInv, DInv
<1>2. CASE Dev!RLock(c)
  <2>1. UNCHANGED <<open, pools, graphs, plain, live, blocks, handle>>
    BY <1>2 DEF Dev!RLock, Dev!children, Dev!memory, Dev!device
  <2>2. CASE Dev!Return(c)
    BY <2>1, <2>2, NoChildReturns DEF RInv
  <2>3. CASE pc' = [pc EXCEPT ![c] = Dev!Registering[doing[c]]] /\ UNCHANGED <<doing, arg, idx>>
    <3>1. doing[c] \in {"NewPool", "NewBuffer", "Build", "Register"}
      BY <1>1, <1>2 DEF Dev!RLock, Dev!At, DInv, CallFits
    <3>2. Dev!Registering[doing[c]] \in {"cap", "setlock", "alloc", "register"}
      BY <3>1 DEF Dev!Registering
    <3>3. OnlyMoved(c) /\ pc'[c] \in {"cap", "setlock", "alloc", "register"}
      BY <1>1, <2>3, <3>2 DEF CallsTyped, OnlyMoved
    <3> QED BY <2>1, <3>3, NoChildMoves
  <2> QED BY <1>2, <2>2, <2>3 DEF Dev!RLock, Dev!Go
<1>3. CASE Dev!SetLock(c)
  <2>1. /\ pc' = [pc EXCEPT ![c] = "try"] /\ idx' = [idx EXCEPT ![c] = 1]
        /\ UNCHANGED <<open, pools, graphs, plain, live, blocks, handle, doing, arg>>
    BY <1>3 DEF Dev!SetLock, Dev!Go, Dev!children, Dev!memory, Dev!device
  <2>2. OnlyMoved(c) /\ pc'[c] = "try" /\ idx'[c] >= 1
    BY <1>1, <2>1 DEF CallsTyped, OnlyMoved
  <2> QED BY <2>1, <2>2, NoChildMoves
<1>4. CASE Dev!TryBlock(c)
  <2>1. /\ pc[c] = "try" /\ Makes(c) /\ idx[c] >= 1 /\ idx[c] \in Nat
        /\ UNCHANGED <<open, pools, graphs, plain, blocks, handle>>
    BY <1>1, <1>4 DEF Dev!TryBlock, Dev!At, Dev!memory, Dev!device, Makes, LiveInPlace, CallsTyped
  <2>2. CASE idx[c] =< Len(blocks) /\ live' = [live EXCEPT ![blocks[idx[c]]] = @ + 1] /\ Dev!Return(c)
    <3>0. PICK p : p = blocks[idx[c]]
      OBVIOUS
    <3>1. p \in Dev!InSet
      BY <1>1, <2>1, <2>2, <3>0 DEF Dev!InSet, ChildrenTyped
    <3>2. p \in PoolIds /\ handle[p] = "open" /\ open
      BY <1>1, <2>1, <3>1, SetIsOpen, MakersAreLetIn
    <3>3. OnlyMoved(c) /\ pc'[c] = "idle"
      BY <1>1, <2>2, Returns
    <3> QED BY <2>1, <2>2, <3>0, <3>1, <3>2, <3>3, BufferJoins
  <2>3. CASE idx' = [idx EXCEPT ![c] = @ + 1] /\ UNCHANGED <<Dev!locks, live, pc, doing, arg>>
    <3>1. OnlyMoved(c) /\ pc'[c] = "try" /\ idx'[c] = idx[c] + 1
      BY <1>1, <2>1, <2>3 DEF CallsTyped, OnlyMoved
    <3>2. idx'[c] >= 1
      BY <2>1, <3>1
    <3> QED BY <2>1, <2>3, <3>1, <3>2, NoChildMoves
  <2>4. CASE Dev!Continue(c, "cap") /\ UNCHANGED live
    BY <2>1, <2>4, NoChildContinues DEF Dev!Pcs
  <2> QED BY <1>4, <2>2, <2>3, <2>4 DEF Dev!TryBlock
<1>5. CASE Dev!ReadCap(c)
  <2>1. UNCHANGED <<open, pools, graphs, plain, live, blocks, handle>>
    BY <1>5 DEF Dev!ReadCap, Dev!children, Dev!memory, Dev!device
  <2>2. Dev!Return(c) \/ Dev!Continue(c, "alloc")
    BY <1>5 DEF Dev!ReadCap
  <2> QED BY <2>1, <2>2, NoChildReturns, NoChildContinues DEF Dev!Pcs
<1>6. CASE Dev!Alloc(c)
  <2>1. UNCHANGED <<open, pools, graphs, plain, live, blocks>> /\ pc[c] = "alloc" /\ doing[c] \in {"NewPool", "NewBuffer", "Build"}
    BY <1>1, <1>6 DEF Dev!Alloc, Dev!At, Dev!children, Dev!device, DInv, CallFits
  <2>2. CASE Dev!Return(c) /\ UNCHANGED handle
    BY <2>1, <2>2, NoChildReturns
  <2>3. ASSUME NEW h \in Handles, handle[h] = "none", handle' = [handle EXCEPT ![h] = "making"],
               arg' = [arg EXCEPT ![c] = h], pc' = [pc EXCEPT ![c] = Dev!Keeping[doing[c]]], UNCHANGED <<doing, idx>>
        PROVE  LiveInPlace' /\ Promise
    <3>1. Dev!Keeping[doing[c]] \in {"add", "append", "count"}
      BY <2>1 DEF Dev!Keeping
    <3>2. OnlyMoved(c) /\ pc'[c] \in {"add", "append", "count"}
      BY <1>1, <2>3, <3>1 DEF CallsTyped, OnlyMoved
    <3>3. Dev!InSet' = Dev!InSet
      BY <2>1 DEF Dev!InSet
    <3>4. \A p \in PoolIds : handle'[p] # "open" => live'[p] = 0
      <4>1. \A p \in Handles : handle'[p] = IF p = h THEN "making" ELSE handle[p]
        BY <1>1, <2>3 DEF ChildrenTyped
      <4> QED BY <1>1, <2>1, <2>3, <4>1 DEF LiveInPlace, Handles
    <3>5. LiveInPlace'
      BY <1>1, <3>2, <3>3, <3>4, PlaceStep
    <3>6. \A p, n : Buf(p, n)' <=> Buf(p, n)
      BY <2>1, <3>3 DEF Buf
    <3> QED BY <2>1, <3>5, <3>6, NothingJoins
  <2> QED BY <1>6, <2>2, <2>3 DEF Dev!Alloc, Dev!Go, Handles
<1>7. CASE Dev!CountGraphBlock(c)
  <2>1. UNCHANGED <<open, pools, graphs, plain, live, blocks, handle>> /\ Dev!Continue(c, "lower")
    BY <1>7 DEF Dev!CountGraphBlock, Dev!children, Dev!device
  <2> QED BY <2>1, NoChildContinues DEF Dev!Pcs
<1>8. CASE Dev!AddPool(c) \/ Dev!AppendBlock(c) \/ Dev!FirstBuffer(c) \/ Dev!Lower(c) \/ Dev!Register(c)
  BY <1>8, ChildJoins
<1> QED BY <1>2, <1>3, <1>4, <1>5, <1>6, <1>7, <1>8 DEF Dev!Making

LEMMA LeavingPromises ==
  ASSUME Dev!DeviceAssumption, RInv, NEW c \in Workers, Dev!Leaving(c)
  PROVE  LiveInPlace' /\ Promise
<1>1. DInv /\ LiveInPlace /\ Dev!TypeOK /\ ChildrenTyped
  BY TypesSplit DEF RInv, DInv
<1>2. PICK h : h = arg[c]
  OBVIOUS
<1>3. CASE Dev!Free(c)
  <2>1. UNCHANGED <<open, pools, graphs, plain, live, blocks, handle>> /\ \E to \in {"leave", "uncount"} : Dev!Continue(c, to)
    BY <1>3 DEF Dev!Free, Dev!children, Dev!device
  <2> QED BY <2>1, NoChildContinues DEF Dev!Pcs
<1>4. CASE Dev!Uncount(c)
  <2>1. UNCHANGED <<open, pools, graphs, plain, live, blocks>> /\ h \in GraphIds /\ h \notin PoolIds
    BY <1>1, <1>2, <1>4, Constants DEF Dev!Uncount, Dev!At, Dev!children, Dev!device, DInv, CallFits
  <2>2. CASE Dev!Continue(c, "leave") /\ UNCHANGED handle
    BY <2>1, <2>2, NoChildContinues DEF Dev!Pcs
  <2>3. CASE handle' = [handle EXCEPT ![h] = "none"] /\ Dev!Return(c)
    <3>1. OnlyMoved(c) /\ pc'[c] = "idle" /\ Dev!InSet' = Dev!InSet
      BY <1>1, <2>1, <2>3, Returns DEF Dev!InSet
    <3>2. \A p \in PoolIds : handle'[p] # "open" => live'[p] = 0
      BY <1>1, <2>1, <2>3 DEF LiveInPlace, ChildrenTyped, Handles
    <3>3. LiveInPlace'
      BY <1>1, <3>1, <3>2, PlaceStep
    <3>4. \A p, n : Buf(p, n)' <=> Buf(p, n)
      BY <2>1, <3>1 DEF Buf
    <3> QED BY <2>1, <3>3, <3>4, NothingJoins
  <2> QED BY <1>2, <1>4, <2>2, <2>3 DEF Dev!Uncount
<1>5. CASE Dev!Leave(c)
  <2>1. /\ pc[c] = "leave" /\ ~Makes(c) /\ h \in Handles /\ Dev!Return(c)
        /\ pools' = pools \ {h} /\ graphs' = graphs \ {h} /\ handle' = [handle EXCEPT ![h] = "none"]
        /\ UNCHANGED <<open, plain, live, blocks>>
    BY <1>1, <1>2, <1>5 DEF Dev!Leave, Dev!At, Dev!device, Makes, DInv, CallFits
  <2>2. h \in pools \union graphs /\ pools \cap graphs = {} /\ handle[h] = "closed"
    BY <1>1, <1>2, <2>1, InHand, Constants DEF Owning, ChildrenTyped
  <2>3. OnlyMoved(c) /\ pc'[c] = "idle" /\ Dev!InSet' = Dev!InSet
    BY <1>1, <2>1, Returns DEF Dev!InSet
  <2>4. \A p \in PoolIds : handle'[p] # "open" => live'[p] = 0
    <3>1. \A p \in Handles : handle'[p] = IF p = h THEN "none" ELSE handle[p]
      BY <1>1, <2>1 DEF ChildrenTyped
    <3> QED BY <1>1, <2>1, <2>2, <3>1 DEF LiveInPlace, Handles
  <2>5. LiveInPlace'
    BY <1>1, <2>3, <2>4, PlaceStep
  <2>6. CASE h \in pools
    <3>1. <<"pool", h>> \in Dev!Children
      BY <2>6, Members
    <3>2. graphs' = graphs
      BY <2>1, <2>2, <2>6
    <3>3. \A y : y \in Dev!Children' <=> y \in Dev!Children /\ y # <<"pool", h>>
      <4>1. \A y : (\E p \in pools' : y = <<"pool", p>>) <=> (\E p \in pools : y = <<"pool", p>>) /\ y # <<"pool", h>>
        BY <2>1
      <4> QED BY <2>1, <2>3, <3>2, <4>1, Members, MembersAfter
    <3> QED BY <2>1, <2>5, <3>1, <3>3, OneLeaves
  <2>7. CASE h \in graphs
    <3>1. <<"graph", h>> \in Dev!Children
      BY <2>7, Members
    <3>2. pools' = pools
      BY <2>1, <2>2, <2>7
    <3>3. \A y : y \in Dev!Children' <=> y \in Dev!Children /\ y # <<"graph", h>>
      <4>1. \A y : (\E p \in graphs' : y = <<"graph", p>>) <=> (\E p \in graphs : y = <<"graph", p>>) /\ y # <<"graph", h>>
        BY <2>1
      <4> QED BY <2>1, <2>3, <3>2, <4>1, Members, MembersAfter
    <3> QED BY <2>1, <2>5, <3>1, <3>3, OneLeaves
  <2> QED BY <2>2, <2>6, <2>7
<1> QED BY <1>3, <1>4, <1>5 DEF Dev!Leaving

LEMMA ClosingPromises ==
  ASSUME Dev!DeviceAssumption, RInv, NEW c \in Workers, Dev!Closing(c)
  PROVE  LiveInPlace' /\ Promise
<1>1. DInv /\ LiveInPlace /\ Dev!TypeOK /\ LocksExclude /\ CallsTyped /\ ChildrenTyped /\ Found(c)
  BY TypesSplit DEF RInv, DInv, ClosedIsEmpty
<1>2. CASE Dev!Lock(c)
  <2>1. /\ pc' = [pc EXCEPT ![c] = "drain"]
        /\ UNCHANGED <<doing, arg, idx, open, pools, graphs, plain, live, blocks, handle>>
    BY <1>2 DEF Dev!Lock, Dev!Go, Dev!children, Dev!memory, Dev!device
  <2>2. OnlyMoved(c) /\ pc'[c] = "drain"
    BY <1>1, <2>1 DEF CallsTyped, OnlyMoved
  <2> QED BY <2>1, <2>2, NoChildMoves
<1>3. CASE Dev!CountChildren(c)
  <2>1. /\ pc' = [pc EXCEPT ![c] = "countset"] /\ idx' = [idx EXCEPT ![c] = 1]
        /\ UNCHANGED <<doing, arg, open, pools, graphs, plain, live, blocks, handle>>
    BY <1>3 DEF Dev!CountChildren, Dev!Go, Dev!children, Dev!memory
  <2>2. OnlyMoved(c) /\ pc'[c] = "countset"
    BY <1>1, <2>1 DEF CallsTyped, OnlyMoved
  <2> QED BY <2>1, <2>2, NoChildMoves
<1>4. CASE Dev!CountBuffers(c)
  <2>1. pc[c] = "countset" /\ UNCHANGED <<open, pools, graphs, plain, live, blocks, handle>>
    BY <1>4 DEF Dev!CountBuffers, Dev!At, Dev!children, Dev!memory
  <2>2. CASE idx' = [idx EXCEPT ![c] = @ + 1] /\ UNCHANGED <<pc, doing, arg>>
    <3>1. OnlyMoved(c) /\ pc'[c] = "countset"
      BY <1>1, <2>1, <2>2 DEF CallsTyped, OnlyMoved
    <3> QED BY <2>1, <3>1, NoChildMoves
  <2>3. CASE Dev!Continue(c, "decide")
    BY <2>1, <2>3, NoChildContinues DEF Dev!Pcs
  <2> QED BY <1>4, <2>2, <2>3 DEF Dev!CountBuffers
\* The device closes, and Close has counted nothing.
<1>5. CASE Dev!Decide(c)
  <2>1. pc[c] = "decide" /\ UNCHANGED <<pools, graphs, plain, live, blocks, handle>>
    BY <1>5 DEF Dev!Decide, Dev!At, Dev!children, Dev!memory
  <2>2. CASE Dev!Return(c) /\ UNCHANGED open
    BY <2>1, <2>2, NoChildReturns
  <2>3. CASE found = {} /\ open /\ open' = FALSE /\ Dev!Continue(c, "closeset")
    <3>1. OnlyMoved(c) /\ pc'[c] = "closeset" /\ Dev!InSet' = Dev!InSet
      BY <1>1, <2>1, <2>3, Continues DEF Dev!Pcs, Dev!InSet
    <3>2. LiveInPlace'
      BY <1>1, <2>1, <3>1, PlaceStep DEF LiveInPlace
    <3>3. pools = {} /\ graphs = {} /\ plain = 0 /\ \A p \in Dev!InSet : live[p] = 0
      BY <1>1, <2>1, <2>3 DEF Found, NoChildren
    <3>4. 1 .. plain = {} /\ \A p \in Dev!InSet : 1 .. live[p] = {}
      BY <3>3
    <3>5. \A x : x \notin Dev!Children /\ x \notin Dev!Children'
      BY <2>1, <3>1, <3>3, <3>4, Members, MembersAfter
    <3>6. Dev!Children = {} /\ Dev!Children' = Dev!Children
      BY <3>5
    <3>7. Promise
      BY <2>3, <3>6 DEF Promise, Dev!Device!Next, Dev!Device!Close
    <3> QED BY <3>2, <3>7
  <2> QED BY <1>1, <1>5, <2>2, <2>3 DEF Dev!Decide, Dev!TypeOK
<1>6. CASE Dev!CloseSet(c)
  <2>1. /\ pc[c] = "closeset" /\ blocks' = <<>> /\ UNCHANGED <<open, pools, graphs, plain, live>>
    BY <1>6 DEF Dev!CloseSet, Dev!At, Dev!children, Dev!device
  <2>2. readers = {} /\ \A p \in Dev!InSet : live[p] = 0
    BY <1>1, <2>1, CloserIsAlone DEF Found, Counting
  <2>3. \A p \in Handles : handle'[p] = handle[p] \/ (handle'[p] = "none" /\ p \in Dev!InSet)
    BY <1>1, <1>6 DEF Dev!CloseSet, ChildrenTyped
  <2>4. OnlyMoved(c) /\ pc'[c] \in {"backend", "idle"}
    BY <1>1, <1>6, Returns, Continues DEF Dev!CloseSet, Dev!Pcs
  <2>5. \A d \in Workers : pc[d] # "first"
    BY <1>1, <2>2 DEF LocksExclude, Makes
  <2>6. LiveInPlace'
    BY <1>1, <2>1, <2>2, <2>3, <2>4, <2>5 DEF LiveInPlace, OnlyMoved, Handles
  <2>7. \A p, n : Buf(p, n)' <=> Buf(p, n)
    <3>1. Dev!InSet' = {}
      BY <2>1 DEF Dev!InSet
    <3>2. \A p \in Dev!InSet : 1 .. live[p] = {}
      BY <2>2
    <3> QED BY <3>1, <3>2 DEF Buf
  <2> QED BY <2>1, <2>6, <2>7, NothingJoins
<1>7. CASE Dev!CloseBackend(c)
  <2>1. Dev!Return(c) /\ UNCHANGED <<open, pools, graphs, plain, live, blocks, handle>>
    BY <1>7 DEF Dev!CloseBackend, Dev!children, Dev!memory
  <2> QED BY <2>1, NoChildReturns
<1> QED BY <1>2, <1>3, <1>4, <1>5, <1>6, <1>7 DEF Dev!Closing

LEMMA ChildPromises ==
  ASSUME Dev!DeviceAssumption, RInv,
         Dev!ClosePlain \/ \E p \in PoolIds : Dev!NewPoolBuffer(p) \/ Dev!CloseBuffer(p)
  PROVE  LiveInPlace' /\ Promise
<1>1. DInv /\ LiveInPlace /\ ChildrenTyped
  BY TypesSplit DEF RInv, DInv
<1>2. UNCHANGED <<open, pools, graphs, blocks, handle, pc, arg, idx>>
  BY DEF Dev!ClosePlain, Dev!NewPoolBuffer, Dev!CloseBuffer, Dev!device, Dev!memory
<1>3. Dev!InSet' = Dev!InSet
  BY <1>2 DEF Dev!InSet
<1>4. ASSUME \A p \in PoolIds : handle[p] # "open" => live'[p] = 0 PROVE LiveInPlace'
  BY <1>1, <1>2, <1>3, <1>4 DEF LiveInPlace
<1>5. CASE Dev!ClosePlain
  <2>1. plain \in Nat /\ plain > 0 /\ plain' = plain - 1 /\ live' = live
    BY <1>1, <1>5 DEF Dev!ClosePlain, ChildrenTyped
  <2>2. LiveInPlace'
    BY <1>1, <1>4, <2>1 DEF LiveInPlace
  <2>3. PICK m : m = plain
    OBVIOUS
  <2>4. \A n : n \in 1 .. plain' <=> n \in 1 .. plain /\ n # m
    BY <2>1, <2>3
  <2>5. m \in 1 .. plain
    BY <2>1, <2>3
  <2>6. <<"plain", m>> \in Dev!Children
    BY <2>5, Members
  <2>7. \A y : y \in Dev!Children' <=> y \in Dev!Children /\ y # <<"plain", m>>
    <3>1. \A y : (\E n \in 1 .. plain' : y = <<"plain", n>>) <=> (\E n \in 1 .. plain : y = <<"plain", n>>) /\ y # <<"plain", m>>
      BY <2>4
    <3> QED BY <1>2, <1>3, <2>1, <3>1, Members, MembersAfter
  <2> QED BY <1>2, <2>2, <2>6, <2>7, OneLeaves
<1>6. ASSUME NEW p \in PoolIds, Dev!NewPoolBuffer(p) PROVE LiveInPlace' /\ Promise
  <2>1. p \in pools /\ handle[p] = "open" /\ live' = [live EXCEPT ![p] = @ + 1] /\ plain' = plain
    BY <1>6 DEF Dev!NewPoolBuffer
  <2>2. \A q \in PoolIds : q # p => live'[q] = live[q]
    BY <1>1, <2>1 DEF ChildrenTyped
  <2>3. LiveInPlace'
    BY <1>1, <1>4, <2>1, <2>2 DEF LiveInPlace
  <2>4. \A q \in Dev!InSet : q # p /\ q \in PoolIds
    BY <1>1, <2>1, SetIsOpen
  <2>5. \A q, n : Buf(q, n)' <=> Buf(q, n)
    BY <1>3, <2>2, <2>4 DEF Buf
  <2> QED BY <1>2, <2>1, <2>3, <2>5, NothingJoins
<1>7. ASSUME NEW p \in PoolIds, Dev!CloseBuffer(p) PROVE LiveInPlace' /\ Promise
  <2>1. live[p] > 0 /\ live' = [live EXCEPT ![p] = @ - 1] /\ plain' = plain /\ live[p] \in Nat
    BY <1>1, <1>7 DEF Dev!CloseBuffer, ChildrenTyped
  <2>2. \A q \in PoolIds : live'[q] = IF q = p THEN live[p] - 1 ELSE live[q]
    BY <1>1, <2>1 DEF ChildrenTyped
  <2>3. handle[p] = "open"
    BY <1>1, <2>1 DEF LiveInPlace
  <2>4. LiveInPlace'
    BY <1>1, <1>4, <2>2, <2>3 DEF LiveInPlace
  <2>5. \A q \in Dev!InSet : q \in PoolIds
    BY <1>1, SetIsOpen
  <2>6. CASE p \notin Dev!InSet
    <3>1. \A q, n : Buf(q, n)' <=> Buf(q, n)
      BY <1>3, <2>2, <2>5, <2>6 DEF Buf
    <3> QED BY <1>2, <2>1, <2>4, <3>1, NothingJoins
  <2>7. CASE p \in Dev!InSet
    <3>1. PICK m : m = live[p]
      OBVIOUS
    <3>2. Buf(p, m)
      BY <2>1, <2>7, <3>1 DEF Buf
    <3>3. \A q, n : Buf(q, n)' <=> Buf(q, n) /\ ~(q = p /\ n = m)
      <4>1. \A n : n \in 1 .. live[p] - 1 <=> n \in 1 .. live[p] /\ n # m
        BY <2>1, <3>1
      <4> QED BY <1>3, <2>2, <2>5, <2>7, <4>1 DEF Buf
    <3> QED BY <1>2, <2>1, <2>4, <3>2, <3>3, BuffersChange
  <2> QED BY <2>6, <2>7
<1> QED BY <1>5, <1>6, <1>7

LEMMA NextPromises == ASSUME Dev!DeviceAssumption, RInv, [Dev!Next]_Dev!vars PROVE RInv' /\ Promise
<1>1. DInv'
  BY DeviceNext DEF RInv
<1>2. CASE UNCHANGED Dev!vars
  <2>1. UNCHANGED <<open, pools, graphs, plain, live, blocks, handle, pc, arg, idx>>
    BY <1>2 DEF Dev!vars, Dev!children, Dev!memory, Dev!device
  <2>2. Dev!InSet' = Dev!InSet
    BY <2>1 DEF Dev!InSet
  <2>3. LiveInPlace'
    BY <2>1, <2>2 DEF RInv, LiveInPlace
  <2>4. \A p, n : Buf(p, n)' <=> Buf(p, n)
    BY <2>1, <2>2 DEF Buf
  <2> QED BY <1>1, <2>1, <2>3, <2>4, NothingJoins DEF RInv
<1>3. CASE Dev!Next
  BY <1>1, <1>3, BeginPromises, MakingPromises, LeavingPromises, ClosingPromises, ChildPromises
  DEF RInv, Dev!Next, Dev!InCall
<1> QED BY <1>2, <1>3

LEMMA InitPromises == ASSUME Dev!DeviceAssumption, Dev!Init PROVE RInv /\ Dev!Device!Init
<1>1. DInv
  BY DeviceInit
<1>2. LiveInPlace
  BY DEF Dev!Init, LiveInPlace
<1>3. Dev!Children = {}
  <2>1. pools = {} /\ graphs = {} /\ plain = 0 /\ Dev!InSet = {}
    BY DEF Dev!Init, Dev!InSet
  <2>2. 1 .. plain = {}
    BY <2>1
  <2>3. \A x : x \notin Dev!Children
    BY <2>1, <2>2, Members
  <2> QED BY <2>3
<1>4. open = TRUE
  BY DEF Dev!Init
<1> QED BY <1>1, <1>2, <1>3, <1>4 DEF RInv, Dev!Device!Init

\* For every number of goroutines, pools and graphs: the device with its locks and its
\* counts is the registry.  A child joins only while the device is open, and the device
\* closes only without one, however creations interleave with the count that
\* Device.Close makes under several locks (device.go, pool.go, build.go).
THEOREM DeviceIsTheRegistry == ASSUME Dev!DeviceAssumption PROVE Dev!Spec => ImplementsRegistry
<1>1. Dev!Init => RInv /\ Dev!Device!Init
  BY InitPromises
<1>2. RInv /\ [Dev!Next]_Dev!vars => RInv' /\ [Dev!Device!Next]_<<open, Dev!Children>>
  BY NextPromises DEF Promise
<1> QED BY <1>1, <1>2, PTL DEF Dev!Spec, ImplementsRegistry, Dev!ImplementsRegistry, Dev!Device!Spec

-----------------------------------------------------------------------------
(***************************************************************************)
(* A surface: its frames keep their images and its drawables come back.    *)
(* The count of frames out, which the code keeps, must be the length of    *)
(* the order they went out in, which it does not; rotation then places     *)
(* each frame's image at its distance from the next one handed out.        *)
(***************************************************************************)

Stages == {"free", "acquiring", "held", "waiting", "checking", "showing", "ending", "discarding"}

View == {None} \union [made : Int, extent : Extents]

FrameRecord ==
  [at : Stages, gen : Int, index : Frame!Index, view : View, drawable : BOOLEAN]

FramesTyped ==
  /\ gen \in Nat /\ extent \in Extents /\ inFlight \in Nat /\ next \in Frame!Index
  /\ images \in [Frame!Index -> View] /\ frames \in [FrameIds -> FrameRecord]
  /\ drawables \in Int /\ onScreen \in Int
  /\ slot \in {None} \union [gen : Nat, extent : Extents]
  /\ order \in Seq(FrameIds)

\* An Acquire that waits for a drawable holds the lock, so what it found lasts.
AcquirersKnow ==
  \A f \in FrameIds :
    Frame!At(f, "acquiring") => mu = f /\ ~shut /\ inFlight < Images /\ images[next] # None

\* The frames out, oldest first, each once and as many as are counted.
OrderIsOut ==
  /\ inFlight = Cardinality(Frame!Out) /\ Len(order) = inFlight /\ inFlight <= Images
  /\ \A i \in DOMAIN order : order[i] \in Frame!Out
  /\ \A i, j \in DOMAIN order : order[i] = order[j] => i = j
  /\ \A f \in Frame!Out : \E i \in DOMAIN order : order[i] = f

\* A frame out is of this generation, a failed resize and Close notwithstanding,
\* and its image is the one in its place and of the surface's extent.
FramesAreOfNow ==
  \A f \in Frame!Out :
    /\ frames[f].gen = gen
    /\ ~shut => images[frames[f].index] = frames[f].view
    /\ ~broken => frames[f].view.extent = extent

ImagesFit == ~broken => \A i \in Frame!Index : images[i] # None => images[i].extent = extent

SlotFits == slot # None => slot.gen <= gen /\ (slot.gen = gen => slot.extent = extent)

\* The frame at place i of n out was given the image n - i before the last.
Turned(i) == LET at == next - (Len(order) - i + 1) IN IF at < 0 THEN at + Images ELSE at

ImagesRotate == ~overtaken => \A i \in DOMAIN order : frames[order[i]].index = Turned(i)

\* A frame on its way back has given up its drawable.
EndingsAreBare ==
  \A f \in FrameIds : frames[f].at \in {"ending", "discarding"} => ~frames[f].drawable

SInv ==
  /\ FramesTyped /\ AcquirersKnow /\ OrderIsOut /\ FramesAreOfNow
  /\ ImagesFit /\ SlotFits /\ ImagesRotate /\ EndingsAreBare

\* The frames that hold a drawable.
Lent == {f \in Frame!Out : frames[f].drawable}

-----------------------------------------------------------------------------
(* Cardinalities of an instance are the cardinalities of this module.        *)

LEMMA FrameCardinality == \A S : Frame!Cardinality(S) = Cardinality(S)
BY Zenon DEF Frame!Cardinality, Cardinality

LEMMA FrameFiniteness == \A S : Frame!IsFiniteSet(S) <=> IsFiniteSet(S)
BY Zenon DEF Frame!IsFiniteSet, IsFiniteSet

LEMMA FrameConstants ==
  ASSUME Frame!SurfaceAssumption
  PROVE  /\ IsFiniteSet(FrameIds) /\ None \notin FrameIds /\ Images \in Nat \ {0}
         /\ Drawables \in Nat /\ 0 \in Frame!Index
         /\ IsFiniteSet(Frame!Out) /\ IsFiniteSet(Lent)
<1>1. IsFiniteSet(FrameIds)
  BY FrameFiniteness DEF Frame!SurfaceAssumption
<1>2. Frame!Out \subseteq FrameIds /\ Lent \subseteq FrameIds
  BY DEF Frame!Out, Lent
<1> QED BY <1>1, <1>2, FS_Subset DEF Frame!SurfaceAssumption, Frame!Index

\* One frame changes hands, and the rest stay where they are.
OnlyFrame(f) == \A g \in FrameIds \ {f} : frames'[g] = frames[g]

LEMMA OutChanges ==
  ASSUME Frame!SurfaceAssumption, NEW f \in FrameIds, OnlyFrame(f)
  PROVE  /\ Cardinality(Frame!Out') = Cardinality(Frame!Out) + Mem(f, Frame!Out') - Mem(f, Frame!Out)
         /\ Cardinality(Lent') = Cardinality(Lent) + Mem(f, Lent') - Mem(f, Lent)
         /\ Cardinality(Frame!Out) \in Nat /\ Cardinality(Lent) \in Nat
         /\ Cardinality(Frame!Out') \in Nat /\ Cardinality(Lent') \in Nat
<1>1. IsFiniteSet(Frame!Out) /\ IsFiniteSet(Lent)
  BY FrameConstants
<1>2. Frame!Out \ {f} = Frame!Out' \ {f}
  BY DEF OnlyFrame, Frame!Out
<1>3. Lent \ {f} = Lent' \ {f}
  BY DEF OnlyFrame, Lent, Frame!Out
<1> QED BY <1>1, <1>2, <1>3, OneChanges

LEMMA SumsStay ==
  \A a, b, c, m, aa, bb, cc, mm, total \in Int :
    a + b + c = total /\ aa + bb + mm = a + b + m /\ cc = c + mm - m => aa + bb + cc = total
OBVIOUS

\* A drawable is counted once: where one joins the frames it leaves the rest.
LEMMA DrawablesMove ==
  ASSUME Frame!SurfaceAssumption, FramesTyped, FramesTyped', NEW f \in FrameIds, OnlyFrame(f),
         Frame!DrawablesComeBack,
         drawables' + onScreen' + Mem(f, Lent') = drawables + onScreen + Mem(f, Lent)
  PROVE  Frame!DrawablesComeBack'
<1>1. drawables + onScreen + Cardinality(Lent) = Drawables
  BY FrameCardinality DEF Frame!DrawablesComeBack, Lent
<1>2. drawables' + onScreen' + Cardinality(Lent') = Drawables
  <2>1. Mem(f, Lent') \in Int /\ Mem(f, Lent) \in Int
    BY DEF Mem
  <2>2. /\ drawables \in Int /\ onScreen \in Int /\ drawables' \in Int /\ onScreen' \in Int
        /\ Drawables \in Int
    BY FrameConstants DEF FramesTyped
  <2>3. /\ Cardinality(Lent) \in Int /\ Cardinality(Lent') \in Int
        /\ Cardinality(Lent') = Cardinality(Lent) + Mem(f, Lent') - Mem(f, Lent)
    BY OutChanges
  <2> QED BY <1>1, <2>1, <2>2, <2>3, SumsStay
<1> QED BY <1>2, FrameCardinality DEF Frame!DrawablesComeBack, Lent

\* No frame changes.
LEMMA DrawablesStay ==
  ASSUME Frame!DrawablesComeBack, UNCHANGED <<frames, drawables, onScreen>>
  PROVE  Frame!DrawablesComeBack'
BY DEF Frame!DrawablesComeBack, Frame!Out

-----------------------------------------------------------------------------
(* What steps of a kind preserve.                                            *)

\* Nothing that frames are judged by changes.
SurfaceStays == UNCHANGED <<gen, extent, inFlight, next, shut, images, slot, broken, order, overtaken>>

\* A frame out goes on with its call, or one that is not out begins or gives up.
LEMMA FrameGoesOn ==
  ASSUME Frame!SurfaceAssumption, SInv, NEW f \in FrameIds, OnlyFrame(f), SurfaceStays,
         frames' \in [FrameIds -> FrameRecord], drawables' \in Int, onScreen' \in Int,
         frames'[f].gen = frames[f].gen, frames'[f].index = frames[f].index,
         frames'[f].view = frames[f].view,
         f \in Frame!Out <=> f \in Frame!Out',
         frames'[f].at \in {"ending", "discarding"} => ~frames'[f].drawable,
         AcquirersKnow'
  PROVE  SInv'
<1> USE DEF SurfaceStays, OnlyFrame
<1>1. Frame!Out' = Frame!Out
  BY DEF Frame!Out
<1>2. FramesTyped'
  BY DEF SInv, FramesTyped
<1>3. OrderIsOut'
  BY <1>1, FrameCardinality DEF SInv, OrderIsOut
<1>4. \A g \in FrameIds : frames'[g].gen = frames[g].gen /\ frames'[g].index = frames[g].index /\ frames'[g].view = frames[g].view
  OBVIOUS
<1>5. FramesAreOfNow'
  BY <1>1, <1>4 DEF SInv, FramesAreOfNow, Frame!Out
<1>6. ImagesFit' /\ SlotFits'
  BY DEF SInv, ImagesFit, SlotFits
<1>7. ImagesRotate'
  BY <1>4 DEF SInv, ImagesRotate, Turned, OrderIsOut, Frame!Out
<1>8. EndingsAreBare'
  BY DEF SInv, EndingsAreBare
<1> QED BY <1>2, <1>3, <1>5, <1>6, <1>7, <1>8 DEF SInv

\* Whoever waits for a drawable still holds the lock.
LEMMA AcquirersStay ==
  ASSUME Frame!SurfaceAssumption, SInv, NEW f \in FrameIds, OnlyFrame(f), frames'[f].at # "acquiring",
         UNCHANGED <<inFlight, next, shut, images>>, mu' = mu \/ mu \in {None, f}
  PROVE  AcquirersKnow'
<1>1. SUFFICES ASSUME NEW g \in FrameIds, frames'[g].at = "acquiring"
               PROVE  mu' = g /\ ~shut' /\ inFlight' < Images /\ images'[next'] # None
  BY DEF AcquirersKnow, Frame!At
<1>2. g # f /\ frames[g].at = "acquiring"
  BY <1>1 DEF OnlyFrame
<1>3. mu = g /\ ~shut /\ inFlight < Images /\ images[next] # None
  BY <1>2 DEF SInv, AcquirersKnow, Frame!At
<1> QED BY <1>2, <1>3, FrameConstants

\* Whoever holds no lock while nobody does is not waiting for a drawable.
LEMMA NobodyAcquires ==
  ASSUME Frame!SurfaceAssumption, SInv, mu = None
  PROVE  \A f \in FrameIds : frames[f].at # "acquiring"
BY FrameConstants DEF SInv, AcquirersKnow, Frame!At

\* A frame's fields are of its record's types.
LEMMA FrameFields ==
  ASSUME SInv, NEW f \in FrameIds
  PROVE  /\ frames[f] \in FrameRecord
         /\ frames[f].at \in Stages /\ frames[f].gen \in Int /\ frames[f].index \in Frame!Index
         /\ frames[f].view \in View /\ frames[f].drawable \in BOOLEAN
BY DEF SInv, FramesTyped, FrameRecord

\* A frame moves from one stage to another.
LEMMA MovesStage ==
  ASSUME SInv, NEW f \in FrameIds, NEW to \in Stages, Frame!Move(f, to)
  PROVE  /\ frames' \in [FrameIds -> FrameRecord] /\ OnlyFrame(f) /\ frames'[f].at = to
         /\ frames'[f].gen = frames[f].gen /\ frames'[f].index = frames[f].index
         /\ frames'[f].view = frames[f].view /\ frames'[f].drawable = frames[f].drawable
<1>1. frames \in [FrameIds -> FrameRecord] /\ frames[f] \in FrameRecord
  BY DEF SInv, FramesTyped
<1>2. frames' = [frames EXCEPT ![f] = [frames[f] EXCEPT !.at = to]]
  BY DEF Frame!Move
<1>3. [frames[f] EXCEPT !.at = to] \in FrameRecord
  BY <1>1 DEF FrameRecord
<1> QED BY <1>1, <1>2, <1>3 DEF OnlyFrame, FrameRecord

\* A frame moves on and gives up its drawable.
LEMMA MovesBare ==
  ASSUME SInv, NEW f \in FrameIds, NEW to \in Stages,
         frames' = [frames EXCEPT ![f].at = to, ![f].drawable = FALSE]
  PROVE  /\ frames' \in [FrameIds -> FrameRecord] /\ OnlyFrame(f) /\ frames'[f].at = to
         /\ frames'[f].gen = frames[f].gen /\ frames'[f].index = frames[f].index
         /\ frames'[f].view = frames[f].view /\ ~frames'[f].drawable
<1>1. frames \in [FrameIds -> FrameRecord] /\ frames[f] \in FrameRecord
  BY DEF SInv, FramesTyped
<1>2. frames' = [frames EXCEPT ![f] = [frames[f] EXCEPT !.at = to, !.drawable = FALSE]]
  BY <1>1
<1>3. [frames[f] EXCEPT !.at = to, !.drawable = FALSE] \in FrameRecord
  BY <1>1 DEF FrameRecord
<1> QED BY <1>1, <1>2, <1>3 DEF OnlyFrame, FrameRecord

-----------------------------------------------------------------------------
(* The steps, each preserving the invariant and the drawables' account.      *)

SGood == SInv /\ Frame!DrawablesComeBack

LEMMA SurfaceInit ==
  ASSUME Frame!SurfaceAssumption, Frame!Init
  PROVE  SGood
<1>1. /\ gen = 0 /\ inFlight = 0 /\ next = 0 /\ ~shut /\ ~broken /\ extent \in Extents
      /\ images = [i \in Frame!Index |-> [made |-> 0, extent |-> extent]]
      /\ frames = [f \in FrameIds |-> Frame!NoFrame] /\ drawables = Drawables /\ onScreen = 0
      /\ slot = None /\ order = <<>>
  BY DEF Frame!Init
<1>2. Frame!NoFrame \in FrameRecord /\ Frame!NoFrame.at = "free"
  BY FrameConstants DEF Frame!NoFrame, FrameRecord, Stages, View
<1>3. \A f \in FrameIds : frames[f].at = "free"
  BY <1>1, <1>2
<1>4. Frame!Out = {} /\ Lent = {}
  BY <1>3 DEF Frame!Out, Lent
<1>5. FramesTyped
  <2>1. [made |-> 0, extent |-> extent] \in View
    BY <1>1 DEF View
  <2>2. order \in Seq(FrameIds)
    BY <1>1
  <2>3. 0 \in Frame!Index /\ Drawables \in Int
    BY FrameConstants
  <2> QED BY <1>1, <1>2, <2>1, <2>2, <2>3 DEF FramesTyped
<1>6. AcquirersKnow /\ EndingsAreBare
  BY <1>3 DEF AcquirersKnow, EndingsAreBare, Frame!At
<1>7. OrderIsOut
  BY <1>1, <1>4, FrameCardinality, FrameConstants, FS_EmptySet DEF OrderIsOut
<1>8. FramesAreOfNow /\ SlotFits
  BY <1>1, <1>4 DEF FramesAreOfNow, SlotFits
<1>9. ImagesFit
  BY <1>1 DEF ImagesFit
<1>10. ImagesRotate
  BY <1>1 DEF ImagesRotate
<1>11. Frame!DrawablesComeBack
  BY <1>1, <1>4, FrameCardinality, FrameConstants, FS_EmptySet DEF Frame!DrawablesComeBack, Lent
<1> QED BY <1>5, <1>6, <1>7, <1>8, <1>9, <1>10, <1>11 DEF SInv, SGood

\* A frame whose hold on a drawable does not change leaves the account alone.
LEMMA SameLoan ==
  ASSUME Frame!SurfaceAssumption, SGood, FramesTyped', NEW f \in FrameIds, OnlyFrame(f),
         f \in Lent <=> f \in Lent', UNCHANGED <<drawables, onScreen>>
  PROVE  Frame!DrawablesComeBack'
<1>1. drawables' + onScreen' + Mem(f, Lent') = drawables + onScreen + Mem(f, Lent)
  BY DEF Mem
<1> QED BY <1>1, DrawablesMove DEF SGood, SInv

\* Present, the fence's answer and the look at the generation move a frame out.
LEMMA OutMovesHolds ==
  ASSUME Frame!SurfaceAssumption, SGood, NEW f \in FrameIds, f \in Frame!Out,
         NEW to \in {"held", "waiting", "checking", "showing"}, Frame!Move(f, to),
         SurfaceStays, UNCHANGED <<mu, drawables, onScreen>>
  PROVE  SGood'
<1>1. /\ frames' \in [FrameIds -> FrameRecord] /\ OnlyFrame(f) /\ frames'[f].at = to
      /\ frames'[f].gen = frames[f].gen /\ frames'[f].index = frames[f].index
      /\ frames'[f].view = frames[f].view /\ frames'[f].drawable = frames[f].drawable
  BY MovesStage DEF SGood, Stages
<1>2. AcquirersKnow'
  BY <1>1, AcquirersStay DEF SGood, SurfaceStays
<1>3. f \in Frame!Out'
  BY <1>1 DEF Frame!Out
<1>4. SInv'
  BY <1>1, <1>2, <1>3, FrameGoesOn DEF SGood, SInv, FramesTyped
<1>5. Frame!DrawablesComeBack'
  BY <1>1, <1>3, <1>4, SameLoan DEF Lent, SInv
<1> QED BY <1>4, <1>5 DEF SGood

LEMMA PresentHolds ==
  ASSUME Frame!SurfaceAssumption, SGood, NEW f \in FrameIds, Frame!Present(f) \/ Frame!FenceAnswers(f)
  PROVE  SGood'
<1>1. f \in Frame!Out
  BY DEF Frame!Present, Frame!FenceAnswers, Frame!At, Frame!Out
<1>2. /\ SurfaceStays /\ UNCHANGED <<mu, drawables, onScreen>>
      /\ \E to \in {"held", "waiting", "checking", "showing"} : Frame!Move(f, to)
  BY DEF Frame!Present, Frame!FenceAnswers, SurfaceStays, Frame!surface, Frame!history
<1> QED BY <1>1, <1>2, OutMovesHolds

\* A windowed Acquire begins to wait with the lock, or its deadline passes.
LEMMA AcquireWaits ==
  ASSUME Frame!SurfaceAssumption, SGood, NEW f \in FrameIds, Frame!Acquire(f), windowed
  PROVE  SGood'
<1>1. /\ Frame!At(f, "free") /\ mu = None /\ ~shut /\ inFlight < Images /\ images[next] # None
      /\ mu' = f /\ Frame!Move(f, "acquiring") /\ SurfaceStays /\ UNCHANGED <<drawables, onScreen>>
  BY DEF Frame!Acquire, SurfaceStays, Frame!surface, Frame!history
<1>2. /\ frames' \in [FrameIds -> FrameRecord] /\ OnlyFrame(f) /\ frames'[f].at = "acquiring"
      /\ frames'[f].gen = frames[f].gen /\ frames'[f].index = frames[f].index
      /\ frames'[f].view = frames[f].view /\ frames'[f].drawable = frames[f].drawable
  BY <1>1, MovesStage DEF SGood, Stages
<1>3. AcquirersKnow'
  <2>1. \A g \in FrameIds \ {f} : frames'[g].at # "acquiring"
    BY <1>1, <1>2, NobodyAcquires DEF OnlyFrame, SGood
  <2> QED BY <1>1, <2>1 DEF AcquirersKnow, Frame!At, SurfaceStays
<1>4. f \notin Frame!Out /\ f \notin Frame!Out'
  BY <1>1, <1>2 DEF Frame!Out, Frame!At
<1>5. SInv'
  BY <1>1, <1>2, <1>3, <1>4, FrameGoesOn DEF SGood, SInv, FramesTyped
<1>6. Frame!DrawablesComeBack'
  BY <1>1, <1>2, <1>4, <1>5, SameLoan DEF Lent, SInv
<1> QED BY <1>5, <1>6 DEF SGood

LEMMA ExpireHolds ==
  ASSUME Frame!SurfaceAssumption, SGood, NEW f \in FrameIds, Frame!Expire(f)
  PROVE  SGood'
<1>1. /\ Frame!At(f, "acquiring") /\ mu' = None /\ Frame!Move(f, "free")
      /\ SurfaceStays /\ UNCHANGED <<drawables, onScreen>>
  BY DEF Frame!Expire, SurfaceStays, Frame!surface, Frame!history
<1>2. /\ frames' \in [FrameIds -> FrameRecord] /\ OnlyFrame(f) /\ frames'[f].at = "free"
      /\ frames'[f].gen = frames[f].gen /\ frames'[f].index = frames[f].index
      /\ frames'[f].view = frames[f].view /\ frames'[f].drawable = frames[f].drawable
  BY <1>1, MovesStage DEF SGood, Stages
<1>3. mu = f
  BY <1>1 DEF SGood, SInv, AcquirersKnow
<1>4. AcquirersKnow'
  BY <1>1, <1>2, <1>3, AcquirersStay DEF SGood, SurfaceStays
<1>5. f \notin Frame!Out /\ f \notin Frame!Out'
  BY <1>1, <1>2 DEF Frame!Out, Frame!At
<1>6. SInv'
  BY <1>1, <1>2, <1>4, <1>5, FrameGoesOn DEF SGood, SInv, FramesTyped
<1>7. Frame!DrawablesComeBack'
  BY <1>1, <1>2, <1>5, <1>6, SameLoan DEF Lent, SInv
<1> QED BY <1>6, <1>7 DEF SGood

\* Where a drawable a frame held goes: to the screen, or back to the compositor.
GivesUp(f) ==
  drawables' + onScreen' = drawables + onScreen + (IF frames[f].drawable THEN 1 ELSE 0)

LEMMA BareMovesHolds ==
  ASSUME Frame!SurfaceAssumption, SGood, NEW f \in FrameIds, f \in Frame!Out,
         NEW to \in {"ending", "discarding"},
         frames' = [frames EXCEPT ![f].at = to, ![f].drawable = FALSE],
         SurfaceStays, UNCHANGED mu, drawables' \in Int, onScreen' \in Int, GivesUp(f)
  PROVE  SGood'
<1>1. /\ frames' \in [FrameIds -> FrameRecord] /\ OnlyFrame(f) /\ frames'[f].at = to
      /\ frames'[f].gen = frames[f].gen /\ frames'[f].index = frames[f].index
      /\ frames'[f].view = frames[f].view /\ ~frames'[f].drawable
  <2>1. SInv /\ to \in Stages
    BY DEF SGood, Stages
  <2> QED BY <2>1, MovesBare
<1>2. AcquirersKnow'
  BY <1>1, AcquirersStay DEF SGood, SurfaceStays
<1>3. f \in Frame!Out'
  BY <1>1 DEF Frame!Out
<1>4. SInv'
  BY <1>1, <1>2, <1>3, FrameGoesOn DEF SGood
<1>5. Mem(f, Lent') = 0 /\ Mem(f, Lent) = IF frames[f].drawable THEN 1 ELSE 0
  BY <1>1 DEF Mem, Lent
<1>6. drawables' + onScreen' + Mem(f, Lent') = drawables + onScreen + Mem(f, Lent)
  BY <1>5 DEF GivesUp
<1>7. Frame!DrawablesComeBack'
  BY <1>1, <1>4, <1>6, DrawablesMove DEF SGood, SInv
<1> QED BY <1>4, <1>7 DEF SGood

LEMMA ShowHolds ==
  ASSUME Frame!SurfaceAssumption, SGood, NEW f \in FrameIds, Frame!Show(f)
  PROVE  SGood'
<1>1. /\ Frame!At(f, "showing")
      /\ frames' = [frames EXCEPT ![f].at = "ending", ![f].drawable = FALSE]
      /\ SurfaceStays /\ UNCHANGED mu
  BY DEF Frame!Show, SurfaceStays, Frame!surface, Frame!history
<1>2. drawables' \in Int /\ onScreen' \in Int /\ GivesUp(f)
  <2>1. drawables \in Int /\ onScreen \in Int
    BY DEF SGood, SInv, FramesTyped
  <2> QED BY <2>1 DEF Frame!Show, GivesUp
<1> QED BY <1>1, <1>2, BareMovesHolds DEF Frame!At, Frame!Out

LEMMA DiscardHolds ==
  ASSUME Frame!SurfaceAssumption, SGood, NEW f \in FrameIds, Frame!Discard(f)
  PROVE  SGood'
<1>1. /\ Frame!At(f, "held")
      /\ frames' = [frames EXCEPT ![f].at = "discarding", ![f].drawable = FALSE]
      /\ SurfaceStays /\ UNCHANGED mu
  BY DEF Frame!Discard, SurfaceStays, Frame!surface, Frame!history
<1>2. drawables' \in Int /\ onScreen' \in Int /\ GivesUp(f)
  <2>1. drawables \in Int /\ onScreen \in Int
    BY DEF SGood, SInv, FramesTyped
  <2> QED BY <2>1 DEF Frame!Discard, GivesUp
<1> QED BY <1>1, <1>2, BareMovesHolds DEF Frame!At, Frame!Out

-----------------------------------------------------------------------------
(* Steps that move no frame.                                                 *)

LEMMA FreeDrawableHolds ==
  ASSUME Frame!SurfaceAssumption, SGood, Frame!FreeDrawable
  PROVE  SGood'
<1>1. /\ UNCHANGED <<frames, mu>> /\ SurfaceStays
      /\ onScreen' = onScreen - 1 /\ drawables' = drawables + 1
  BY DEF Frame!FreeDrawable, SurfaceStays, Frame!surface, Frame!history
<1>2. drawables \in Int /\ onScreen \in Int
  BY DEF SGood, SInv, FramesTyped
<1>3. FramesTyped'
  BY <1>1, <1>2 DEF SGood, SInv, FramesTyped, SurfaceStays
<1>4. Frame!Out' = Frame!Out /\ Lent' = Lent
  BY <1>1 DEF Frame!Out, Lent
<1>5. (AcquirersKnow /\ OrderIsOut /\ FramesAreOfNow)'
  BY <1>1, <1>4, FrameCardinality DEF SGood, SInv, AcquirersKnow, OrderIsOut, FramesAreOfNow,
     Frame!At, SurfaceStays
<1>6. (ImagesFit /\ SlotFits /\ ImagesRotate /\ EndingsAreBare)'
  BY <1>1 DEF SGood, SInv, ImagesFit, SlotFits, ImagesRotate, Turned, EndingsAreBare, SurfaceStays
<1>7. Frame!DrawablesComeBack'
  <2>1. drawables' + onScreen' = drawables + onScreen
    BY <1>1, <1>2
  <2> QED BY <1>4, <2>1, FrameCardinality DEF SGood, Frame!DrawablesComeBack, Lent
<1> QED BY <1>3, <1>5, <1>6, <1>7 DEF SInv, SGood

LEMMA InvalidateHolds ==
  ASSUME Frame!SurfaceAssumption, SGood, Frame!Invalidate
  PROVE  SGood'
<1>1. UNCHANGED <<frames, mu, drawables, onScreen>> /\ SurfaceStays
  BY DEF Frame!Invalidate, SurfaceStays, Frame!history
<1>2. Frame!Out' = Frame!Out
  BY <1>1 DEF Frame!Out
<1>3. (FramesTyped /\ AcquirersKnow /\ OrderIsOut /\ FramesAreOfNow)'
  BY <1>1, <1>2, FrameCardinality DEF SGood, SInv, FramesTyped, AcquirersKnow, OrderIsOut, FramesAreOfNow,
     Frame!At, SurfaceStays
<1>4. (ImagesFit /\ SlotFits /\ ImagesRotate /\ EndingsAreBare)'
  BY <1>1 DEF SGood, SInv, ImagesFit, SlotFits, ImagesRotate, Turned, EndingsAreBare, SurfaceStays
<1> QED BY <1>1, <1>3, <1>4, DrawablesStay DEF SInv, SGood

LEMMA PresentSlotHolds ==
  ASSUME Frame!SurfaceAssumption, SGood, Frame!PresentSlot
  PROVE  SGood'
<1>1. /\ UNCHANGED <<frames, mu, drawables, onScreen>> /\ slot' = [gen |-> gen, extent |-> extent]
      /\ UNCHANGED <<gen, extent, inFlight, next, shut, images, broken, order, overtaken>>
  BY DEF Frame!PresentSlot, Frame!surface, Frame!history
<1>2. Frame!Out' = Frame!Out
  BY <1>1 DEF Frame!Out
<1>3. gen \in Nat /\ extent \in Extents
  BY DEF SGood, SInv, FramesTyped
<1>4. (FramesTyped /\ SlotFits)'
  BY <1>1, <1>3 DEF SGood, SInv, FramesTyped, SlotFits
<1>5. (AcquirersKnow /\ OrderIsOut /\ FramesAreOfNow)'
  BY <1>1, <1>2, FrameCardinality DEF SGood, SInv, AcquirersKnow, OrderIsOut, FramesAreOfNow, Frame!At
<1>6. (ImagesFit /\ ImagesRotate /\ EndingsAreBare)'
  BY <1>1 DEF SGood, SInv, ImagesFit, ImagesRotate, Turned, EndingsAreBare
<1> QED BY <1>1, <1>4, <1>5, <1>6, DrawablesStay DEF SInv, SGood

\* Close takes the images, and nothing more is said of them.
LEMMA SurfaceCloseHolds ==
  ASSUME Frame!SurfaceAssumption, SGood, Frame!Close
  PROVE  SGood'
<1>1. /\ UNCHANGED <<frames, mu, drawables, onScreen>> /\ mu = None /\ shut'
      /\ images' = [i \in Frame!Index |-> None]
      /\ UNCHANGED <<gen, extent, inFlight, next, slot, broken, order, overtaken>>
  BY DEF Frame!Close, Frame!history
<1>2. Frame!Out' = Frame!Out
  BY <1>1 DEF Frame!Out
<1>3. FramesTyped'
  BY <1>1 DEF SGood, SInv, FramesTyped, View
<1>4. AcquirersKnow'
  BY <1>1, NobodyAcquires DEF SGood, AcquirersKnow, Frame!At
<1>5. (OrderIsOut /\ FramesAreOfNow)'
  BY <1>1, <1>2, FrameCardinality DEF SGood, SInv, OrderIsOut, FramesAreOfNow
<1>6. ImagesFit'
  BY <1>1 DEF ImagesFit
<1>7. (SlotFits /\ ImagesRotate /\ EndingsAreBare)'
  BY <1>1 DEF SGood, SInv, SlotFits, ImagesRotate, Turned, EndingsAreBare
<1> QED BY <1>1, <1>3, <1>4, <1>5, <1>6, <1>7, DrawablesStay DEF SInv, SGood

-----------------------------------------------------------------------------
(* A resize: no frame is out, so none is left behind.                        *)

LEMMA NothingIsOut ==
  ASSUME Frame!SurfaceAssumption, SInv, inFlight = 0
  PROVE  Frame!Out = {} /\ order = <<>>
<1>1. Cardinality(Frame!Out) = 0 /\ Len(order) = 0
  BY FrameCardinality DEF SInv, OrderIsOut
<1>2. order \in Seq(FrameIds)
  BY DEF SInv, FramesTyped
<1> QED BY <1>1, <1>2, FrameConstants, FS_EmptySet

LEMMA ImagesAreRemade ==
  ASSUME Frame!SurfaceAssumption, SInv, NEW e \in Extents, NEW k \in 0 .. Images,
         Frame!Reconfigure(e, k)
  PROVE  /\ images' \in [Frame!Index -> View]
         /\ \A i \in Frame!Index : images'[i] # None => images'[i].extent = e
<1>1. [made |-> gen + 1, extent |-> e] \in View /\ None \in View
  BY DEF SInv, FramesTyped, View
<1> QED BY <1>1 DEF Frame!Reconfigure

LEMMA ResizeHolds ==
  ASSUME Frame!SurfaceAssumption, SGood, NEW e \in Extents, Frame!Resize(e)
  PROVE  SGood'
<1>1. /\ mu = None /\ inFlight = 0 /\ Frame!Reconfigure(e, Images)
      /\ gen' = gen + 1 /\ extent' = e /\ inFlight' = 0 /\ next' = 0 /\ ~broken'
      /\ UNCHANGED <<mu, frames, drawables, onScreen, slot, order, overtaken>>
  BY DEF Frame!Resize
<1>2. Frame!Out = {} /\ order = <<>> /\ Frame!Out' = {}
  BY <1>1, NothingIsOut DEF SGood, Frame!Out
<1>3. /\ images' \in [Frame!Index -> View]
      /\ \A i \in Frame!Index : images'[i] # None => images'[i].extent = e
  BY <1>1, FrameConstants, ImagesAreRemade DEF SGood
<1>4. FramesTyped'
  BY <1>1, <1>3, FrameConstants DEF SGood, SInv, FramesTyped
<1>5. AcquirersKnow'
  BY <1>1, NobodyAcquires DEF SGood, AcquirersKnow, Frame!At
<1>6. OrderIsOut'
  BY <1>1, <1>2, FrameCardinality, FrameConstants, FS_EmptySet DEF OrderIsOut
<1>7. (FramesAreOfNow /\ ImagesRotate /\ ImagesFit)'
  BY <1>1, <1>2, <1>3 DEF FramesAreOfNow, ImagesRotate, ImagesFit
<1>8. SlotFits'
  <2>1. gen \in Nat /\ (slot # None => slot.gen \in Nat /\ slot.gen <= gen)
    BY DEF SGood, SInv, SlotFits, FramesTyped
  <2> QED BY <1>1, <2>1 DEF SlotFits
<1>9. EndingsAreBare'
  BY <1>1 DEF SGood, SInv, EndingsAreBare
<1> QED BY <1>1, <1>4, <1>5, <1>6, <1>7, <1>8, <1>9, DrawablesStay DEF SInv, SGood

LEMMA ResizeFailsHolds ==
  ASSUME Frame!SurfaceAssumption, SGood, NEW e \in Extents, Frame!ResizeFails(e)
  PROVE  SGood'
<1>1. /\ mu = None /\ inFlight = 0 /\ broken'
      /\ UNCHANGED <<mu, gen, extent, inFlight, next, shut, frames, drawables, onScreen, slot, order, overtaken>>
  BY DEF Frame!ResizeFails, Frame!surface
<1>2. PICK k \in 0 .. Images : Frame!Reconfigure(e, k)
  BY DEF Frame!ResizeFails
<1>3. Frame!Out = {} /\ order = <<>> /\ Frame!Out' = {}
  BY <1>1, NothingIsOut DEF SGood, Frame!Out
<1>4. images' \in [Frame!Index -> View]
  BY <1>2, ImagesAreRemade DEF SGood
<1>5. FramesTyped'
  BY <1>1, <1>4 DEF SGood, SInv, FramesTyped
<1>6. AcquirersKnow'
  BY <1>1, NobodyAcquires DEF SGood, AcquirersKnow, Frame!At
<1>7. OrderIsOut'
  BY <1>1, <1>3, FrameCardinality, FrameConstants, FS_EmptySet DEF OrderIsOut
<1>8. (FramesAreOfNow /\ ImagesRotate /\ ImagesFit)'
  BY <1>1, <1>3 DEF FramesAreOfNow, ImagesRotate, ImagesFit
<1>9. (SlotFits /\ EndingsAreBare)'
  BY <1>1 DEF SGood, SInv, SlotFits, EndingsAreBare
<1> QED BY <1>1, <1>5, <1>6, <1>7, <1>8, <1>9, DrawablesStay DEF SInv, SGood

-----------------------------------------------------------------------------
(* A frame is handed out, or comes back.                                     *)

LEMMA NextImage ==
  ASSUME Frame!SurfaceAssumption, NEW n \in Frame!Index
  PROVE  (n + 1) % Images = IF n + 1 = Images THEN 0 ELSE n + 1
BY FrameConstants DEF Frame!Index

LEMMA HandOutHolds ==
  ASSUME Frame!SurfaceAssumption, SGood, NEW f \in FrameIds, NEW d \in BOOLEAN, Frame!HandOut(f, d),
         f \notin Frame!Out, ~shut, inFlight < Images, images[next] # None,
         mu' = None, mu \in {None, f}, UNCHANGED <<images, onScreen, slot>>,
         drawables' = drawables - (IF d THEN 1 ELSE 0)
  PROVE  SGood'
<1> DEFINE new == [at |-> "held", gen |-> gen, index |-> next, view |-> images[next], drawable |-> d]
<1>1. /\ frames' = [frames EXCEPT ![f] = new] /\ next' = (next + 1) % Images
      /\ inFlight' = inFlight + 1 /\ order' = Append(order, f)
      /\ UNCHANGED <<gen, extent, shut, broken, overtaken>>
  BY DEF Frame!HandOut
<1>2. FramesTyped
  BY DEF SGood, SInv
<1>3. new \in FrameRecord
  BY <1>2 DEF FramesTyped, FrameRecord, Stages
<1>4. /\ frames' \in [FrameIds -> FrameRecord] /\ OnlyFrame(f) /\ frames'[f] = new
      /\ frames'[f].at = "held" /\ frames'[f].gen = gen /\ frames'[f].index = next
      /\ frames'[f].view = images[next] /\ frames'[f].drawable = d
  BY <1>1, <1>2, <1>3 DEF FramesTyped, OnlyFrame
<1> HIDE DEF new
<1>5. Frame!Out' = Frame!Out \union {f}
  BY <1>4 DEF Frame!Out, OnlyFrame
<1>6. next' = (IF next + 1 = Images THEN 0 ELSE next + 1) /\ next' \in Frame!Index
  <2>1. next \in Frame!Index
    BY <1>2 DEF FramesTyped
  <2> QED BY <1>1, <2>1, NextImage, FrameConstants DEF Frame!Index
<1>7. /\ order \in Seq(FrameIds) /\ order' \in Seq(FrameIds) /\ Len(order') = Len(order) + 1
      /\ order'[Len(order) + 1] = f /\ \A i \in 1 .. Len(order) : order'[i] = order[i]
  BY <1>1, <1>2 DEF FramesTyped
<1>8. FramesTyped'
  BY <1>1, <1>2, <1>4, <1>6, <1>7 DEF FramesTyped
<1>9. AcquirersKnow'
  <2>1. \A g \in FrameIds : frames'[g].at # "acquiring"
    BY <1>4, FrameConstants DEF OnlyFrame, SGood, SInv, AcquirersKnow, Frame!At
  <2> QED BY <2>1 DEF AcquirersKnow, Frame!At
<1>10. OrderIsOut'
  <2>1. /\ inFlight = Cardinality(Frame!Out) /\ Len(order) = inFlight
        /\ \A i \in 1 .. Len(order) : order[i] \in Frame!Out
        /\ \A i, j \in 1 .. Len(order) : order[i] = order[j] => i = j
        /\ \A g \in Frame!Out : \E i \in 1 .. Len(order) : order[i] = g
    BY <1>7, FrameCardinality DEF SGood, SInv, OrderIsOut
  <2>2. inFlight' = Cardinality(Frame!Out')
    <3>1. Mem(f, Frame!Out') = 1 /\ Mem(f, Frame!Out) = 0
      BY <1>5 DEF Mem
    <3>2. Cardinality(Frame!Out') = Cardinality(Frame!Out) + 1 - 0 /\ Cardinality(Frame!Out) \in Nat
      BY <1>4, <3>1, OutChanges
    <3> QED BY <1>1, <2>1, <3>2
  <2>3. Len(order') = inFlight' /\ inFlight' <= Images
    BY <1>1, <1>2, <1>7, <2>1, FrameConstants DEF FramesTyped
  <2>4. DOMAIN order' = 1 .. Len(order) + 1 /\ Len(order) \in Nat
    BY <1>7
  <2>5. \A i \in DOMAIN order' : order'[i] \in Frame!Out'
    BY <1>5, <1>7, <2>1, <2>4
  <2>6. \A i, j \in DOMAIN order' : order'[i] = order'[j] => i = j
    BY <1>7, <2>1, <2>4
  <2>7. \A g \in Frame!Out' : \E i \in DOMAIN order' : order'[i] = g
    <3>1. SUFFICES ASSUME NEW g \in Frame!Out' PROVE \E i \in DOMAIN order' : order'[i] = g
      OBVIOUS
    <3>2. CASE g = f
      BY <1>7, <2>4, <3>2
    <3>3. CASE g # f
      <4>1. PICK i \in 1 .. Len(order) : order[i] = g
        BY <1>5, <2>1, <3>1, <3>3
      <4> QED BY <1>7, <2>4, <4>1
    <3> QED BY <3>2, <3>3
  <2> QED BY <2>2, <2>3, <2>5, <2>6, <2>7, FrameCardinality DEF OrderIsOut
<1>11. FramesAreOfNow'
  <2>1. frames'[f].gen = gen' /\ images'[frames'[f].index] = frames'[f].view
    BY <1>1, <1>4
  <2>2. ~broken => images[next].extent = extent
    BY <1>2 DEF SGood, SInv, ImagesFit, FramesTyped
  <2> QED BY <1>1, <1>4, <1>5, <2>1, <2>2 DEF SGood, SInv, FramesAreOfNow, OnlyFrame, Frame!Out
<1>12. (ImagesFit /\ SlotFits)'
  BY <1>1 DEF SGood, SInv, ImagesFit, SlotFits
<1>13. ImagesRotate'
  <2>1. SUFFICES ASSUME ~overtaken, NEW i \in 1 .. Len(order) + 1
                 PROVE  frames'[order'[i]].index = Turned(i)'
    BY <1>1, <1>7 DEF ImagesRotate
  <2>2. next \in 0 .. Images - 1 /\ Len(order) \in Nat /\ Len(order) < Images /\ Images \in Nat
    BY <1>2, <1>7, FrameConstants DEF FramesTyped, Frame!Index, SGood, SInv, OrderIsOut
  <2>3. CASE i = Len(order) + 1
    BY <1>4, <1>6, <1>7, <2>2, <2>3 DEF Turned
  <2>4. CASE i # Len(order) + 1
    <3>1. i \in 1 .. Len(order)
      BY <2>2, <2>4
    <3>2. order'[i] = order[i] /\ order[i] \in Frame!Out /\ order[i] # f
      BY <1>7, <3>1 DEF SGood, SInv, OrderIsOut
    <3>3. frames'[order'[i]].index = Turned(i)
      BY <1>4, <1>7, <2>1, <3>1, <3>2 DEF SGood, SInv, ImagesRotate, OnlyFrame, Frame!Out
    <3>4. Turned(i)' = Turned(i)
      BY <1>6, <1>7, <2>2, <3>1 DEF Turned
    <3> QED BY <3>3, <3>4
  <2> QED BY <2>3, <2>4
<1>14. EndingsAreBare'
  BY <1>4 DEF SGood, SInv, EndingsAreBare, OnlyFrame
<1>15. Frame!DrawablesComeBack'
  <2>1. Mem(f, Lent) = 0 /\ Mem(f, Lent') = IF d THEN 1 ELSE 0
    BY <1>4, <1>5 DEF Mem, Lent
  <2>2. drawables' + onScreen' + Mem(f, Lent') = drawables + onScreen + Mem(f, Lent)
    BY <1>2, <2>1 DEF FramesTyped
  <2> QED BY <1>2, <1>4, <1>8, <2>2, DrawablesMove DEF SGood
<1> QED BY <1>8, <1>9, <1>10, <1>11, <1>12, <1>13, <1>14, <1>15 DEF SInv, SGood

LEMMA AcquireHolds ==
  ASSUME Frame!SurfaceAssumption, SGood, NEW f \in FrameIds, Frame!Acquire(f)
  PROVE  SGood'
<1>1. CASE windowed
  BY <1>1, AcquireWaits
<1>2. CASE ~windowed
  <2>1. /\ Frame!At(f, "free") /\ mu = None /\ ~shut /\ inFlight < Images /\ images[next] # None
        /\ Frame!HandOut(f, FALSE) /\ UNCHANGED <<mu, images, drawables, onScreen, slot>>
    BY <1>2 DEF Frame!Acquire
  <2>2. drawables' = drawables - 0 /\ f \notin Frame!Out
    BY <2>1 DEF SGood, SInv, FramesTyped, Frame!At, Frame!Out
  <2> QED BY <2>1, <2>2, HandOutHolds
<1> QED BY <1>1, <1>2

LEMMA TakeDrawableHolds ==
  ASSUME Frame!SurfaceAssumption, SGood, NEW f \in FrameIds, Frame!TakeDrawable(f)
  PROVE  SGood'
<1>1. /\ Frame!At(f, "acquiring") /\ drawables' = drawables - 1 /\ mu' = None
      /\ Frame!HandOut(f, TRUE) /\ UNCHANGED <<images, onScreen, slot>>
  BY DEF Frame!TakeDrawable
<1>2. mu = f /\ ~shut /\ inFlight < Images /\ images[next] # None /\ f \notin Frame!Out
  BY <1>1 DEF SGood, SInv, AcquirersKnow, Frame!At, Frame!Out
<1> QED BY <1>1, <1>2, HandOutHolds

\* One of a sequence without repetitions goes, and the rest close up.
LEMMA TurnsClose ==
  ASSUME FramesTyped, OrderIsOut, NEW f \in Frame!Out, order' = Frame!RemoveAt(order, Frame!Turn(f))
  PROVE  \E t \in 1 .. Len(order) :
           /\ order[t] = f /\ order' \in Seq(FrameIds) /\ Len(order') = Len(order) - 1
           /\ \A i \in 1 .. Len(order) - 1 : order'[i] = IF i < t THEN order[i] ELSE order[i + 1]
<1> DEFINE t == Frame!Turn(f)
<1>1. order \in Seq(FrameIds) /\ Len(order) \in Nat /\ DOMAIN order = 1 .. Len(order)
  BY DEF FramesTyped
<1>2. t \in 1 .. Len(order) /\ order[t] = f
  BY <1>1 DEF Frame!Turn, OrderIsOut
<1> HIDE DEF t
<1>3. order' = SubSeq(order, 1, t - 1) \o SubSeq(order, t + 1, Len(order))
  BY DEF Frame!RemoveAt, t
<1> DEFINE before == SubSeq(order, 1, t - 1)
           after == SubSeq(order, t + 1, Len(order))
<1>4. /\ before \in Seq(FrameIds) /\ Len(before) = t - 1
      /\ \A i \in 1 .. t - 1 : before[i] = order[i]
  <2>1. \A i \in 1 .. t - 1 : order[i] \in FrameIds
    BY <1>1, <1>2
  <2>2. /\ before \in Seq(FrameIds) /\ Len(before) = IF 1 <= t - 1 THEN (t - 1) - 1 + 1 ELSE 0
        /\ \A i \in 1 .. (t - 1) - 1 + 1 : before[i] = order[1 + i - 1]
    BY <1>2, <2>1, SubSeqProperties, t - 1 \in Int, 1 \in Int
  <2> QED BY <1>2, <2>2
<1>5. /\ after \in Seq(FrameIds) /\ Len(after) = Len(order) - t
      /\ \A i \in 1 .. Len(order) - t : after[i] = order[t + i]
  <2>1. \A i \in t + 1 .. Len(order) : order[i] \in FrameIds
    BY <1>1, <1>2
  <2>2. t + 1 \in Int /\ Len(order) \in Int
    BY <1>1, <1>2
  <2>3. /\ after \in Seq(FrameIds)
        /\ Len(after) = IF t + 1 <= Len(order) THEN Len(order) - (t + 1) + 1 ELSE 0
        /\ \A i \in 1 .. Len(order) - (t + 1) + 1 : after[i] = order[(t + 1) + i - 1]
    BY <2>1, <2>2, SubSeqProperties
  <2>4. Len(after) = Len(order) - t
    <3>1. Len(order) \in Int /\ t \in Int /\ t <= Len(order)
      BY <1>1, <1>2
    <3>2. Len(after) = IF t + 1 <= Len(order) THEN Len(order) - (t + 1) + 1 ELSE 0
      BY <2>3
    <3>3. CASE t + 1 <= Len(order)
      BY <3>1, <3>2, <3>3
    <3>4. CASE ~(t + 1 <= Len(order))
      BY <3>1, <3>2, <3>4
    <3> QED BY <3>3, <3>4
  <2>5. ASSUME NEW i \in 1 .. Len(order) - t
        PROVE  after[i] = order[t + i]
    <3>1. i \in 1 .. Len(order) - (t + 1) + 1 /\ (t + 1) + i - 1 = t + i
      BY <1>1, <1>2
    <3>2. after[i] = order[(t + 1) + i - 1]
      BY <2>3, <3>1
    <3> QED BY <3>1, <3>2
  <2> QED BY <2>3, <2>4, <2>5
<1> HIDE DEF before, after
<1>6. /\ order' \in Seq(FrameIds) /\ Len(order') = Len(order) - 1
      /\ \A i \in 1 .. Len(order) - 1 : order'[i] = IF i <= t - 1 THEN before[i] ELSE after[i - (t - 1)]
  <2>1. order' = before \o after
    BY <1>3 DEF before, after
  <2>2. /\ before \o after \in Seq(FrameIds) /\ Len(before \o after) = Len(before) + Len(after)
        /\ \A i \in 1 .. Len(before) + Len(after) :
             (before \o after)[i] = IF i <= Len(before) THEN before[i] ELSE after[i - Len(before)]
    BY <1>4, <1>5, ConcatProperties
  <2>3. Len(before) + Len(after) = Len(order) - 1
    BY <1>1, <1>2, <1>4, <1>5
  <2> QED BY <1>4, <2>1, <2>2, <2>3
<1>7. ASSUME NEW i \in 1 .. Len(order) - 1
      PROVE  order'[i] = IF i < t THEN order[i] ELSE order[i + 1]
  <2>1. CASE i < t
    BY <1>1, <1>2, <1>4, <1>6, <2>1
  <2>2. CASE ~(i < t)
    <3>1. order'[i] = after[i - (t - 1)]
      BY <1>1, <1>2, <1>6, <2>2
    <3>2. i - (t - 1) \in 1 .. Len(order) - t /\ t + (i - (t - 1)) = i + 1
      BY <1>1, <1>2, <2>2
    <3> QED BY <1>5, <2>2, <3>1, <3>2
  <2> QED BY <2>1, <2>2
<1> QED BY <1>2, <1>6, <1>7

LEMMA GoBackHolds ==
  ASSUME Frame!SurfaceAssumption, SGood, NEW f \in FrameIds, Frame!GoBack(f),
         f \in Frame!Out, ~frames[f].drawable, mu = None, inFlight' = inFlight - 1,
         UNCHANGED <<mu, gen, extent, next, shut, images, drawables, onScreen, slot>>
  PROVE  SGood'
<1>1. /\ frames' = [frames EXCEPT ![f] = Frame!NoFrame] /\ UNCHANGED broken
      /\ order' = Frame!RemoveAt(order, Frame!Turn(f))
      /\ overtaken' = (order' # <<>> /\ (overtaken \/ Head(order) # f))
  BY DEF Frame!GoBack
<1>2. FramesTyped /\ OrderIsOut /\ EndingsAreBare
  BY DEF SGood, SInv
<1>3. Frame!NoFrame \in FrameRecord /\ Frame!NoFrame.at = "free" /\ ~Frame!NoFrame.drawable
  BY FrameConstants DEF Frame!NoFrame, FrameRecord, Stages, View
<1>4. frames' \in [FrameIds -> FrameRecord] /\ OnlyFrame(f) /\ frames'[f] = Frame!NoFrame
  BY <1>1, <1>2, <1>3 DEF FramesTyped, OnlyFrame
<1>5. Frame!Out' = Frame!Out \ {f}
  BY <1>3, <1>4 DEF Frame!Out, OnlyFrame
<1>6. PICK t \in 1 .. Len(order) :
           /\ order[t] = f /\ order' \in Seq(FrameIds) /\ Len(order') = Len(order) - 1
           /\ \A i \in 1 .. Len(order) - 1 : order'[i] = IF i < t THEN order[i] ELSE order[i + 1]
  BY <1>1, <1>2, TurnsClose
<1>7. /\ inFlight = Cardinality(Frame!Out) /\ Len(order) = inFlight /\ inFlight <= Images
      /\ DOMAIN order = 1 .. Len(order) /\ Len(order) \in Nat
      /\ \A i \in 1 .. Len(order) : order[i] \in Frame!Out
      /\ \A i, j \in 1 .. Len(order) : order[i] = order[j] => i = j
      /\ \A g \in Frame!Out : \E i \in 1 .. Len(order) : order[i] = g
  <2>1. order \in Seq(FrameIds)
    BY <1>2 DEF FramesTyped
  <2>2. DOMAIN order = 1 .. Len(order) /\ Len(order) \in Nat
    BY <2>1
  <2> QED BY <1>2, <2>2, FrameCardinality DEF OrderIsOut
<1>8. DOMAIN order' = 1 .. Len(order) - 1
  BY <1>6
<1>9. inFlight' \in Nat /\ inFlight' = Cardinality(Frame!Out')
  <2>1. Mem(f, Frame!Out') = 0 /\ Mem(f, Frame!Out) = 1
    BY <1>5 DEF Mem
  <2>2. /\ Cardinality(Frame!Out') = Cardinality(Frame!Out) + 0 - 1
        /\ Cardinality(Frame!Out) \in Nat /\ Cardinality(Frame!Out') \in Nat
    BY <1>4, <2>1, OutChanges
  <2> QED BY <1>7, <2>2
<1>10. FramesTyped'
  BY <1>2, <1>4, <1>6, <1>9 DEF FramesTyped
<1>11. AcquirersKnow'
  <2>1. \A g \in FrameIds : frames'[g].at # "acquiring"
    BY <1>3, <1>4, NobodyAcquires DEF OnlyFrame, SGood
  <2> QED BY <2>1 DEF AcquirersKnow, Frame!At
<1>12. OrderIsOut'
  <2>1. Len(order') = inFlight' /\ inFlight' <= Images
    BY <1>6, <1>7, <1>9, FrameConstants
  <2>2. \A i \in 1 .. Len(order) - 1 : \E j \in 1 .. Len(order) \ {t} :
          order'[i] = order[j] /\ j = IF i < t THEN i ELSE i + 1
    BY <1>6, <1>7
  <2>3. \A i \in DOMAIN order' : order'[i] \in Frame!Out'
    BY <1>5, <1>6, <1>7, <1>8, <2>2
  <2>4. \A i, j \in DOMAIN order' : order'[i] = order'[j] => i = j
    <3>1. SUFFICES ASSUME NEW i \in 1 .. Len(order) - 1, NEW j \in 1 .. Len(order) - 1, order'[i] = order'[j]
                   PROVE  i = j
      BY <1>8
    <3> QED BY <1>6, <1>7, <3>1
  <2>5. \A g \in Frame!Out' : \E i \in DOMAIN order' : order'[i] = g
    <3>1. SUFFICES ASSUME NEW g \in Frame!Out' PROVE \E i \in 1 .. Len(order) - 1 : order'[i] = g
      BY <1>8
    <3>2. PICK j \in 1 .. Len(order) : order[j] = g
      BY <1>5, <1>7
    <3>3. j # t
      BY <1>5, <1>6, <3>2
    <3>4. CASE j < t
      BY <1>6, <1>7, <3>2, <3>4
    <3>5. CASE j > t
      <4>1. j - 1 \in 1 .. Len(order) - 1 /\ ~(j - 1 < t) /\ (j - 1) + 1 = j
        BY <1>6, <1>7, <3>5
      <4>2. order'[j - 1] = order[(j - 1) + 1]
        BY <1>6, <4>1
      <4> QED BY <3>2, <4>1, <4>2
    <3> QED BY <1>6, <3>3, <3>4, <3>5
  <2> QED BY <1>9, <2>1, <2>3, <2>4, <2>5, FrameCardinality DEF OrderIsOut
<1>13. FramesAreOfNow'
  BY <1>1, <1>4, <1>5 DEF SGood, SInv, FramesAreOfNow, OnlyFrame, Frame!Out
<1>14. (ImagesFit /\ SlotFits)'
  BY <1>1 DEF SGood, SInv, ImagesFit, SlotFits
<1>15. ImagesRotate'
  <2>1. SUFFICES ASSUME ~overtaken', NEW i \in 1 .. Len(order) - 1
                 PROVE  frames'[order'[i]].index = Turned(i)'
    BY <1>8 DEF ImagesRotate
  <2>2. order' # <<>>
    BY <1>6, <1>7, <2>1
  <2>3. ~overtaken /\ t = 1
    <3>1. ~overtaken /\ Head(order) = f
      BY <1>1, <2>1, <2>2
    <3>2. order[1] = f /\ 1 \in 1 .. Len(order)
      BY <1>2, <1>7, <2>1, <3>1 DEF FramesTyped
    <3> QED BY <1>6, <1>7, <3>1, <3>2
  <2>4. /\ order'[i] = order[i + 1] /\ i + 1 \in 1 .. Len(order)
        /\ order[i + 1] # f /\ order[i + 1] \in Frame!Out
    BY <1>6, <1>7, <2>3
  <2>5. frames'[order'[i]].index = Turned(i + 1)
    BY <1>4, <1>7, <2>3, <2>4 DEF SGood, SInv, ImagesRotate, OnlyFrame, Frame!Out
  <2>6. Turned(i)' = Turned(i + 1)
    BY <1>6, <1>7 DEF Turned
  <2> QED BY <2>5, <2>6
<1>16. EndingsAreBare'
  BY <1>2, <1>3, <1>4 DEF EndingsAreBare, OnlyFrame
<1>17. Frame!DrawablesComeBack'
  <2>1. f \notin Lent /\ f \notin Lent'
    BY <1>5 DEF Lent
  <2> QED BY <1>4, <1>10, <2>1, SameLoan
<1> QED BY <1>10, <1>11, <1>12, <1>13, <1>14, <1>15, <1>16, <1>17 DEF SInv, SGood

LEMMA EndPresentHolds ==
  ASSUME Frame!SurfaceAssumption, SGood, NEW f \in FrameIds, Frame!EndPresent(f)
  PROVE  SGood'
<1>1. /\ Frame!At(f, "ending") /\ mu = None /\ inFlight' = inFlight - 1 /\ Frame!GoBack(f)
      /\ UNCHANGED <<mu, gen, extent, next, shut, images, drawables, onScreen, slot>>
  BY DEF Frame!EndPresent
<1>2. f \in Frame!Out /\ ~frames[f].drawable
  BY <1>1 DEF SGood, SInv, EndingsAreBare, Frame!At, Frame!Out
<1> QED BY <1>1, <1>2, GoBackHolds

LEMMA EndDiscardHolds ==
  ASSUME Frame!SurfaceAssumption, SGood, NEW f \in FrameIds, Frame!EndDiscard(f)
  PROVE  SGood'
<1>1. /\ Frame!At(f, "discarding") /\ mu = None /\ Frame!GoBack(f)
      /\ inFlight' = inFlight - (IF frames[f].gen = gen THEN 1 ELSE 0)
      /\ UNCHANGED <<mu, gen, extent, next, shut, images, drawables, onScreen, slot>>
  BY DEF Frame!EndDiscard
<1>2. f \in Frame!Out /\ ~frames[f].drawable /\ frames[f].gen = gen
  BY <1>1 DEF SGood, SInv, EndingsAreBare, FramesAreOfNow, Frame!At, Frame!Out
<1> QED BY <1>1, <1>2, GoBackHolds

\* The stale branch of Present, which would count no frame out, is never taken.
LEMMA CheckStaleHolds ==
  ASSUME Frame!SurfaceAssumption, SGood, NEW f \in FrameIds, Frame!CheckStale(f)
  PROVE  SGood'
<1>1. f \in Frame!Out /\ frames[f].gen = gen
  BY DEF Frame!CheckStale, SGood, SInv, FramesAreOfNow, Frame!At, Frame!Out
<1>2. Frame!Move(f, "showing") /\ SurfaceStays /\ UNCHANGED <<mu, drawables, onScreen>>
  BY <1>1 DEF Frame!CheckStale, SurfaceStays, Frame!surface, Frame!history
<1> QED BY <1>1, <1>2, OutMovesHolds

LEMMA SurfaceNext ==
  ASSUME Frame!SurfaceAssumption, SGood, [Frame!Next]_(Frame!vars)
  PROVE  SGood'
<1>1. CASE Frame!Next
  <2>1. ASSUME NEW f \in FrameIds, Frame!Acquire(f) PROVE SGood'
    BY <2>1, AcquireHolds
  <2>2. ASSUME NEW f \in FrameIds, Frame!Present(f) \/ Frame!FenceAnswers(f) PROVE SGood'
    BY <2>2, PresentHolds
  <2>3. ASSUME NEW f \in FrameIds, Frame!Discard(f) PROVE SGood'
    BY <2>3, DiscardHolds
  <2>4. ASSUME NEW f \in FrameIds, Frame!TakeDrawable(f) \/ Frame!Expire(f) PROVE SGood'
    BY <2>4, TakeDrawableHolds, ExpireHolds
  <2>5. ASSUME NEW f \in FrameIds, Frame!CheckStale(f) \/ Frame!Show(f) PROVE SGood'
    BY <2>5, CheckStaleHolds, ShowHolds
  <2>6. ASSUME NEW f \in FrameIds, Frame!EndPresent(f) \/ Frame!EndDiscard(f) PROVE SGood'
    BY <2>6, EndPresentHolds, EndDiscardHolds
  <2>7. ASSUME NEW e \in Extents, Frame!Resize(e) \/ Frame!ResizeFails(e) PROVE SGood'
    BY <2>7, ResizeHolds, ResizeFailsHolds
  <2>8. CASE Frame!FreeDrawable \/ Frame!Invalidate \/ Frame!Close \/ Frame!PresentSlot
    BY <2>8, FreeDrawableHolds, InvalidateHolds, SurfaceCloseHolds, PresentSlotHolds
  <2> QED BY <1>1, <2>1, <2>2, <2>3, <2>4, <2>5, <2>6, <2>7, <2>8 DEF Frame!Next, Frame!InCall
<1>2. CASE UNCHANGED Frame!vars
  <2>1. /\ SurfaceStays /\ UNCHANGED <<frames, mu, drawables, onScreen>>
    BY <1>2 DEF Frame!vars, Frame!surface, Frame!history, SurfaceStays
  <2>2. Frame!Out' = Frame!Out
    BY <2>1 DEF Frame!Out
  <2>3. (FramesTyped /\ AcquirersKnow /\ OrderIsOut /\ FramesAreOfNow)'
    BY <2>1, <2>2, FrameCardinality DEF SGood, SInv, FramesTyped, AcquirersKnow, OrderIsOut, FramesAreOfNow,
       Frame!At, SurfaceStays
  <2>4. (ImagesFit /\ SlotFits /\ ImagesRotate /\ EndingsAreBare)'
    BY <2>1 DEF SGood, SInv, ImagesFit, SlotFits, ImagesRotate, Turned, EndingsAreBare, SurfaceStays
  <2> QED BY <2>1, <2>3, <2>4, DrawablesStay DEF SInv, SGood
<1> QED BY <1>1, <1>2

\* Places in the order differ by less than the images there are, so no two frames
\* out, in rotation, have the same one.
LEMMA SGoodImplies ==
  ASSUME Frame!SurfaceAssumption, SGood
  PROVE  Frame!FramesKeepTheirImage
<1>1. Frame!FramesAreCurrent
  BY FrameCardinality DEF SGood, SInv, OrderIsOut, FramesAreOfNow, Frame!FramesAreCurrent
<1>2. Frame!ImagesHaveOneHolder
  <2>1. SUFFICES ASSUME ~overtaken, NEW f \in Frame!Out, NEW g \in Frame!Out, f # g
                 PROVE  frames[f].index # frames[g].index
    BY DEF Frame!ImagesHaveOneHolder
  <2>2. DOMAIN order = 1 .. Len(order) /\ Len(order) \in Nat /\ next \in 0 .. Images - 1
    BY DEF SGood, SInv, FramesTyped, Frame!Index
  <2>3. Len(order) <= Images /\ Images \in Nat
    BY FrameConstants DEF SGood, SInv, OrderIsOut
  <2>4. PICK i \in 1 .. Len(order) : order[i] = f
    BY <2>2 DEF SGood, SInv, OrderIsOut
  <2>5. PICK j \in 1 .. Len(order) : order[j] = g
    BY <2>2 DEF SGood, SInv, OrderIsOut
  <2>6. frames[f].index = Turned(i) /\ frames[g].index = Turned(j)
    BY <2>1, <2>2, <2>4, <2>5 DEF SGood, SInv, ImagesRotate
  <2>7. Turned(i) # Turned(j)
    <3>1. i # j
      BY <2>1, <2>4, <2>5
    <3> QED BY <2>2, <2>3, <3>1 DEF Turned
  <2> QED BY <2>6, <2>7
<1>3. Frame!BoundFramesFit
  <2>1. SUFFICES ASSUME NEW f \in FrameIds, Frame!BindPresentAccepts(f), ~broken
                 PROVE  frames[f].view.extent = slot.extent
    BY DEF Frame!BoundFramesFit
  <2>2. slot # None /\ f \in Frame!Out /\ frames[f].gen = slot.gen
    BY <2>1 DEF Frame!BindPresentAccepts
  <2>3. frames[f].gen = gen /\ frames[f].view.extent = extent
    BY <2>1, <2>2 DEF SGood, SInv, FramesAreOfNow
  <2> QED BY <2>2, <2>3 DEF SGood, SInv, SlotFits
<1> QED BY <1>1, <1>2, <1>3 DEF Frame!FramesKeepTheirImage

-----------------------------------------------------------------------------
\* A frame out names an image that is there and its own, and of the extent its
\* graph was recorded for, whatever the numbers of frames, images and resizes
\* (Acquire, Present, Resize and BindPresent of surface.go).
THEOREM FramesAreTrue ==
  ASSUME Frame!SurfaceAssumption PROVE Frame!Spec => []FramesKeepTheirImage
<1>1. Frame!Init => SGood
  BY SurfaceInit
<1>2. SGood /\ [Frame!Next]_(Frame!vars) => SGood'
  BY SurfaceNext
<1>3. SGood => FramesKeepTheirImage
  BY SGoodImplies DEF FramesKeepTheirImage
<1> QED BY <1>1, <1>2, <1>3, PTL DEF Frame!Spec

\* The compositor's drawables are all accounted for: free, on the screen, or with a
\* frame that is out (Acquire's wait, Present's show and Discard of surface.go).
THEOREM NoDrawableIsLost ==
  ASSUME Frame!SurfaceAssumption PROVE Frame!Spec => []DrawablesComeBack
<1>1. Frame!Init => SGood
  BY SurfaceInit
<1>2. SGood /\ [Frame!Next]_(Frame!vars) => SGood'
  BY SurfaceNext
<1>3. SGood => DrawablesComeBack
  BY DEF SGood, DrawablesComeBack
<1> QED BY <1>1, <1>2, <1>3, PTL DEF Frame!Spec
=============================================================================
