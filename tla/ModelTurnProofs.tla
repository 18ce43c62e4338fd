--------------------------- MODULE ModelTurnProofs ---------------------------
(***************************************************************************)
(* Safety of a run for any number of steps, attempts, stream parts and     *)
(* store faults.                                                           *)
(*                                                                         *)
(* What is promised of a run that has returned depends on where each step  *)
(* left its message and its calls, so the invariant follows the place of   *)
(* the goroutine: what the steps before the current one have left, what    *)
(* the current one has stored so far, and what the turns that runWith will *)
(* write once more are about.                                              *)
(***************************************************************************)
EXTENDS ModelTurn, SequenceTheorems, TLAPS

Failing == {"noTurn", "turnFailed", "finishFailed", "finishFinal"}
Active == {"first", "start", "open", "resettle", "wait", "stream", "finish", "retain",
           "assembled", "tools", "worked", "answered"} \cup Failing
Ended == {"closing", "persist", "returned"}

Row == [state : {None, "in_progress", "completed", "failed"}, revision : Nat]
FailedTurn == [step : Steps, attempt : Attempts, failure : Replies]

TypeOK ==
  /\ pc \in Active \cup Ended \cup {"top"}
  /\ pc = "retain" => then \in Failing
  /\ ctx \in {"live", "cancelled"}
  /\ step \in 0..MaxTurns /\ attempt \in 0..MaxAttempts
  /\ pc \in Active => step \in Steps /\ attempt \in Attempts
  /\ msg \in [state : {None, "in_progress", "completed", "failed"},
              revision : Nat, named : BOOLEAN]
  /\ failure \in Replies /\ turnFailure \in Replies
  /\ turns \in Seq(FailedTurn)
  /\ messages \in [Steps -> Row] /\ rows \in [Steps -> Row]
  /\ calls \in [Steps \X Attempts -> {None, "started"} \cup CallTerminal]
  /\ faults \in Nat /\ lost \in BOOLEAN

Status(cs, s, a) == cs[<<s, a>>]
Failed(cs, s, a) == Status(cs, s, a) \in {"failed", "aborted"}
Quiet == faults = 0 /\ ~lost

(* Steps and attempts that have not begun have left nothing. *)
Fresh ==
  \A s \in Steps :
    /\ s > step => rows[s] = NoMessage /\ messages[s] = NoMessage
    /\ \A b \in Attempts :
         s > step \/ (s = step /\ pc \in Active /\ b > attempt) => Status(calls, s, b) = None

(* An attempt follows a failed one, also while it has not been stored. *)
Retries ==
  /\ \A s \in Steps, a \in Attempts : a > 1 /\ Status(calls, s, a) # None => Failed(calls, s, a - 1)
  /\ pc \in Active /\ attempt > 1 => Failed(calls, step, attempt - 1)
  /\ pc = "wait" => Failed(calls, step, attempt)
  /\ pc = "resettle" => turnFailure # None
  /\ pc \in {"resettle", "wait"} => attempt < MaxAttempts

(* The turns are of different steps, and of the last attempt of each. *)
Turns ==
  /\ \A i \in 1..Len(turns) :
       /\ turns[i].step <= step
       /\ pc \in Active => turns[i].step < step
       /\ turns[i].attempt > 1 => Failed(calls, turns[i].step, turns[i].attempt - 1)
       /\ \A b \in Attempts : b > turns[i].attempt => Status(calls, turns[i].step, b) = None
  /\ \A i, j \in 1..Len(turns) : i < j => turns[i].step < turns[j].step

(* A step that worked, and a run in which every step has. *)
Worked(rs, cs, s) ==
  /\ rs[s].state = "completed"
  /\ \E a \in Attempts : /\ Status(cs, s, a) = "completed"
                         /\ \A b \in Attempts : b > a => Status(cs, s, b) = None

Success ==
  /\ pc \in Failing \cup {"retain", "resettle"} => failure # None
  /\ pc \in Active \cup {"top"} \/ outcome = None =>
       \A i \in 1..Len(turns) : turns[i].failure = None
  /\ pc \in Active => \A s \in Steps : s < step => Worked(rows, calls, s)
  /\ pc = "top" \/ (pc \in Ended /\ outcome = None) =>
       \A s \in Steps : s <= step => Worked(rows, calls, s)
  /\ pc \in {"assembled", "tools", "worked", "answered"} =>
       Status(calls, step, attempt) = "completed"
  /\ pc \in {"tools", "worked", "answered"} => turnFailure = None
  /\ pc \in {"worked", "answered"} => rows[step].state = "completed"

(* Without faults and unseen commits, the history and the rows part only   *)
(* in the current step, and only its current call can be under way.        *)
SettledStep(ms, rs, s) == ms[s] = rs[s] /\ rs[s].state # "in_progress"

UnderWay == {"open", "stream", "resettle", "finish", "finishFailed", "finishFinal"}

Agreement == Quiet =>
  /\ \A s \in Steps : s # step \/ pc \notin Active =>
       SettledStep(messages, rows, s) /\ \A a \in Attempts : Status(calls, s, a) # "started"
  /\ pc \in Active =>
       /\ msg.named <=> rows[step] # NoMessage
       /\ \A b \in Attempts : b # attempt => Status(calls, step, b) # "started"
       /\ Status(calls, step, attempt) = "started" =>
            pc \in UnderWay \/ (pc = "retain" /\ then \in UnderWay)
       /\ pc \in Failing \cup {"worked", "answered"} => SettledStep(messages, rows, step)

IInv == TypeOK /\ Fresh /\ Retries /\ Turns /\ Success /\ Agreement

-----------------------------------------------------------------------------
(* Lemmas about the store calls *)

(* A store call says "ok" only if it committed; without a fault and an      *)
(* unseen commit it fails only for a cancelled caller.                      *)
LEMMA StoreCallStep ==
  ASSUME TypeOK, NEW useCtx \in BOOLEAN, NEW reply, NEW committed \in BOOLEAN,
         StoreCall(useCtx, reply, committed)
  PROVE  /\ reply \in Replies
         /\ reply = None => committed
         /\ faults' \in Nat /\ lost' \in BOOLEAN
         /\ Quiet' => Quiet
         /\ Quiet' /\ reply # None => ~committed /\ useCtx
<1>1. CASE reply = None /\ committed /\ Commits
  BY <1>1 DEF Commits, Replies, Quiet, TypeOK
<1>2. CASE reply = "failed" /\ ~committed /\ faults' = faults + 1 /\ UNCHANGED lost
  BY <1>2 DEF Replies, Quiet, TypeOK, None
<1>3. CASE useCtx /\ reply = "cancelled" /\ lost' = (lost \/ committed) /\ UNCHANGED faults
  <2>1. lost' \in BOOLEAN
    BY <1>3
  <2> QED
    BY <1>3, <2>1 DEF Replies, Quiet, TypeOK, None
<1> QED
  BY <1>1, <1>2, <1>3 DEF StoreCall

LEMMA TurnTypes ==
  ASSUME TypeOK, NEW i \in 1..Len(turns)
  PROVE  turns[i].step \in Steps /\ turns[i].attempt \in Attempts /\ turns[i].failure \in Replies
<1>1. turns[i] \in FailedTurn
  BY ElementOfSeq DEF TypeOK
<1> QED
  BY <1>1 DEF FailedTurn

(* What upsert makes of the rows of the calls. *)
Upserted(useCtx, s, a, status, reply) ==
  /\ reply \in Replies
  /\ calls' \in [Steps \X Attempts -> {None, "started"} \cup CallTerminal]
  /\ faults' \in Nat /\ lost' \in BOOLEAN
  /\ \A x \in Steps, b \in Attempts :
       x # s \/ b # a => Status(calls', x, b) = Status(calls, x, b)
  /\ Status(calls', s, a) \in {Status(calls, s, a), status}
  /\ reply = None => Status(calls', s, a) = status
  /\ Quiet' => Quiet
  /\ Quiet' /\ reply # None => useCtx /\ Status(calls', s, a) = Status(calls, s, a)

LEMMA UpsertStep ==
  ASSUME TypeOK, NEW useCtx \in BOOLEAN, NEW s \in Steps, NEW a \in Attempts,
         NEW status \in {"started"} \cup CallTerminal, NEW reply,
         upsert(useCtx, <<s, a>>, status, reply)
  PROVE  Upserted(useCtx, s, a, status, reply)
<1>1. PICK committed \in BOOLEAN :
        /\ StoreCall(useCtx, reply, committed)
        /\ calls' = IF committed THEN [calls EXCEPT ![<<s, a>>] = status] ELSE calls
  BY DEF upsert
<1>2. /\ reply \in Replies /\ (reply = None => committed)
      /\ faults' \in Nat /\ lost' \in BOOLEAN /\ (Quiet' => Quiet)
      /\ (Quiet' /\ reply # None => ~committed /\ useCtx)
  BY <1>1, StoreCallStep
<1>3. <<s, a>> \in Steps \X Attempts
  OBVIOUS
<1>4. calls' \in [Steps \X Attempts -> {None, "started"} \cup CallTerminal]
  BY <1>1, <1>3 DEF TypeOK
<1>5. \A x \in Steps, b \in Attempts :
        x # s \/ b # a => Status(calls', x, b) = Status(calls, x, b)
  <2> SUFFICES ASSUME NEW x \in Steps, NEW b \in Attempts, x # s \/ b # a
               PROVE  calls'[<<x, b>>] = calls[<<x, b>>]
    BY DEF Status
  <2>1. <<x, b>> # <<s, a>> /\ <<x, b>> \in Steps \X Attempts
    OBVIOUS
  <2> QED
    BY <1>1, <2>1 DEF TypeOK
<1>6. Status(calls', s, a) = IF committed THEN status ELSE Status(calls, s, a)
  BY <1>1, <1>3 DEF Status, TypeOK
<1> QED
  BY <1>2, <1>4, <1>5, <1>6 DEF Upserted

(* What checkpoint makes of the message and its row. *)
Checkpointed(useCtx, state, reply) ==
  /\ reply \in Replies
  /\ msg' \in [state : {None, "in_progress", "completed", "failed"},
                revision : Nat, named : BOOLEAN]
  /\ msg.revision + 1 \in Nat
  /\ rows' \in [Steps -> Row]
  /\ faults' \in Nat /\ lost' \in BOOLEAN
  /\ \A x \in Steps : x # step => rows'[x] = rows[x]
  /\ reply = None =>
       rows'[step] = [state |-> state, revision |-> msg.revision + 1]
  /\ Quiet' => Quiet
  /\ Quiet' /\ (msg.named <=> rows[step] # NoMessage) =>
       /\ reply # None => useCtx /\ rows' = rows
       /\ msg'.named <=> rows'[step] # NoMessage

LEMMA CheckpointStep ==
  ASSUME TypeOK, NEW useCtx \in BOOLEAN, step \in Steps,
         NEW state \in {"in_progress", "completed", "failed"}, NEW reply,
         checkpoint(useCtx, state, reply)
  PROVE  Checkpointed(useCtx, state, reply)
<1>1. PICK committed \in BOOLEAN :
        /\ IF ~msg.named /\ rows[step] # NoMessage
           THEN /\ reply = "failed" /\ ~committed /\ Commits
           ELSE StoreCall(useCtx, reply, committed)
        /\ rows' = IF committed
                   THEN [rows EXCEPT ![step] = [state |-> state, revision |-> msg.revision + 1]]
                   ELSE rows
  BY DEF checkpoint, persistMessage
<1>2. /\ reply \in Replies /\ (reply = None => committed)
      /\ faults' \in Nat /\ lost' \in BOOLEAN /\ (Quiet' => Quiet)
      /\ (Quiet' /\ reply # None /\ (msg.named <=> rows[step] # NoMessage)
             => ~committed /\ useCtx)
  <2>1. CASE ~msg.named /\ rows[step] # NoMessage
    BY <1>1, <2>1 DEF Commits, Replies, Quiet, TypeOK, None
  <2>2. CASE ~(~msg.named /\ rows[step] # NoMessage)
    BY <1>1, <2>2, StoreCallStep
  <2> QED
    BY <2>1, <2>2
<1>3. /\ msg' = [state |-> state, revision |-> msg.revision + 1,
                 named |-> msg.named \/ reply = None]
      /\ msg.revision \in Nat /\ msg.named \in BOOLEAN
  BY DEF checkpoint, TypeOK
<1>4. [state |-> state, revision |-> msg.revision + 1] \in Row
  BY <1>3 DEF Row
<1>5. rows' \in [Steps -> Row]
  BY <1>1, <1>4 DEF TypeOK
<1>6. /\ \A x \in Steps : x # step => rows'[x] = rows[x]
      /\ committed => rows'[step] = [state |-> state, revision |-> msg.revision + 1]
      /\ ~committed => rows' = rows
  BY <1>1 DEF TypeOK
<1>7. [state |-> state, revision |-> msg.revision + 1] # NoMessage
  BY <1>3 DEF NoMessage, None
<1>8. msg'.named = (msg.named \/ reply = None)
  BY <1>3
<1>9. /\ msg.revision + 1 \in Nat
      /\ msg' \in [state : {None, "in_progress", "completed", "failed"},
                    revision : Nat, named : BOOLEAN]
  BY <1>3
<1>10. Quiet' /\ (msg.named <=> rows[step] # NoMessage) =>
              /\ reply # None => useCtx /\ rows' = rows
              /\ msg'.named <=> rows'[step] # NoMessage
  BY <1>2, <1>6, <1>7, <1>8
<1> QED
  BY <1>2, <1>5, <1>6, <1>9, <1>10 DEF Checkpointed
-----------------------------------------------------------------------------
(* The invariant, one lemma for each kind of step *)

LEMMA InitInv == Init => IInv
<1> SUFFICES ASSUME Init PROVE IInv
  OBVIOUS
<1>1. TypeOK
  <2>1. << >> \in Seq(FailedTurn) /\ NoMessage \in Row
    BY EmptySeq DEF NoMessage, Row, None
  <2>2. 0 \in 0..MaxTurns /\ 0 \in 0..MaxAttempts
    BY BoundsAreNatural
  <2>3. calls \in [Steps \X Attempts -> {None, "started"} \cup CallTerminal]
    BY DEF Init
  <2>4. msg \in [state : {None, "in_progress", "completed", "failed"},
                 revision : Nat, named : BOOLEAN]
    BY DEF Init
  <2>5. rows \in [Steps -> Row] /\ messages \in [Steps -> Row] /\ turns \in Seq(FailedTurn)
    BY <2>1 DEF Init
  <2> QED
    BY <2>2, <2>3, <2>4, <2>5 DEF Init, TypeOK, Active, Failing, Ended, Replies
<1>2. \A s \in Steps, a \in Attempts : Status(calls, s, a) = None
  BY DEF Init, Status
<1>3. step = 0 /\ pc = "top" /\ Len(turns) = 0
      /\ \A s \in Steps : rows[s] = NoMessage /\ messages[s] = NoMessage
  BY EmptySeq DEF Init
<1>4. NoMessage.state = None
  BY DEF NoMessage
<1>5. Fresh /\ Retries /\ Turns
  BY <1>2, <1>3 DEF Fresh, Retries, Turns, Active, Failing
<1>6. Success /\ Agreement
  BY <1>2, <1>3, <1>4
     DEF Success, Agreement, SettledStep, Active, Failing, Ended, Steps, None
<1> QED
  BY <1>1, <1>5, <1>6 DEF IInv

(* Steps of the loop that touch no row and end no turn. *)
Control ==
  \/ TopCancelled \/ TopMaxSteps \/ WaitRetry \/ Drained \/ Returned \/ Cancel
  \/ \E e \in {None, "failed"} : Build(e)
  \/ Open(None, FALSE) \/ (\E e \in Errors : Open(e, FALSE) \/ StreamFails(e))
  \/ Open("failed", TRUE)

LEMMA ControlInv ==
  ASSUME IInv, Control
  PROVE  IInv'
<1> USE DEF Errors
<1>1. /\ rows' = rows /\ calls' = calls /\ messages' = messages /\ turns' = turns
      /\ faults' = faults /\ lost' = lost
  BY DEF Control, TopCancelled, TopMaxSteps, WaitRetry, Drained, Returned, Build,
         Open, StreamFails, Cancel, GoTo, RetainThen, Return, endVars
<1>2. TypeOK'
  <2>1. CASE \E e \in {None, "failed"} : Build(e)
    <3>1. step' \in Steps /\ attempt' \in Attempts /\ step' \in 0..MaxTurns
          /\ attempt' \in 0..MaxAttempts
      BY <2>1, BoundsAreNatural DEF Build, IInv, TypeOK, Steps, Attempts
    <3> QED
      BY <1>1, <2>1, <3>1 DEF Build, Return, IInv, TypeOK, Active, Ended, Replies, None
  <2>2. CASE WaitRetry
    <3>1. attempt' \in Attempts /\ attempt' \in 0..MaxAttempts
      BY <2>2, BoundsAreNatural DEF WaitRetry, IInv, TypeOK, Retries, Attempts, Active
    <3> QED
      BY <1>1, <2>2, <3>1 DEF WaitRetry, GoTo, RetainThen, IInv, TypeOK, Active, Failing, Ended,
             Replies, None
  <2>3. CASE TopCancelled \/ TopMaxSteps \/ Drained \/ Returned \/ Cancel
    BY <1>1, <2>3 DEF TopCancelled, TopMaxSteps, Drained, Returned, Cancel, Return, turnVars,
           IInv, TypeOK, Active, Failing, Ended, Replies, None
  <2>4. ASSUME NEW e \in Replies, NEW r \in BOOLEAN, Open(e, r) \/ StreamFails(e)
        PROVE  TypeOK'
    BY <1>1, <2>4 DEF Open, StreamFails, GoTo, RetainThen, turnVars,
           IInv, TypeOK, Active, Failing, Ended, Replies, None
  <2> QED
    BY <2>1, <2>2, <2>3, <2>4 DEF Control, Replies, None
<1>3. Fresh'
  <2>1. CASE \E e \in {None, "failed"} : Build(e)
    <3>1. step' = step + 1 /\ step \in 0..MaxTurns
      BY <2>1 DEF Build, IInv, TypeOK
    <3> QED
      BY <1>1, <3>1, BoundsAreNatural DEF IInv, Fresh, Steps
  <2>2. CASE ~\E e \in {None, "failed"} : Build(e)
    <3>1. step' = step /\ (pc' \in Active => pc \in Active /\ attempt' \in {attempt, attempt + 1})
      BY <2>2 DEF Control, TopCancelled, TopMaxSteps, WaitRetry, Drained, Returned, Cancel,
             Open, StreamFails, GoTo, RetainThen, Return, turnVars, Active, Failing
    <3>2. attempt \in 0..MaxAttempts
      BY DEF IInv, TypeOK
    <3> QED
      BY <1>1, <3>1, <3>2, BoundsAreNatural DEF IInv, Fresh, Attempts
  <2> QED
    BY <2>1, <2>2
<1>4. Retries'
  <2>1. CASE \E e \in {None, "failed"} : Build(e)
    BY <1>1, <2>1 DEF Build, Return, IInv, Retries
  <2>2. CASE WaitRetry
    BY <1>1, <2>2 DEF WaitRetry, GoTo, RetainThen, IInv, TypeOK, Retries, Active, Failing
  <2>3. CASE TopCancelled \/ TopMaxSteps \/ Drained \/ Returned \/ Cancel
    BY <1>1, <2>3 DEF TopCancelled, TopMaxSteps, Drained, Returned, Cancel, Return, turnVars,
           IInv, Retries, Active, Failing
  <2>4. ASSUME NEW e \in Replies, NEW r \in BOOLEAN, Open(e, r) \/ StreamFails(e)
        PROVE  Retries'
    BY <1>1, <2>4 DEF Open, StreamFails, GoTo, RetainThen, turnVars,
           IInv, Retries, Active, Failing
  <2> QED
    BY <2>1, <2>2, <2>3, <2>4 DEF Control, Replies, None
<1>5. Turns'
  <2>1. /\ pc' \in Active => pc \in Active \/ step' = step + 1
        /\ step' \in {step, step + 1} /\ step \in 0..MaxTurns
    BY DEF Control, TopCancelled, TopMaxSteps, WaitRetry, Drained, Returned, Cancel, Build,
           Open, StreamFails, GoTo, RetainThen, Return, turnVars, Active, Failing, IInv, TypeOK
  <2>2. \A i \in 1..Len(turns) : turns[i].step \in Steps
    BY TurnTypes DEF IInv
  <2> QED
    BY <1>1, <2>1, <2>2, BoundsAreNatural DEF IInv, Turns, Steps
<1>6. Success'
  <2>1. CASE \E e \in {None, "failed"} : Build(e)
    <3>1. /\ step' = step + 1 /\ step \in 0..MaxTurns /\ pc = "top"
          /\ pc' = "first" \/ (pc' = "closing" /\ outcome' # None)
      BY <2>1 DEF Build, Return, IInv, TypeOK, None
    <3> QED
      BY <1>1, <3>1, BoundsAreNatural DEF IInv, Success, Active, Failing, Ended, Steps
  <2>2. CASE WaitRetry
    BY <1>1, <2>2 DEF WaitRetry, GoTo, RetainThen, IInv, Success, Active, Failing, Ended, None
  <2>3. CASE TopCancelled \/ Drained \/ Returned \/ Cancel
    BY <1>1, <2>3 DEF TopCancelled, Drained, Returned, Cancel, Return, turnVars,
           IInv, Success, Active, Failing, Ended, None
  <2>4. CASE TopMaxSteps
    BY <1>1, <2>4 DEF TopMaxSteps, Return, turnVars, IInv, Success, Active, Failing, Ended
  <2>5. ASSUME NEW e \in Replies, NEW r \in BOOLEAN,
               Open(e, r) \/ (StreamFails(e) /\ e # None)
        PROVE  Success'
    BY <1>1, <2>5 DEF Open, StreamFails, GoTo, RetainThen, turnVars, endVars,
           IInv, Success, Active, Failing, Ended
  <2> QED
    BY <2>1, <2>2, <2>3, <2>4, <2>5 DEF Control, Replies, None
<1>7. Agreement'
  <2>1. CASE \E e \in {None, "failed"} : Build(e)
    <3>1. /\ step' = step + 1 /\ step' \in Steps /\ step \in 0..MaxTurns
          /\ pc = "top" /\ pc' \in {"first", "closing"} /\ msg'.named = FALSE
          /\ attempt' \in Attempts
      BY <2>1, BoundsAreNatural DEF Build, Return, IInv, TypeOK, Steps, Attempts
    <3>2. /\ rows[step'] = NoMessage
          /\ \A b \in Attempts : Status(calls, step', b) # "started"
      BY <3>1 DEF IInv, Fresh, None
    <3> QED
      BY <1>1, <3>1, <3>2 DEF IInv, Agreement, Active, Failing, Quiet
  <2>2. CASE WaitRetry
    <3>1. /\ pc = "wait" /\ step \in Steps /\ attempt \in Attempts /\ step' = step
          /\ msg' = msg /\ attempt' \in Attempts
          /\ pc' = "start" \/ (pc' = "retain" /\ attempt' = attempt)
      BY <1>2, <2>2 DEF WaitRetry, GoTo, RetainThen, IInv, TypeOK, Active
    <3>2. Quiet => \A b \in Attempts : Status(calls, step, b) # "started"
      BY <3>1 DEF IInv, Agreement, Retries, Failed, Active
    <3> QED
      BY <1>1, <3>1, <3>2 DEF IInv, Agreement, Active, Failing, UnderWay, Quiet
  <2>3. CASE TopCancelled \/ TopMaxSteps \/ Drained \/ Returned \/ Cancel
    BY <1>1, <2>3 DEF TopCancelled, TopMaxSteps, Drained, Returned, Cancel, Return, turnVars,
           IInv, Agreement, Active, Failing, UnderWay, Quiet
  <2>4. ASSUME NEW e \in Replies, NEW r \in BOOLEAN, Open(e, r) \/ StreamFails(e)
        PROVE  Agreement'
    BY <1>1, <2>4 DEF Open, StreamFails, GoTo, RetainThen, turnVars,
           IInv, Agreement, Active, Failing, UnderWay, Quiet
  <2> QED
    BY <2>1, <2>2, <2>3, <2>4 DEF Control, Replies, None
<1> QED
  BY <1>2, <1>3, <1>4, <1>5, <1>6, <1>7 DEF IInv

(* Steps that end a turn. *)
EndsTurn == TurnFailed \/ TurnWorked \/ \E e \in {None, "failed"} : TurnAnswered(e)

LEMMA EndsTurnInv ==
  ASSUME IInv, EndsTurn
  PROVE  IInv'
<1>1. /\ rows' = rows /\ calls' = calls /\ messages' = messages
      /\ step' = step /\ attempt' = attempt
      /\ faults' = faults /\ lost' = lost
      /\ pc \in Active /\ pc' \in {"top", "closing"}
      /\ turns' = Append(turns, Turn) \/ (turns' = turns /\ pc = "noTurn")
  BY DEF EndsTurn, TurnFailed, TurnWorked, TurnAnswered, turnVars, Active, Failing
<1>2. step \in Steps /\ attempt \in Attempts /\ turnFailure \in Replies
      /\ turns \in Seq(FailedTurn)
  BY <1>1 DEF IInv, TypeOK
<1>3. Turn \in FailedTurn /\ Turn.step = step /\ Turn.attempt = attempt
      /\ Turn.failure = turnFailure
  BY <1>2 DEF Turn, FailedTurn
<1>4. turns' = Append(turns, Turn) =>
        /\ Len(turns') = Len(turns) + 1 /\ Len(turns) \in Nat
        /\ \A i \in 1..Len(turns) : turns'[i] = turns[i]
        /\ turns'[Len(turns) + 1] = Turn
  BY <1>2, <1>3, AppendProperties
<1>5. TypeOK'
  <2>1. turns' \in Seq(FailedTurn)
    BY <1>1, <1>2, <1>3, AppendProperties
  <2> QED
    BY <1>1, <2>1 DEF EndsTurn, TurnFailed, TurnWorked, TurnAnswered, turnVars, IInv, TypeOK,
           Active, Failing, Ended
<1>6. Fresh' /\ Retries'
  BY <1>1 DEF IInv, Fresh, Retries, Active, Failing
<1>7. Turns'
  <2>1. \A i \in 1..Len(turns) :
          /\ turns[i].step < step /\ turns[i].step \in Steps
          /\ turns[i].attempt > 1 => Failed(calls, turns[i].step, turns[i].attempt - 1)
          /\ \A b \in Attempts : b > turns[i].attempt => Status(calls, turns[i].step, b) = None
    BY <1>1, TurnTypes DEF IInv, Turns
  <2>2. /\ attempt > 1 => Failed(calls, step, attempt - 1)
        /\ \A b \in Attempts : b > attempt => Status(calls, step, b) = None
    BY <1>1, <1>2 DEF IInv, Fresh, Retries
  <2>3. \A i, j \in 1..Len(turns) : i < j => turns[i].step < turns[j].step
    BY DEF IInv, Turns
  <2>4. CASE turns' = Append(turns, Turn)
    <3>1. \A i \in 1..Len(turns') : i \in 1..Len(turns) \/ i = Len(turns) + 1
      BY <1>4, <2>4
    <3>2. pc' \notin Active
      BY <1>1 DEF Active, Failing
    <3>3. step \in Int
      BY <1>2 DEF Steps
    <3>4. ASSUME NEW i \in 1..Len(turns')
          PROVE  /\ turns'[i].step <= step'
                 /\ turns'[i].attempt > 1 => Failed(calls', turns'[i].step, turns'[i].attempt - 1)
                 /\ \A b \in Attempts :
                      b > turns'[i].attempt => Status(calls', turns'[i].step, b) = None
      <4>1. CASE i \in 1..Len(turns)
        BY <1>1, <1>4, <2>1, <2>4, <3>3, <4>1 DEF Steps
      <4>2. CASE i = Len(turns) + 1
        BY <1>1, <1>3, <1>4, <2>2, <2>4, <3>3, <4>2
      <4> QED
        BY <3>1, <4>1, <4>2
    <3>5. ASSUME NEW i \in 1..Len(turns'), NEW j \in 1..Len(turns'), i < j
          PROVE  turns'[i].step < turns'[j].step
      <4>1. i \in 1..Len(turns)
        BY <1>4, <2>4, <3>1, <3>5
      <4>2. CASE j \in 1..Len(turns)
        BY <1>4, <2>3, <2>4, <3>5, <4>1, <4>2
      <4>3. CASE j = Len(turns) + 1
        BY <1>3, <1>4, <2>1, <2>4, <4>1, <4>3
      <4> QED
        BY <3>1, <4>2, <4>3
    <3> QED
      BY <3>2, <3>4, <3>5 DEF Turns
  <2>5. CASE turns' = turns
    BY <1>1, <2>5 DEF IInv, Turns, Active, Failing
  <2> QED
    BY <1>1, <2>4, <2>5
<1>8. Success'
  <2>1. CASE TurnFailed \/ TurnAnswered("failed")
    <3>1. pc' = "closing" /\ outcome' # None
      BY <2>1 DEF TurnFailed, TurnAnswered, IInv, Success, Failing, None
    <3> QED
      BY <3>1 DEF Success, Active, Failing, Ended
  <2>2. CASE TurnWorked \/ TurnAnswered(None)
    <3>1. /\ pc \in {"worked", "answered"} /\ turns' = Append(turns, Turn)
          /\ turnFailure = None /\ pc \in Active
      BY <2>2 DEF TurnWorked, TurnAnswered, IInv, Success, Active
    <3>2. \A i \in 1..Len(turns') : turns'[i].failure = None
      BY <1>3, <1>4, <3>1 DEF IInv, Success
    <3>3. Worked(rows, calls, step)
      BY <1>2, <3>1 DEF IInv, Success, Fresh, Worked
    <3>4. \A s \in Steps : s <= step => Worked(rows, calls, s)
      BY <1>2, <3>1, <3>3 DEF IInv, Success, Steps
    <3> QED
      BY <1>1, <3>2, <3>4 DEF Success, Active, Failing, Ended
  <2> QED
    BY <2>1, <2>2 DEF EndsTurn
<1>9. Agreement'
  <2>1. pc \in Failing \cup {"worked", "answered"}
    BY DEF EndsTurn, TurnFailed, TurnWorked, TurnAnswered, Failing
  <2>2. Quiet => \A b \in Attempts : Status(calls, step, b) # "started"
    BY <1>1, <1>2, <2>1 DEF EndsTurn, TurnFailed, TurnWorked, TurnAnswered, IInv, Agreement, UnderWay
  <2> QED
    BY <1>1, <1>2, <2>1, <2>2 DEF IInv, Agreement, Active, Failing, Quiet
<1> QED
  BY <1>5, <1>6, <1>7, <1>8, <1>9 DEF IInv

(* The sink touches no row. *)
LEMMA SinkInv ==
  ASSUME IInv, Sink
  PROVE  IInv'
<1>1. UNCHANGED <<pc, then, ctx, turnVars, msg, failure, turnFailure, turns, messages, rows,
                  calls, outcome>>
  BY DEF Sink, SinkSaves
<1>2. faults' \in Nat /\ lost' \in BOOLEAN /\ (Quiet' => Quiet)
  <2>1. PICK r \in Replies : SinkSaves(r)
    BY DEF Sink
  <2>2. CASE Commits
    BY <2>2 DEF Commits, Quiet, IInv, TypeOK
  <2>3. ASSUME NEW committed \in BOOLEAN, StoreCall(TRUE, r, committed)
        PROVE  faults' \in Nat /\ lost' \in BOOLEAN /\ (Quiet' => Quiet)
    BY <2>3, StoreCallStep DEF IInv
  <2> QED
    BY <2>1, <2>2, <2>3 DEF SinkSaves
<1>3. TypeOK'
  BY <1>1, <1>2 DEF IInv, TypeOK, turnVars
<1>4. Fresh' /\ Retries' /\ Turns' /\ Success'
  BY <1>1 DEF IInv, Fresh, Retries, Turns, Success, turnVars
<1>5. Agreement'
  BY <1>1, <1>2 DEF IInv, Agreement, turnVars
<1> QED
  BY <1>3, <1>4, <1>5 DEF IInv

(* runWith writes the call of a turn once more. *)
LEMMA PersistInv ==
  ASSUME IInv, NEW r \in Replies, PersistModelCall(r)
  PROVE  IInv'
<1>1. /\ pc = "persist" /\ turns # <<>> /\ turns \in Seq(FailedTurn)
      /\ upsert(FALSE, <<Head(turns).step, Head(turns).attempt>>, statusOf(Head(turns).failure), r)
      /\ turns' = Tail(turns)
      /\ pc' = pc /\ UNCHANGED <<then, ctx, turnVars, msg, failure, turnFailure, messages, rows,
                                 outcome>>
  BY DEF PersistModelCall, IInv, TypeOK
<1>2. /\ Head(turns) = turns[1] /\ 1 \in 1..Len(turns) /\ Len(turns) \in Nat
      /\ turns' \in Seq(FailedTurn) /\ Len(turns') = Len(turns) - 1
      /\ \A i \in 1..Len(turns') : turns'[i] = turns[i + 1] /\ i + 1 \in 1..Len(turns)
  BY <1>1, HeadTailProperties, EmptySeq
<1>3. PICK t \in FailedTurn : t = turns[1]
  BY <1>1, <1>2, ElementOfSeq
<1>4. PICK s \in Steps, a \in Attempts, f \in Replies :
        s = turns[1].step /\ a = turns[1].attempt /\ f = turns[1].failure
  BY <1>3 DEF FailedTurn
<1>5. statusOf(f) \in CallTerminal
  BY DEF statusOf, CallTerminal
<1>6. Upserted(FALSE, s, a, statusOf(f), r)
  <2>1. PICK u \in BOOLEAN, status \in {"started"} \cup CallTerminal :
          u = FALSE /\ status = statusOf(f)
    BY <1>5
  <2>2. upsert(u, <<s, a>>, status, r)
    BY <1>1, <1>2, <1>4, <2>1
  <2>3. TypeOK
    BY DEF IInv
  <2>4. Upserted(u, s, a, status, r)
    BY <2>2, <2>3, UpsertStep
  <2> QED
    BY <2>1, <2>4
<1>7. /\ calls' \in [Steps \X Attempts -> {None, "started"} \cup CallTerminal]
      /\ faults' \in Nat /\ lost' \in BOOLEAN
      /\ \A x \in Steps, b \in Attempts :
           x # s \/ b # a => Status(calls', x, b) = Status(calls, x, b)
      /\ Status(calls', s, a) \in {Status(calls, s, a), statusOf(f)}
      /\ Quiet' => Quiet
  BY <1>6 DEF Upserted
<1>8. /\ s <= step
      /\ a > 1 => Failed(calls, s, a - 1)
      /\ \A b \in Attempts : b > a => Status(calls, s, b) = None
      /\ \A i \in 1..Len(turns') : s < turns'[i].step
  <2>1. /\ turns[1].step <= step
        /\ turns[1].attempt > 1 => Failed(calls, turns[1].step, turns[1].attempt - 1)
        /\ \A b \in Attempts : b > turns[1].attempt => Status(calls, turns[1].step, b) = None
    BY <1>2 DEF IInv, Turns
  <2>2. \A i, j \in 1..Len(turns) : i < j => turns[i].step < turns[j].step
    BY DEF IInv, Turns
  <2>3. ASSUME NEW i \in 1..Len(turns')
        PROVE  turns[1].step < turns'[i].step
    <3>1. 1 < i + 1 /\ i + 1 \in 1..Len(turns) /\ turns'[i] = turns[i + 1]
      BY <1>2
    <3> QED
      BY <1>2, <2>2, <3>1
  <2> QED
    BY <1>4, <2>1, <2>3
<1>9. TypeOK'
  BY <1>1, <1>2, <1>7 DEF IInv, TypeOK, turnVars
<1>10. Fresh'
  <2>1. ASSUME NEW x \in Steps, x > step, NEW b \in Attempts
        PROVE  Status(calls', x, b) = None
    <3>1. x # s
      BY <1>8, <2>1 DEF Steps, IInv, TypeOK
    <3> QED
      BY <1>7, <2>1, <3>1 DEF IInv, Fresh
  <2>2. pc' \notin Active /\ UNCHANGED <<step, rows, messages>>
    BY <1>1 DEF turnVars, Active, Failing
  <2> QED
    BY <2>1, <2>2 DEF IInv, Fresh
<1>11. Retries'
  <2>1. ASSUME NEW x \in Steps, NEW b \in Attempts, b > 1, Status(calls', x, b) # None
        PROVE  Failed(calls', x, b - 1)
    <3>1. b - 1 \in Attempts /\ b - 1 # b /\ a - 1 # a
      BY <2>1, BoundsAreNatural DEF Attempts
    <3>2. CASE x = s /\ b = a
      BY <1>7, <1>8, <2>1, <3>1, <3>2 DEF Failed
    <3>3. CASE x = s /\ b - 1 = a
      BY <1>7, <1>8, <2>1, <3>1, <3>3 DEF Attempts
    <3>4. CASE ~(x = s /\ b = a) /\ ~(x = s /\ b - 1 = a)
      BY <1>7, <2>1, <3>1, <3>4 DEF IInv, Retries, Failed
    <3> QED
      BY <3>2, <3>3, <3>4
  <2> QED
    BY <1>1, <2>1 DEF Retries, Active, Failing
<1>12. Turns'
  <2>1. ASSUME NEW i \in 1..Len(turns')
        PROVE  /\ turns'[i].step <= step
               /\ turns'[i].attempt > 1 => Failed(calls', turns'[i].step, turns'[i].attempt - 1)
               /\ \A b \in Attempts :
                    b > turns'[i].attempt => Status(calls', turns'[i].step, b) = None
    <3>1. PICK x \in Steps, c \in Attempts : x = turns'[i].step /\ c = turns'[i].attempt
      BY <1>2, TurnTypes DEF IInv
    <3>2. /\ x <= step /\ s < x
          /\ c > 1 => Failed(calls, x, c - 1)
          /\ \A b \in Attempts : b > c => Status(calls, x, b) = None
      BY <1>2, <1>8, <3>1 DEF IInv, Turns
    <3>3. \A b \in Attempts : Status(calls', x, b) = Status(calls, x, b)
      BY <1>7, <3>2 DEF Steps
    <3>4. c > 1 => c - 1 \in Attempts
      BY BoundsAreNatural DEF Attempts
    <3> QED
      BY <3>1, <3>2, <3>3, <3>4 DEF Failed
  <2>2. \A i, j \in 1..Len(turns') : i < j => turns'[i].step < turns'[j].step
    BY <1>2 DEF IInv, Turns
  <2> QED
    BY <1>1, <2>1, <2>2 DEF Turns, turnVars, Active, Failing
<1>13. Success'
  <2>1. CASE outcome = None
    <3>1. f = None /\ \A i \in 1..Len(turns') : turns'[i].failure = None
      BY <1>2, <1>4, <2>1 DEF IInv, Success
    <3>2. Status(calls', s, a) \in {Status(calls, s, a), "completed"}
      BY <1>7, <3>1 DEF statusOf
    <3>3. ASSUME NEW x \in Steps, x <= step
          PROVE  Worked(rows, calls', x)
      <4>1. Worked(rows, calls, x)
        BY <1>1, <2>1, <3>3 DEF IInv, Success, Ended
      <4>2. CASE x # s
        BY <1>7, <4>1, <4>2 DEF Worked
      <4>3. CASE x = s
        <5>1. PICK b \in Attempts : /\ Status(calls, s, b) = "completed"
                                   /\ \A d \in Attempts : d > b => Status(calls, s, d) = None
          BY <4>1, <4>3 DEF Worked
        <5>2. b <= a
          BY <1>8, <5>1 DEF None, Attempts
        <5>3. CASE b = a
          BY <1>7, <3>2, <4>1, <4>3, <5>1, <5>3 DEF Worked, Attempts
        <5>4. CASE b < a
          <6>1. CASE Status(calls', s, a) = "completed"
            BY <1>7, <1>8, <4>1, <4>3, <6>1 DEF Worked, Attempts
          <6>2. CASE Status(calls', s, a) = Status(calls, s, a)
            BY <1>7, <4>1, <4>3, <6>2 DEF Worked
          <6> QED
            BY <3>2, <6>1, <6>2
        <5> QED
          BY <5>2, <5>3, <5>4 DEF Attempts
      <4> QED
        BY <4>2, <4>3
    <3> QED
      BY <1>1, <3>1, <3>3 DEF Success, turnVars, Active, Failing, Ended
  <2>2. CASE outcome # None
    BY <1>1, <2>2 DEF Success, Active, Failing, Ended
  <2> QED
    BY <2>1, <2>2
<1>14. Agreement'
  <2>1. Status(calls', s, a) = "started" => Status(calls, s, a) = "started"
    BY <1>5, <1>7 DEF CallTerminal
  <2>2. \A x \in Steps, b \in Attempts :
          Status(calls', x, b) = "started" => Status(calls, x, b) = "started"
    BY <1>7, <2>1
  <2> QED
    BY <1>1, <1>7, <2>2 DEF IInv, Agreement, turnVars, Active, Failing
<1> QED
  BY <1>9, <1>10, <1>11, <1>12, <1>13, <1>14 DEF IInv

(* A step that writes the row of the current call. *)
LEMMA CallInv ==
  ASSUME IInv, NEW r \in Replies,
         StartCall(r) \/ SettleAttempt(r) \/ FinishFailed(r) \/ Finish(r)
  PROVE  IInv'
<1>1. /\ UNCHANGED <<ctx, step, attempt, msg, turnFailure, messages, rows, turns, outcome>>
      /\ pc \in Active /\ pc' \in Active
  BY DEF StartCall, SettleAttempt, FinishFailed, Finish, GoTo, RetainThen, turnVars, endVars,
         Active, Failing
<1>2. step \in Steps /\ attempt \in Attempts /\ TypeOK /\ turnFailure \in Replies
      /\ failure \in Replies
  BY <1>1 DEF IInv, TypeOK
<1>3. PICK u \in BOOLEAN, status \in {"started"} \cup CallTerminal :
        /\ upsert(u, callId, status, r)
        /\ StartCall(r) => u = TRUE /\ status = "started"
        /\ SettleAttempt(r) => u = FALSE /\ status = statusOf(turnFailure)
        /\ FinishFailed(r) => u = FALSE /\ status \in CallTerminal
        /\ Finish(r) => u = FALSE /\ status = "completed"
  <2>1. CASE StartCall(r)
    <3>1. /\ upsert(TRUE, callId, "started", r) /\ pc = "start"
          /\ ~SettleAttempt(r) /\ ~FinishFailed(r) /\ ~Finish(r)
      BY <2>1 DEF StartCall, SettleAttempt, FinishFailed, Finish
    <3> QED
      BY <3>1
  <2>2. CASE SettleAttempt(r)
    <3>1. /\ upsert(FALSE, callId, statusOf(turnFailure), r)
          /\ ~StartCall(r) /\ ~FinishFailed(r) /\ ~Finish(r)
      BY <2>2 DEF StartCall, SettleAttempt, FinishFailed, Finish
    <3>2. statusOf(turnFailure) \in CallTerminal
      BY DEF statusOf, CallTerminal
    <3> QED
      BY <3>1, <3>2
  <2>3. CASE FinishFailed(r)
    <3>1. PICK status \in CallTerminal : upsert(FALSE, callId, status, r)
      BY <2>3 DEF FinishFailed, statusOf, CallTerminal
    <3>2. ~StartCall(r) /\ ~SettleAttempt(r) /\ ~Finish(r)
      BY <2>3 DEF StartCall, SettleAttempt, FinishFailed, Finish
    <3> QED
      BY <3>1, <3>2
  <2>4. CASE Finish(r)
    <3>1. /\ upsert(FALSE, callId, "completed", r)
          /\ ~StartCall(r) /\ ~SettleAttempt(r) /\ ~FinishFailed(r)
      BY <2>4 DEF StartCall, SettleAttempt, FinishFailed, Finish
    <3> QED
      BY <3>1 DEF CallTerminal
  <2> QED
    BY <2>1, <2>2, <2>3, <2>4
<1>4. Upserted(u, step, attempt, status, r)
  BY <1>2, <1>3, UpsertStep DEF callId
<1>5. /\ calls' \in [Steps \X Attempts -> {None, "started"} \cup CallTerminal]
      /\ faults' \in Nat /\ lost' \in BOOLEAN
      /\ \A x \in Steps, b \in Attempts :
           x # step \/ b # attempt => Status(calls', x, b) = Status(calls, x, b)
      /\ Status(calls', step, attempt) \in {Status(calls, step, attempt), status}
      /\ r = None => Status(calls', step, attempt) = status
      /\ Quiet' => Quiet
      /\ Quiet' /\ r # None => u /\ Status(calls', step, attempt) = Status(calls, step, attempt)
  BY <1>4 DEF Upserted
<1>6. /\ pc = "resettle" => statusOf(turnFailure) \in {"failed", "aborted"}
      /\ failure # None => Join(failure, r) # None
      /\ Join(failure, r) \in Replies
  BY <1>2 DEF IInv, Retries, statusOf, Join, Replies, None
<1>7. TypeOK'
  BY <1>1, <1>2, <1>5, <1>6
     DEF StartCall, SettleAttempt, FinishFailed, Finish, GoTo, RetainThen, TypeOK, Active, Failing
<1>8. Fresh'
  BY <1>1, <1>2, <1>5 DEF IInv, Fresh, Steps, Attempts
<1>9. Retries'
  <2>1. ASSUME NEW x \in Steps, NEW b \in Attempts, b > 1, Status(calls', x, b) # None
        PROVE  Failed(calls', x, b - 1)
    <3>1. b - 1 \in Attempts /\ b - 1 # b /\ attempt - 1 # attempt
      BY <1>2, <2>1, BoundsAreNatural DEF Attempts
    <3>2. CASE x = step /\ b = attempt
      BY <1>1, <1>5, <2>1, <3>1, <3>2 DEF IInv, Retries, Failed
    <3>3. CASE x = step /\ b - 1 = attempt
      <4>1. b > attempt /\ b # attempt
        BY <1>2, <3>3 DEF Attempts
      <4>2. Status(calls, x, b) = None
        BY <1>1, <3>3, <4>1 DEF IInv, Fresh
      <4>3. Status(calls', x, b) = Status(calls, x, b)
        BY <1>5, <4>1
      <4> QED
        BY <2>1, <4>2, <4>3
    <3>4. CASE ~(x = step /\ b = attempt) /\ ~(x = step /\ b - 1 = attempt)
      BY <1>5, <2>1, <3>1, <3>4 DEF IInv, Retries, Failed
    <3> QED
      BY <3>2, <3>3, <3>4
  <2>2. attempt > 1 => Failed(calls', step, attempt - 1)
    <3>1. attempt > 1 => attempt - 1 \in Attempts /\ attempt - 1 # attempt
      BY <1>2, BoundsAreNatural DEF Attempts
    <3> QED
      BY <1>1, <1>2, <1>5, <3>1 DEF IInv, Retries, Failed
  <2>3. pc' = "wait" => Failed(calls', step, attempt) /\ attempt < MaxAttempts
    <3> SUFFICES ASSUME pc' = "wait"
                 PROVE  Failed(calls', step, attempt) /\ attempt < MaxAttempts
      OBVIOUS
    <3>1. SettleAttempt(r) /\ r = None /\ pc = "resettle"
      BY DEF StartCall, SettleAttempt, FinishFailed, Finish, GoTo, RetainThen
    <3> QED
      BY <1>3, <1>5, <1>6, <3>1 DEF IInv, Retries, Failed
  <2>4. pc' # "resettle"
    BY DEF StartCall, SettleAttempt, FinishFailed, Finish, GoTo, RetainThen
  <2> QED
    BY <1>1, <2>1, <2>2, <2>3, <2>4 DEF Retries
<1>10. Turns'
  <2>1. ASSUME NEW i \in 1..Len(turns)
        PROVE  /\ turns[i].step < step
               /\ turns[i].attempt > 1 => Failed(calls', turns[i].step, turns[i].attempt - 1)
               /\ \A b \in Attempts :
                    b > turns[i].attempt => Status(calls', turns[i].step, b) = None
    <3>1. PICK x \in Steps, c \in Attempts : x = turns[i].step /\ c = turns[i].attempt
      BY TurnTypes DEF IInv
    <3>2. /\ x < step
          /\ c > 1 => Failed(calls, x, c - 1)
          /\ \A b \in Attempts : b > c => Status(calls, x, b) = None
      BY <1>1, <3>1 DEF IInv, Turns
    <3>3. \A b \in Attempts : Status(calls', x, b) = Status(calls, x, b)
      BY <1>2, <1>5, <3>2 DEF Steps
    <3>4. c > 1 => c - 1 \in Attempts
      BY BoundsAreNatural DEF Attempts
    <3> QED
      BY <3>1, <3>2, <3>3, <3>4 DEF Failed
  <2>2. \A i \in 1..Len(turns) : turns[i].step \in Steps
    BY TurnTypes DEF IInv
  <2> QED
    BY <1>1, <1>2, <2>1, <2>2 DEF IInv, Turns, Steps
<1>11. Success'
  <2>1. \A x \in Steps : x < step => Worked(rows', calls', x)
    <3> SUFFICES ASSUME NEW x \in Steps, x < step
                 PROVE  Worked(rows, calls', x)
      BY <1>1
    <3>1. \A b \in Attempts : Status(calls', x, b) = Status(calls, x, b)
      BY <1>2, <1>5 DEF Steps
    <3> QED
      BY <1>1, <3>1 DEF IInv, Success, Worked
  <2>2. pc' \in Failing \cup {"retain", "resettle"} => failure' # None
    BY <1>6 DEF StartCall, SettleAttempt, FinishFailed, Finish, GoTo, RetainThen, IInv, Success,
           Failing
  <2>3. pc' \notin {"tools", "worked", "answered"}
    BY DEF StartCall, SettleAttempt, FinishFailed, Finish, GoTo, RetainThen
  <2>4. pc' = "assembled" => Status(calls', step, attempt) = "completed"
    <3>1. pc' = "assembled" => Finish(r) /\ r = None
      BY DEF StartCall, SettleAttempt, FinishFailed, Finish, GoTo, RetainThen
    <3> QED
      BY <1>3, <1>5, <3>1
  <2>5. pc' \notin Ended \cup {"top"}
    BY <1>1 DEF Active, Failing, Ended
  <2> QED
    BY <1>1, <2>1, <2>2, <2>3, <2>4, <2>5 DEF IInv, Success
<1>12. Agreement'
  <2> SUFFICES ASSUME Quiet'
               PROVE  Agreement'
    BY DEF Agreement
  <2>1. Quiet
    BY <1>5
  <2>2. \A x \in Steps : x # step =>
          SettledStep(messages, rows, x) /\ \A b \in Attempts : Status(calls', x, b) # "started"
    BY <1>5, <2>1 DEF IInv, Agreement
  <2>3. /\ msg.named <=> rows[step] # NoMessage
        /\ \A b \in Attempts : b # attempt => Status(calls', step, b) # "started"
        /\ pc' \in Failing \cup {"worked", "answered"} => pc \in Failing \/ Finish(r)
    BY <1>1, <1>2, <1>5, <2>1
       DEF StartCall, SettleAttempt, FinishFailed, Finish, GoTo, RetainThen, IInv, Agreement,
           Failing
  <2>4. CASE StartCall(r)
    <3>1. /\ pc = "start"
          /\ (r = None /\ pc' = "open") \/ (r # None /\ pc' = "retain")
      BY <2>4 DEF StartCall, GoTo, RetainThen
    <3>2. r # None => Status(calls', step, attempt) # "started"
      BY <1>1, <1>5, <2>1, <3>1 DEF IInv, Agreement, UnderWay
    <3> QED
      BY <1>1, <2>2, <2>3, <3>1, <3>2 DEF Agreement, UnderWay, Failing
  <2>5. CASE SettleAttempt(r) \/ FinishFailed(r) \/ Finish(r)
    <3>1. r = None /\ status \in CallTerminal
      BY <1>3, <1>5, <1>6, <2>5 DEF SettleAttempt, CallTerminal
    <3>2. Status(calls', step, attempt) # "started"
      BY <1>5, <3>1 DEF CallTerminal
    <3>3. pc' \in Failing \cup {"worked", "answered"} => pc \in Failing
      BY <2>5, <3>1 DEF SettleAttempt, FinishFailed, Finish, GoTo, RetainThen, Failing
    <3>4. pc \in Failing => SettledStep(messages, rows, step)
      BY <1>1, <2>1 DEF IInv, Agreement
    <3> QED
      BY <1>1, <2>2, <2>3, <3>2, <3>3, <3>4 DEF Agreement
  <2> QED
    BY <2>4, <2>5
<1> QED
  BY <1>7, <1>8, <1>9, <1>10, <1>11, <1>12 DEF IInv

(* What the steps that checkpoint the message have in common, and what each *)
(* owes to the place it goes to.                                            *)
Kept(state) == messages' = [messages EXCEPT ![step] = [state |-> state, revision |-> msg.revision + 1]]

Saves(u, state, r) ==
  /\ checkpoint(u, state, r)
  /\ UNCHANGED <<ctx, step, attempt, calls, turns, outcome>>
  /\ pc \in Active /\ pc' \in Active \ {"resettle", "wait", "assembled"}
  /\ pc' = "retain" => then' \in Failing
  /\ failure' \in Replies /\ turnFailure' \in Replies
  /\ messages' = messages \/ Kept(state)
  /\ pc' \in Failing \cup {"retain"} => failure' # None
  /\ pc' \in {"tools", "worked", "answered"} =>
       turnFailure' = None /\ Status(calls, step, attempt) = "completed"
  /\ pc' \in {"worked", "answered"} => r = None /\ state = "completed"
  /\ pc' \in Failing \cup {"worked", "answered"} =>
       Kept(state) /\ state # "in_progress" /\ (r = None \/ u = FALSE)
  /\ Quiet /\ Status(calls, step, attempt) = "started" =>
       pc' \in UnderWay \/ (pc' = "retain" /\ then' \in UnderWay)

LEMMA SavesInv ==
  ASSUME IInv, NEW u \in BOOLEAN, NEW state \in {"in_progress", "completed", "failed"},
         NEW r \in Replies, Saves(u, state, r)
  PROVE  IInv'
<1>1. /\ UNCHANGED <<ctx, step, attempt, calls, turns, outcome>>
      /\ pc \in Active /\ pc' \in Active \ {"resettle", "wait", "assembled"}
  BY DEF Saves
<1>2. step \in Steps /\ attempt \in Attempts /\ TypeOK
  BY <1>1 DEF IInv, TypeOK
<1>3. Checkpointed(u, state, r)
  BY <1>2, CheckpointStep DEF Saves
<1>4. /\ msg' \in [state : {None, "in_progress", "completed", "failed"},
                    revision : Nat, named : BOOLEAN]
      /\ msg.revision + 1 \in Nat
      /\ rows' \in [Steps -> Row] /\ faults' \in Nat /\ lost' \in BOOLEAN
      /\ \A x \in Steps : x # step => rows'[x] = rows[x]
      /\ r = None => rows'[step] = [state |-> state, revision |-> msg.revision + 1]
      /\ Quiet' => Quiet
  BY <1>3 DEF Checkpointed
<1>5. /\ messages' \in [Steps -> Row]
      /\ \A x \in Steps : x # step => messages'[x] = messages[x]
      /\ Kept(state) => messages'[step] = [state |-> state, revision |-> msg.revision + 1]
  <2>1. [state |-> state, revision |-> msg.revision + 1] \in Row
    BY <1>4 DEF Row
  <2> QED
    BY <1>2, <2>1 DEF Saves, Kept, TypeOK
<1>6. TypeOK'
  BY <1>1, <1>2, <1>4, <1>5 DEF Saves, TypeOK
<1>7. Fresh'
  BY <1>1, <1>2, <1>4, <1>5 DEF IInv, Fresh, Steps
<1>8. Retries' /\ Turns'
  BY <1>1 DEF IInv, Retries, Turns
<1>9. Success'
  <2>1. \A x \in Steps : x < step => Worked(rows', calls', x)
    <3> SUFFICES ASSUME NEW x \in Steps, x < step
                 PROVE  Worked(rows', calls, x)
      BY <1>1
    <3>1. x # step
      BY <1>2 DEF Steps
    <3> QED
      BY <1>1, <1>4, <3>1 DEF IInv, Success, Worked
  <2>2. pc' \notin Ended \cup {"top"}
    BY <1>1 DEF Active, Failing, Ended
  <2>3. pc' \in {"worked", "answered"} => rows'[step].state = "completed"
    BY <1>4 DEF Saves
  <2>4. \A i \in 1..Len(turns) : turns[i].failure = None
    BY <1>1 DEF IInv, Success
  <2> QED
    BY <1>1, <2>1, <2>2, <2>3, <2>4 DEF Saves, Success
<1>10. Agreement'
  <2> SUFFICES ASSUME Quiet'
               PROVE  Agreement'
    BY DEF Agreement
  <2>1. Quiet /\ (msg.named <=> rows[step] # NoMessage)
    BY <1>1, <1>4 DEF IInv, Agreement
  <2>2. /\ r # None => u = TRUE
        /\ msg'.named <=> rows'[step] # NoMessage
    BY <1>3, <2>1 DEF Checkpointed
  <2>3. \A x \in Steps : x # step =>
          /\ SettledStep(messages', rows', x)
          /\ \A b \in Attempts : Status(calls', x, b) # "started"
    BY <1>1, <1>4, <1>5, <2>1 DEF IInv, Agreement, SettledStep
  <2>4. \A b \in Attempts : b # attempt => Status(calls', step, b) # "started"
    BY <1>1, <2>1 DEF IInv, Agreement
  <2>5. pc' \in Failing \cup {"worked", "answered"} => SettledStep(messages', rows', step)
    <3> SUFFICES ASSUME pc' \in Failing \cup {"worked", "answered"}
                 PROVE  SettledStep(messages', rows', step)
      OBVIOUS
    <3>1. Kept(state) /\ state # "in_progress" /\ r = None
      BY <2>2 DEF Saves
    <3> QED
      BY <1>4, <1>5, <3>1 DEF SettledStep
  <2>6. Status(calls', step, attempt) = "started" =>
          pc' \in UnderWay \/ (pc' = "retain" /\ then' \in UnderWay)
    BY <1>1, <2>1 DEF Saves
  <2> QED
    BY <1>1, <2>2, <2>3, <2>4, <2>5, <2>6 DEF Agreement
<1> QED
  BY <1>6, <1>7, <1>8, <1>9, <1>10 DEF IInv

LEMMA CheckpointInv ==
  ASSUME IInv, NEW r \in Replies,
         \/ FirstCheckpoint(r) \/ StreamPart(r) \/ StreamEnds(r) \/ Retain(r)
         \/ AnswerOnly(r) \/ ProposeTools(r) \/ \E e \in Replies : RunTools(e, r)
  PROVE  IInv'
<1> USE DEF Active, Failing, turnVars, endVars
<1>1. /\ pc = "retain" => then \in Failing
      /\ turnFailure \in Replies /\ failure \in Replies
      /\ pc \in {"assembled", "tools"} => Status(calls, step, attempt) = "completed"
      /\ pc = "tools" => turnFailure = None
      /\ pc = "retain" => failure # None
      /\ pc \in Active /\ Quiet /\ Status(calls, step, attempt) = "started" =>
           pc \in UnderWay \/ (pc = "retain" /\ then \in UnderWay)
  BY DEF IInv, TypeOK, Success, Agreement
<1>2. CASE FirstCheckpoint(r)
  <2>1. Saves(TRUE, "in_progress", r)
    BY <1>1, <1>2 DEF FirstCheckpoint, GoTo, RetainThen, Saves, UnderWay
  <2> QED
    BY <2>1, SavesInv
<1>3. CASE StreamPart(r)
  <2>1. Saves(TRUE, "in_progress", r)
    BY <1>1, <1>3 DEF StreamPart, GoTo, RetainThen, Saves, UnderWay
  <2> QED
    BY <2>1, SavesInv
<1>4. CASE StreamEnds(r)
  <2>1. Saves(TRUE, "in_progress", r)
    BY <1>1, <1>4 DEF StreamEnds, GoTo, RetainThen, Saves, UnderWay
  <2> QED
    BY <2>1, SavesInv
<1>5. CASE Retain(r)
  <2>1. failure' # None /\ failure' \in Replies
    BY <1>1, <1>5 DEF Retain, Join, Replies, None
  <2>2. Saves(FALSE, "failed", r)
    BY <1>1, <1>5, <2>1 DEF Retain, Saves, Kept, UnderWay
  <2> QED
    BY <2>2, SavesInv
<1>6. CASE AnswerOnly(r)
  <2>1. Saves(TRUE, "completed", r)
    BY <1>1, <1>6 DEF AnswerOnly, GoTo, RetainThen, Saves, Kept, UnderWay
  <2> QED
    BY <2>1, SavesInv
<1>7. CASE ProposeTools(r)
  <2>1. Saves(TRUE, "in_progress", r)
    BY <1>1, <1>7 DEF ProposeTools, GoTo, RetainThen, Saves, Kept, UnderWay
  <2> QED
    BY <2>1, SavesInv
<1>8. ASSUME NEW e \in Replies, RunTools(e, r)
      PROVE  IInv'
  <2>1. PICK state \in {"completed", "failed"} :
          state = IF e = None THEN "completed" ELSE "failed"
    OBVIOUS
  <2>2. /\ failure' = Join(e, r) /\ failure' \in Replies
        /\ failure' = None => e = None /\ r = None
    BY <1>8 DEF RunTools, Join, Replies, None
  <2>3. Saves(FALSE, state, r)
    BY <1>1, <1>8, <2>1, <2>2 DEF RunTools, Saves, Kept, UnderWay
  <2> QED
    BY <2>3, SavesInv
<1> QED
  BY <1>2, <1>3, <1>4, <1>5, <1>6, <1>7, <1>8

LEMMA NextInv ==
  ASSUME IInv, [Next]_vars
  PROVE  IInv'
<1>1. CASE UNCHANGED vars
  BY <1>1 DEF vars, turnVars, endVars, IInv, TypeOK, Fresh, Retries, Turns, Success, Agreement,
         Quiet
<1>2. CASE Loop
  <2>1. \/ Control \/ EndsTurn
        \/ \E r \in Replies : StartCall(r) \/ SettleAttempt(r) \/ FinishFailed(r) \/ Finish(r)
        \/ \E r \in Replies :
             \/ FirstCheckpoint(r) \/ StreamPart(r) \/ StreamEnds(r) \/ Retain(r)
             \/ AnswerOnly(r) \/ ProposeTools(r) \/ \E e \in Replies : RunTools(e, r)
        \/ \E r \in Replies : PersistModelCall(r)
    BY <1>2 DEF Loop, LoopSteps, Control, EndsTurn, Replies
  <2> QED
    BY <2>1, ControlInv, EndsTurnInv, CallInv, CheckpointInv, PersistInv
<1>3. CASE Sink
  BY <1>3, SinkInv
<1>4. CASE Cancel
  BY <1>4, ControlInv DEF Control
<1> QED
  BY <1>1, <1>2, <1>3, <1>4 DEF Next, Done

-----------------------------------------------------------------------------
(* Theorems *)

(* Every reachable state of a run satisfies the inductive invariant.  *)
THEOREM Invariance == Spec => []IInv
<1>1. Init => IInv
  BY InitInv
<1>2. IInv /\ [Next]_vars => IInv'
  BY NextInv
<1> QED
  BY <1>1, <1>2, PTL DEF Spec

(* The retries of callModel are on record: an attempt is stored only when   *)
(* the one before it has been stored as failed or aborted.                  *)
THEOREM RetriesRecorded == Spec => []RetriesAreRecorded
<1>1. IInv => RetriesAreRecorded
  <2> SUFFICES ASSUME IInv, NEW c \in Steps \X Attempts, c[2] > 1, calls[c] # None
               PROVE  calls[<<c[1], c[2] - 1>>] \in {"failed", "aborted"}
    BY DEF RetriesAreRecorded
  <2>1. PICK s \in Steps, a \in Attempts : c = <<s, a>>
    OBVIOUS
  <2>2. a > 1 /\ Status(calls, s, a) # None
    BY <2>1 DEF Status
  <2> QED
    BY <2>1, <2>2 DEF IInv, Retries, Failed, Status
<1> QED
  BY <1>1, Invariance, PTL

(* A run that has returned leaves nothing in progress, unless the store     *)
(* failed by itself or committed unseen: retainFailedAssistant and           *)
(* finishModelCall do not use the cancelled context.                        *)
THEOREM NothingLeftUnderWay == Spec => []NothingUnderWay
<1>1. IInv => NothingUnderWay
  <2> SUFFICES ASSUME IInv, pc = "returned", faults = 0, ~lost
               PROVE  /\ \A c \in Steps \X Attempts : calls[c] # "started"
                      /\ \A s \in Steps : rows[s].state # "in_progress"
    BY DEF NothingUnderWay
  <2>1. \A s \in Steps :
          SettledStep(messages, rows, s) /\ \A a \in Attempts : Status(calls, s, a) # "started"
    BY DEF IInv, Agreement, Quiet, Active, Failing
  <2> QED
    BY <2>1 DEF SettledStep, Status
<1> QED
  BY <1>1, Invariance, PTL

(* The history that a run hands back to its session is what is stored.      *)
THEOREM HistoryStored == Spec => []HistoryIsStored
<1>1. IInv => HistoryIsStored
  <2> SUFFICES ASSUME IInv, pc = "returned", faults = 0, ~lost
               PROVE  messages = rows
    BY DEF HistoryIsStored
  <2>1. \A s \in Steps : messages[s] = rows[s]
    BY DEF IInv, Agreement, SettledStep, Quiet, Active, Failing
  <2> QED
    BY <2>1 DEF IInv, TypeOK
<1> QED
  BY <1>1, Invariance, PTL

(* A run whose loop ends without an error has completed every message and   *)
(* every last attempt, whatever the store and the cancellation did.         *)
THEOREM SuccessWhole == Spec => []SuccessIsWhole
<1>1. IInv => SuccessIsWhole
  <2> SUFFICES ASSUME IInv, pc = "returned", outcome = None, NEW s \in 1..step
               PROVE  /\ rows[s].state = "completed"
                      /\ \E a \in Attempts :
                           /\ calls[<<s, a>>] = "completed"
                           /\ \A b \in Attempts : b > a => calls[<<s, b>>] = None
    BY DEF SuccessIsWhole
  <2>1. s \in Steps /\ s <= step
    BY BoundsAreNatural DEF IInv, TypeOK, Steps
  <2>2. Worked(rows, calls, s)
    BY <2>1 DEF IInv, Success, Ended
  <2> QED
    BY <2>2 DEF Worked, Status
<1> QED
  BY <1>1, Invariance, PTL
=============================================================================
