-------------------------- MODULE AgentLoopProofs ---------------------------
(***************************************************************************)
(* What the agent loop does with tool calls and what it consults: safety   *)
(* of a tool turn for any number of calls, store errors and crashes, and   *)
(* of the permission rules, the hooks, the tools that write files and the  *)
(* requests for any values of the constants of LoopParts.                  *)
(*                                                                         *)
(* Of the tool turn, the properties are about durable records; that they   *)
(* hold rests on where the goroutines of the turn are.  The inductive      *)
(* invariant adds that a call about to execute has a row that says started *)
(* with its input, that a call that is done in a turn without error has a  *)
(* terminal row, that the batch is idle while rows are proposed,           *)
(* interrupted or recovered, and what recovery has established so far.     *)
(***************************************************************************)
EXTENDS ToolTurn, FilesRequestsProofs

(* Where the goroutines may be. *)
Order ==
  /\ phase # "up" => turn = "lost"
  /\ turn \in {"proposing", "interrupting", "lost"} =>
       \A c \in Calls : place[c] = "waiting"
  /\ turn = "proposing" => executed = {}
  /\ turn = "interrupting" => failing
  /\ message # "in_progress" => turn \in {"returned", "lost"}

(* The row of a call that is about to execute. *)
StartedIsRecorded ==
  \A c \in Calls : place[c] = "started" =>
    use[c] = "started" /\ input[c] = args[c]

(* Without an error, a call that returned has a result and a settled row. *)
DoneIsTerminal ==
  ~failing => \A c \in Calls : place[c] = "done" =>
    c \in reported /\ use[c] \in Terminal

(* Without an error, a turn that ended waited for every call. *)
LeftIsDone ==
  turn \in {"finalizing", "returned"} /\ ~failing =>
    \A c \in Calls : place[c] = "done"

(* What recovery has established. *)
RecoveryInv ==
  phase \in {"recovering", "recovered"} =>
    /\ \A c \in Calls : use[c] \notin Active
    /\ found /\ run = "settled" =>
         message # "in_progress" /\ \A c \in Calls : part[c] = "settled"
    /\ phase = "recovered" => run = "settled"

SafetyInv ==
  /\ Order
  /\ StartedIsRecorded /\ EffectIsRecorded
  /\ DoneIsTerminal /\ LeftIsDone /\ NothingOutlivesTurn
  /\ CompletedIsSettled /\ RecoveryInv

IInv == TypeOK /\ SafetyInv

-----------------------------------------------------------------------------
(* Type correctness *)

(* What a call is settled with. *)
LEMMA SettleType ==
  ASSUME TypeOK, NEW c \in Calls, NEW status \in Terminal, settle(c, status)
  PROVE  /\ place' \in [Calls -> Places]
         /\ verdict' \in [Calls -> {"none"} \cup Terminal]
BY DEF TypeOK, settle, Places

(* What a write of the row leaves. *)
LEMMA SaveType ==
  ASSUME TypeOK, NEW c \in Calls, NEW to, SaveToolUse(c, to)
  PROVE  /\ use' \in [Calls -> {"none"} \cup Active \cup Terminal]
         /\ input' \in [Calls -> Inputs]
BY DEF TypeOK, SaveToolUse, Accepts, legalToolUseTransition, Active, Terminal

(* A failed Authorize or Start settles the call as failed. *)
LEMMA AdvanceFailsType ==
  ASSUME TypeOK, NEW c \in Calls, NEW from, NEW to, AdvanceFails(c, from, to)
  PROVE  TypeOK'
<1>1. faults' \in 0..MaxFaults
  BY TurnAssumption DEF TypeOK, AdvanceFails, Refused, ReplyLost, StoreFails
<1>2. /\ use' \in [Calls -> {"none"} \cup Active \cup Terminal]
      /\ input' \in [Calls -> Inputs]
  BY SaveType DEF TypeOK, AdvanceFails
<1>3. /\ place' \in [Calls -> Places]
      /\ verdict' \in [Calls -> {"none"} \cup Terminal]
  BY SettleType DEF AdvanceFails, Terminal
<1> QED
  BY <1>1, <1>2, <1>3 DEF TypeOK, AdvanceFails, processVars, loopVars

(* Every step preserves TypeOK. *)
LEMMA TypeStep ==
  ASSUME TypeOK, [Next]_vars
  PROVE  TypeOK'
<1> USE TurnAssumption
    DEF TypeOK, Calls, Inputs, Active, Terminal, Turns, Places, vars,
        processVars, storeVars, callVars, loopVars
<1>1. ASSUME NEW c \in Calls, CallStep(c) PROVE TypeOK'
  <2>1. CASE BeforeToolCall(c)
    BY <2>1 DEF BeforeToolCall, MayBegin, goTo
  <2>2. CASE BeforeToolCallRefuses(c)
    <3>1. CASE settle(c, "declined") /\ UNCHANGED failing
      BY <2>2, <3>1, SettleType DEF BeforeToolCallRefuses
    <3>2. CASE settle(c, "failed") /\ failing' = TRUE
      BY <2>2, <3>2, SettleType DEF BeforeToolCallRefuses
    <3> QED
      BY <2>2, <3>1, <3>2 DEF BeforeToolCallRefuses
  <2>3. CASE Decline(c)
    BY <2>3 DEF Decline, settle
  <2>4. CASE PromptFails(c)
    BY <2>4 DEF PromptFails, settle
  <2>5. CASE Authorize(c)
    BY <2>5 DEF Authorize, Advance, Acknowledged, SaveToolUse, Accepts, goTo,
        legalToolUseTransition
  <2>6. CASE AuthorizeFails(c)
    <3>1. AdvanceFails(c, "checking", "authorized")
      BY <2>6 DEF AuthorizeFails
    <3> QED
      BY <3>1, AdvanceFailsType
  <2>7. CASE Start(c)
    BY <2>7 DEF Start, Advance, Acknowledged, SaveToolUse, Accepts, goTo,
        legalToolUseTransition
  <2>8. CASE StartFails(c)
    <3>1. AdvanceFails(c, "authorized", "started")
      BY <2>8 DEF StartFails
    <3> QED
      BY <3>1, AdvanceFailsType
  <2>9. CASE Execute(c)
    BY <2>9 DEF Execute, goTo
  <2>10. CASE ExecuteReturns(c)
    BY <2>10 DEF ExecuteReturns, settle
  <2>11. CASE settleToolUse(c)
    <3>1. PICK afterErr \in BOOLEAN :
            LET status == IF afterErr THEN "failed" ELSE verdict[c] IN
            /\ verdict' = [verdict EXCEPT ![c] = status]
            /\ \/ /\ SaveToolUse(c, status)
                  /\ failing' = (failing \/ afterErr)
                  /\ UNCHANGED faults
               \/ /\ \/ ~Accepts(c, status) /\ UNCHANGED faults
                     \/ StoreFails
                  /\ failing' = TRUE
                  /\ UNCHANGED <<use, input>>
      BY <2>11 DEF settleToolUse
    <3> DEFINE status == IF afterErr THEN "failed" ELSE verdict[c]
    <3>2. /\ verdict' \in [Calls -> {"none"} \cup Terminal]
          /\ place' \in [Calls -> Places]
          /\ reported' \subseteq Calls
      BY <2>11, <3>1 DEF settleToolUse
    <3>3. CASE SaveToolUse(c, status) /\ UNCHANGED faults
      <4>1. failing' \in BOOLEAN
        BY <3>1
      <4> QED
        BY <2>11, <3>2, <3>3, <4>1, SaveType DEF settleToolUse
    <3>4. CASE /\ (~Accepts(c, status) /\ UNCHANGED faults) \/ StoreFails
               /\ failing' = TRUE
               /\ UNCHANGED <<use, input>>
      BY <2>11, <3>2, <3>4 DEF settleToolUse, StoreFails
    <3> QED
      BY <3>1, <3>3, <3>4
  <2> QED
    BY <1>1, <2>1, <2>2, <2>3, <2>4, <2>5, <2>6, <2>7, <2>8, <2>9, <2>10,
        <2>11 DEF CallStep
<1>2. CASE Propose
  BY <1>2 DEF Propose, Acknowledged
<1>3. CASE ProposeFails
  BY <1>3 DEF ProposeFails, Refused, ReplyLost, StoreFails, ToInterrupting
<1>4. CASE CheckpointIDs
  BY <1>4 DEF CheckpointIDs, Acknowledged
<1>5. CASE CheckpointIDsFails
  BY <1>5 DEF CheckpointIDsFails, Refused, ReplyLost, StoreFails,
      ToInterrupting
<1>6. CASE interruptToolUses
  BY <1>6 DEF interruptToolUses, SaveToolUse, Accepts, StoreFails,
      legalToolUseTransition
<1>7. CASE Interrupted
  BY <1>7 DEF Interrupted
<1>8. CASE CallsReturned
  BY <1>8 DEF CallsReturned
<1>9. CASE finalizeToolTurn
  <2>1. CASE /\ message' = IF failing THEN "failed" ELSE "completed"
             /\ part' = [c \in Calls |->
                          IF c \in reported THEN "settled" ELSE "pending"]
             /\ UNCHANGED <<faults, failing>>
    BY <1>9, <2>1 DEF finalizeToolTurn
  <2>2. CASE /\ StoreFails
             /\ failing' = TRUE
             /\ UNCHANGED <<message, part>>
    BY <1>9, <2>2 DEF finalizeToolTurn, StoreFails
  <2> QED
    BY <1>9, <2>1, <2>2 DEF finalizeToolTurn
<1>10. CASE SettleRun
  BY <1>10 DEF SettleRun
<1>11. CASE Cancel
  BY <1>11 DEF Cancel
<1>12. CASE Crash
  BY <1>12 DEF Crash
<1>13. CASE InterruptActiveToolUses
  BY <1>13 DEF InterruptActiveToolUses
<1>14. CASE RecoverRunMessages
  BY <1>14 DEF RecoverRunMessages
<1>15. CASE RecoverRun
  BY <1>15 DEF RecoverRun
<1>16. CASE Recovered
  BY <1>16 DEF Recovered
<1>17. CASE UNCHANGED vars
  BY <1>17
<1> QED
  BY <1>1, <1>2, <1>3, <1>4, <1>5, <1>6, <1>7, <1>8, <1>9, <1>10, <1>11,
      <1>12, <1>13, <1>14, <1>15, <1>16, <1>17 DEF Next, TurnStep,
      RecoveryStep

-----------------------------------------------------------------------------
(* The safety invariant *)

(* Every step preserves the rest. *)
LEMMA SafetyStep ==
  ASSUME TypeOK, SafetyInv, [Next]_vars
  PROVE  SafetyInv'
<1> USE TurnAssumption
    DEF TypeOK, Calls, SafetyInv, Order, StartedIsRecorded, EffectIsRecorded,
        DoneIsTerminal, LeftIsDone, NothingOutlivesTurn, CompletedIsSettled,
        RecoveryInv, Active, Terminal, vars, processVars, storeVars,
        callVars, loopVars
<1>1. ASSUME NEW c \in Calls, CallStep(c) PROVE SafetyInv'
  <2>1. CASE BeforeToolCall(c)
    BY <2>1 DEF BeforeToolCall, MayBegin, goTo
  <2>2. CASE BeforeToolCallRefuses(c)
    BY <2>2 DEF BeforeToolCallRefuses, MayBegin, settle
  <2>3. CASE Decline(c)
    BY <2>3 DEF Decline, settle
  <2>4. CASE PromptFails(c)
    BY <2>4 DEF PromptFails, settle
  <2>5. CASE Authorize(c)
    BY <2>5 DEF Authorize, Advance, Acknowledged, SaveToolUse, Accepts, goTo,
        legalToolUseTransition
  <2>6. CASE AuthorizeFails(c)
    BY <2>6 DEF AuthorizeFails, AdvanceFails, Refused, ReplyLost, StoreFails,
        SaveToolUse, Accepts, settle, legalToolUseTransition
  <2>7. CASE Start(c)
    BY <2>7 DEF Start, Advance, Acknowledged, SaveToolUse, Accepts, goTo,
        legalToolUseTransition
  <2>8. CASE StartFails(c)
    BY <2>8 DEF StartFails, AdvanceFails, Refused, ReplyLost, StoreFails,
        SaveToolUse, Accepts, settle, legalToolUseTransition
  <2>9. CASE Execute(c)
    BY <2>9 DEF Execute, goTo
  <2>10. CASE ExecuteReturns(c)
    BY <2>10 DEF ExecuteReturns, settle
  <2>11. CASE settleToolUse(c)
    <3>1. PICK afterErr \in BOOLEAN :
            LET status == IF afterErr THEN "failed" ELSE verdict[c] IN
            /\ verdict' = [verdict EXCEPT ![c] = status]
            /\ \/ /\ SaveToolUse(c, status)
                  /\ failing' = (failing \/ afterErr)
                  /\ UNCHANGED faults
               \/ /\ \/ ~Accepts(c, status) /\ UNCHANGED faults
                     \/ StoreFails
                  /\ failing' = TRUE
                  /\ UNCHANGED <<use, input>>
      BY <2>11 DEF settleToolUse
    <3> DEFINE status == IF afterErr THEN "failed" ELSE verdict[c]
    <3>2. CASE SaveToolUse(c, status) /\ failing' = (failing \/ afterErr)
      BY <2>11, <3>2 DEF settleToolUse, SaveToolUse, Accepts,
                         legalToolUseTransition
    <3>3. CASE failing' = TRUE /\ UNCHANGED <<use, input>>
      BY <2>11, <3>3 DEF settleToolUse
    <3> QED
      BY <3>1, <3>2, <3>3
  <2> QED
    BY <1>1, <2>1, <2>2, <2>3, <2>4, <2>5, <2>6, <2>7, <2>8, <2>9, <2>10,
        <2>11 DEF CallStep
<1>2. CASE Propose
  BY <1>2 DEF Propose, Acknowledged
<1>3. CASE ProposeFails
  BY <1>3 DEF ProposeFails, Refused, ReplyLost, StoreFails, ToInterrupting
<1>4. CASE CheckpointIDs
  BY <1>4 DEF CheckpointIDs, Acknowledged
<1>5. CASE CheckpointIDsFails
  BY <1>5 DEF CheckpointIDsFails, Refused, ReplyLost, StoreFails,
      ToInterrupting
<1>6. CASE interruptToolUses
  BY <1>6 DEF interruptToolUses, SaveToolUse, Accepts, StoreFails,
      legalToolUseTransition
<1>7. CASE Interrupted
  BY <1>7 DEF Interrupted
<1>8. CASE CallsReturned
  BY <1>8 DEF CallsReturned
<1>9. CASE finalizeToolTurn
  BY <1>9 DEF finalizeToolTurn, StoreFails
<1>10. CASE SettleRun
  BY <1>10 DEF SettleRun
<1>11. CASE Cancel
  BY <1>11 DEF Cancel
<1>12. CASE Crash
  BY <1>12 DEF Crash
<1>13. CASE InterruptActiveToolUses
  <2>1. /\ turn = "lost"
        /\ UNCHANGED <<turn, place, failing, message, executed>>
        /\ \A c \in Calls :
             use'[c] = IF use[c] \in Active THEN "interrupted" ELSE use[c]
    BY <1>13 DEF InterruptActiveToolUses
  <2>2. EffectIsRecorded' /\ CompletedIsSettled'
    BY <1>13, <2>1 DEF InterruptActiveToolUses
  <2>3. Order' /\ StartedIsRecorded' /\ NothingOutlivesTurn'
    BY <1>13, <2>1 DEF InterruptActiveToolUses
  <2>4. DoneIsTerminal' /\ LeftIsDone'
    BY <1>13, <2>1 DEF InterruptActiveToolUses
  <2>5. RecoveryInv'
    BY <1>13, <2>1 DEF InterruptActiveToolUses
  <2> QED
    BY <2>2, <2>3, <2>4, <2>5
<1>14. CASE RecoverRunMessages
  BY <1>14 DEF RecoverRunMessages
<1>15. CASE RecoverRun
  BY <1>15 DEF RecoverRun
<1>16. CASE Recovered
  BY <1>16 DEF Recovered
<1>17. CASE UNCHANGED vars
  BY <1>17
<1> QED
  BY <1>1, <1>2, <1>3, <1>4, <1>5, <1>6, <1>7, <1>8, <1>9, <1>10, <1>11,
      <1>12, <1>13, <1>14, <1>15, <1>16, <1>17 DEF Next, TurnStep,
      RecoveryStep

(* The invariant holds in every reachable state. *)
THEOREM Invariance == Spec => []IInv
<1>1. Init => IInv
  <2> SUFFICES ASSUME Init PROVE IInv
    OBVIOUS
  <2>1. TypeOK
    <3>1. /\ 0 \in 0..MaxFaults /\ 0 \in 0..MaxStops /\ 1 \in 1..(N + 1)
      BY TurnAssumption
    <3> QED
      BY <3>1 DEF Init, TypeOK, Inputs, Turns, Places
  <2>2. SafetyInv
    BY DEF Init, SafetyInv, Order, StartedIsRecorded, EffectIsRecorded,
           DoneIsTerminal, LeftIsDone, NothingOutlivesTurn,
           CompletedIsSettled, RecoveryInv
  <2> QED
    BY <2>1, <2>2 DEF IInv
<1>2. IInv /\ [Next]_vars => IInv'
  BY TypeStep, SafetyStep DEF IInv
<1> QED
  BY <1>1, <1>2, PTL DEF Spec

(* Every variable has its type, whatever fails and crashes. *)
THEOREM TypeCorrect == Spec => []TypeOK
<1>1. IInv => TypeOK
  BY DEF IInv
<1> QED
  BY Invariance, <1>1, PTL

(* executeOne commits started, with the input, before Execute, and no later *)
(* write of SaveToolUse or of the recovery denies it: for any number of     *)
(* calls, store errors and crashes.                                         *)
THEOREM EffectsAreRecorded == Spec => []EffectIsRecorded
<1>1. IInv => EffectIsRecorded
  BY DEF IInv, SafetyInv
<1> QED
  BY Invariance, <1>1, PTL

(* finalizeToolTurn completes a message only when every row of its batch is *)
(* terminal and every part settled.                                         *)
THEOREM CompletedMessagesAreSettled == Spec => []CompletedIsSettled
<1>1. IInv => CompletedIsSettled
  BY DEF IInv, SafetyInv
<1> QED
  BY Invariance, <1>1, PTL

(* runTurn waits for all the calls it began, in both modes and beside a     *)
(* call that failed.                                                        *)
THEOREM TurnOutlivesCalls == Spec => []NothingOutlivesTurn
<1>1. IInv => NothingOutlivesTurn
  BY DEF IInv, SafetyInv
<1> QED
  BY Invariance, <1>1, PTL

(* recoverStartup leaves no active tool use, and no unfinished message of a *)
(* run that it found running, however often it was itself interrupted.      *)
THEOREM RecoveryIsComplete == Spec => []RecoveredIsSettled
<1>1. IInv => RecoveredIsSettled
  BY DEF IInv, SafetyInv, RecoveryInv, RecoveredIsSettled
<1> QED
  BY Invariance, <1>1, PTL

-----------------------------------------------------------------------------
(* PermissionRules.  The matcher goes back to its last "*" only: what it   *)
(* has passed cannot be part of any match, so it misses none.  A check     *)
(* goes through the resources in order, and knows of those it has passed.  *)

-----------------------------------------------------------------------------
(* What a pattern means.                                                   *)

Aligns(at, pattern, value, n) ==
  at[0] = 0 /\ \A k \in 1..n : Rules!Takes(pattern[k], value, at[k - 1], at[k])

(* The first n characters of the pattern can take the first m of the value. *)
Reaches(pattern, value, n, m) ==
  \E at \in [0..n -> Nat] : Aligns(at, pattern, value, n) /\ at[n] = m

(* The pattern has no "*" from a to b.                                     *)
NoStarIn(pattern, a, b) == \A k \in (a + 1)..b : pattern[k] # "*"

(* Where there is no "*" each character takes one.                         *)
LEMMA LiteralRun ==
  ASSUME NEW at, NEW pattern, NEW value, NEW n \in Nat, at \in [0..n -> Nat],
         Aligns(at, pattern, value, n), NEW a \in 0..n, NEW b \in a..n,
         NoStarIn(pattern, a, b)
  PROVE  at[b] = at[a] + (b - a)
<1> DEFINE Off == {k \in a..b : at[k] # at[a] + (k - a)}
<1>1. SUFFICES ASSUME Off # {} PROVE FALSE
  <2>1. b \in a..b
    OBVIOUS
  <2> QED
    BY <2>1
<1>2. Off \subseteq Nat
  OBVIOUS
<1>3. PICK k \in Off : \A j \in Off : k <= j
  <2> HIDE DEF Off
  <2> QED
    BY <1>1, <1>2, LeastNumber
<1>4. k # a /\ k \in (a + 1)..b /\ k - 1 \in a..b /\ k \in 1..n /\ k - 1 \in 0..n
  BY <1>3
<1>5. k - 1 \notin Off
  BY <1>2, <1>3
<1>6. at[k - 1] = at[a] + ((k - 1) - a)
  BY <1>4, <1>5
<1>7. at[k] = at[k - 1] + 1
  BY <1>4 DEF Aligns, Rules!Takes, NoStarIn
<1>8. at[a] \in Nat /\ at[k - 1] \in Nat
  BY <1>4
<1>9. at[k] = at[a] + (k - a)
  BY <1>4, <1>6, <1>7, <1>8
<1> QED
  BY <1>3, <1>9

(* What is taken only grows.                                               *)
LEMMA AlignmentClimbs ==
  ASSUME NEW at, NEW pattern, NEW value, NEW n \in Nat, at \in [0..n -> Nat],
         Aligns(at, pattern, value, n), NEW a \in 0..n, NEW b \in a..n
  PROVE  at[a] <= at[b]
<1> DEFINE Off == {k \in a..b : ~(at[a] <= at[k])}
<1>1. SUFFICES ASSUME Off # {} PROVE FALSE
  <2>1. b \in a..b
    OBVIOUS
  <2> QED
    BY <2>1
<1>2. Off \subseteq Nat
  OBVIOUS
<1>3. PICK k \in Off : \A j \in Off : k <= j
  <2> HIDE DEF Off
  <2> QED
    BY <1>1, <1>2, LeastNumber
<1>4. at[a] \in Nat /\ at[k] \in Nat
  BY <1>3
<1>5. k # a /\ k - 1 \in a..b /\ k \in 1..n /\ k - 1 \in 0..n
  BY <1>3, <1>4
<1>6. k - 1 \notin Off
  BY <1>2, <1>3
<1>7. at[a] <= at[k - 1] /\ at[k - 1] \in Nat
  BY <1>5, <1>6
<1>8. at[k - 1] <= at[k]
  <2>1. at[k - 1] <= at[k] \/ at[k] = at[k - 1] + 1
    BY <1>5 DEF Aligns, Rules!Takes
  <2> QED
    BY <1>4, <1>7, <2>1
<1> QED
  BY <1>3, <1>4, <1>7, <1>8

(* One character of the pattern more takes what it matches.                *)
LEMMA ReachFurther ==
  ASSUME NEW pattern, NEW value, NEW n \in Nat, NEW m \in Nat, NEW more \in Nat,
         Reaches(pattern, value, n, m), Rules!Takes(pattern[n + 1], value, m, more)
  PROVE  Reaches(pattern, value, n + 1, more)
<1>1. PICK at \in [0..n -> Nat] : Aligns(at, pattern, value, n) /\ at[n] = m
  BY DEF Reaches
<1> DEFINE to == [k \in 0..(n + 1) |-> IF k = n + 1 THEN more ELSE at[k]]
<1>2. to \in [0..(n + 1) -> Nat] /\ to[n + 1] = more /\ \A k \in 0..n : to[k] = at[k]
  OBVIOUS
<1> HIDE DEF to
<1>3. ASSUME NEW k \in 1..(n + 1) PROVE Rules!Takes(pattern[k], value, to[k - 1], to[k])
  <2>1. CASE k = n + 1
    BY <1>1, <1>2, <2>1
  <2>2. CASE k \in 1..n
    BY <1>1, <1>2, <2>2 DEF Aligns
  <2> QED
    BY <2>1, <2>2
<1>4. to[0] = 0
  BY <1>1, <1>2 DEF Aligns
<1>5. Aligns(to, pattern, value, n + 1)
  BY <1>3, <1>4 DEF Aligns
<1> QED
  BY <1>2, <1>5 DEF Reaches

(* A "*" at the end takes one character more.                              *)
LEMMA StarTakesMore ==
  ASSUME NEW pattern, NEW value, NEW n \in Nat, NEW m \in Nat, n >= 1, pattern[n] = "*",
         Reaches(pattern, value, n, m)
  PROVE  Reaches(pattern, value, n, m + 1)
<1>1. PICK at \in [0..n -> Nat] : Aligns(at, pattern, value, n) /\ at[n] = m
  BY DEF Reaches
<1> DEFINE to == [k \in 0..n |-> IF k = n THEN m + 1 ELSE at[k]]
<1>2. to \in [0..n -> Nat] /\ to[n] = m + 1 /\ \A k \in 0..(n - 1) : to[k] = at[k]
  OBVIOUS
<1> HIDE DEF to
<1>3. ASSUME NEW k \in 1..n PROVE Rules!Takes(pattern[k], value, to[k - 1], to[k])
  <2>1. CASE k = n
    <3>1. at[n - 1] <= m /\ at[n - 1] \in Nat /\ to[n - 1] = at[n - 1]
      BY <1>1, <1>2 DEF Aligns, Rules!Takes
    <3> QED
      BY <1>2, <2>1, <3>1 DEF Rules!Takes
  <2>2. CASE k \in 1..(n - 1)
    BY <1>1, <1>2, <2>2 DEF Aligns
  <2> QED
    BY <2>1, <2>2
<1>4. to[0] = 0
  BY <1>1, <1>2 DEF Aligns
<1>5. Aligns(to, pattern, value, n)
  BY <1>3, <1>4 DEF Aligns
<1> QED
  BY <1>2, <1>5 DEF Reaches

(* What is left of the pattern may be "*" that take nothing.               *)
LEMMA StarsTakeNothing ==
  ASSUME NEW pattern, NEW value, NEW n \in Nat, NEW m \in Nat, NEW all \in Nat, n <= all,
         Reaches(pattern, value, n, m), \A k \in (n + 1)..all : pattern[k] = "*"
  PROVE  Reaches(pattern, value, all, m)
<1>1. PICK at \in [0..n -> Nat] : Aligns(at, pattern, value, n) /\ at[n] = m
  BY DEF Reaches
<1> DEFINE to == [k \in 0..all |-> IF k > n THEN m ELSE at[k]]
<1>2. to \in [0..all -> Nat] /\ (\A k \in 0..n : to[k] = at[k]) /\ (\A k \in n..all : to[k] = m)
  BY <1>1
<1> HIDE DEF to
<1>3. ASSUME NEW k \in 1..all PROVE Rules!Takes(pattern[k], value, to[k - 1], to[k])
  <2>1. CASE k \in (n + 1)..all
    BY <1>2, <2>1 DEF Rules!Takes
  <2>2. CASE k \in 1..n
    BY <1>1, <1>2, <2>2 DEF Aligns
  <2> QED
    BY <2>1, <2>2
<1>4. to[0] = 0
  BY <1>1, <1>2 DEF Aligns
<1>5. Aligns(to, pattern, value, all)
  BY <1>3, <1>4 DEF Aligns
<1> QED
  BY <1>2, <1>5 DEF Reaches

(* A pattern means what all of it can take.                                *)
LEMMA MeansIsReached ==
  ASSUME NEW pattern, NEW value, Len(pattern) \in Nat, Len(value) \in Nat
  PROVE  Rules!Means(pattern, value) <=> Reaches(pattern, value, Len(pattern), Len(value))
<1> DEFINE n == Len(pattern)
           m == Len(value)
<1>1. n \in Nat /\ m \in Nat
  OBVIOUS
<1> HIDE DEF n, m
<1>2. ASSUME NEW at \in [0..n -> Nat], Aligns(at, pattern, value, n), at[n] = m
      PROVE  at \in [0..n -> 0..m]
  <2>1. ASSUME NEW k \in 0..n PROVE at[k] \in 0..m
    <3>1. n \in k..n
      BY <1>1
    <3>2. at[k] <= m /\ at[k] \in Nat
      BY <1>1, <1>2, <3>1, AlignmentClimbs
    <3> QED
      BY <1>1, <3>2
  <2> QED
    BY <2>1
<1>3. ASSUME NEW at \in [0..n -> 0..m] PROVE at \in [0..n -> Nat]
  BY <1>1
<1>4. Rules!Means(pattern, value)
        <=> \E at \in [0..n -> 0..m] : Aligns(at, pattern, value, n) /\ at[n] = m
  BY DEF Rules!Means, Aligns, n, m
<1> QED
  BY <1>2, <1>3, <1>4 DEF Reaches, n, m

-----------------------------------------------------------------------------
(* The matcher.  One turn of its loop is followed from any place, so that  *)
(* the scan of a run and the turns of one wildcardMatch are the same.      *)

(* The values of the state of the matcher, over any characters.            *)
ScanTyped(C, s) ==
  s \in [pattern : Seq(C), value : Seq(C), pi : Nat, vi : Nat, star : Nat \cup {-1}, mark : Nat,
         result : {"none", "running", "yes", "no"}]

(* The matcher is inside the pattern and the value, and since the last "*" *)
(* it has gone as far in the one as in the other.                          *)
ScanBounds(s) ==
  /\ s.pi <= Len(s.pattern) /\ s.vi <= Len(s.value)
  /\ s.star >= -1 /\ s.star < s.pi
  /\ s.star = -1 => s.mark = 0
  /\ s.star # -1 => s.pattern[s.star + 1] = "*"
  /\ s.vi = s.mark + (s.pi - (s.star + 1))

(* Since the last "*" each character of the pattern has taken one.         *)
LiteralsSince(pattern, value, star, pi, mark) ==
  \A k \in (star + 2)..pi :
    pattern[k] # "*" /\ pattern[k] \in {"?", value[mark + (k - (star + 1))]}

(* The last "*" ends at mark or later in every match.                      *)
NoMatchBefore(pattern, value, star, mark) ==
  \A at \in [0..Len(pattern) -> Nat] :
    Aligns(at, pattern, value, Len(pattern)) /\ at[Len(pattern)] = Len(value) =>
      at[star + 1] >= mark

Starless(value) == \A i \in 1..Len(value) : value[i] # "*"

(* The matcher is at a place that it can reach and, of a value without a   *)
(* "*", no match is behind it; its answer is the meaning.                  *)
ScanIsRight(s) ==
  /\ s.result = "running" =>
       /\ ScanBounds(s)
       /\ Reaches(s.pattern, s.value, s.star + 1, s.mark)
       /\ Reaches(s.pattern, s.value, s.pi, s.vi)
       /\ Starless(s.value) =>
            /\ LiteralsSince(s.pattern, s.value, s.star, s.pi, s.mark)
            /\ NoMatchBefore(s.pattern, s.value, s.star, s.mark)
  /\ s.result = "yes" => Reaches(s.pattern, s.value, Len(s.pattern), Len(s.value))
  /\ s.result = "no" /\ Starless(s.value) =>
       ~Reaches(s.pattern, s.value, Len(s.pattern), Len(s.value))

(* What every turn keeps.                                                  *)
ScanKept(C, s) == ScanTyped(C, s) /\ ScanIsRight(s)

(* How far a match is: a character more of the pattern, or the last "*"    *)
(* one character on.                                                       *)
HowFar(s) == s.mark * (Len(s.pattern) + 2) + s.pi

(* A turn ends the match, or goes further.                                 *)
Advances(s, t) == t.result = "running" => HowFar(t) >= HowFar(s) + 1

(* A match that ends the last "*" at mark takes vi characters by pi.       *)
LEMMA MatchPasses ==
  ASSUME NEW C, NEW s, ScanTyped(C, s), ScanBounds(s),
         LiteralsSince(s.pattern, s.value, s.star, s.pi, s.mark),
         NEW at \in [0..Len(s.pattern) -> Nat],
         Aligns(at, s.pattern, s.value, Len(s.pattern)),
         at[s.star + 1] >= s.mark
  PROVE  /\ at[s.pi] >= s.vi
         /\ at[s.star + 1] = s.mark => at[s.pi] = s.vi
<1> DEFINE base == s.star + 1
           n == Len(s.pattern)
           pi == s.pi
           vi == s.vi
           mark == s.mark
<1>1. n \in Nat /\ pi \in Nat /\ vi \in Nat /\ mark \in Nat /\ s.star \in Int
  BY LenProperties DEF ScanTyped
<1>2. base \in 0..n /\ pi \in base..n /\ vi = mark + (pi - base)
  BY <1>1 DEF ScanBounds
<1>3. NoStarIn(s.pattern, base, pi)
  <2>1. base + 1 = s.star + 2
    BY <1>1
  <2> QED
    BY <2>1 DEF LiteralsSince, NoStarIn
<1>4. at \in [0..n -> Nat] /\ Aligns(at, s.pattern, s.value, n) /\ at[base] >= mark
  OBVIOUS
<1> HIDE DEF base, n, pi, vi, mark
<1>5. at[pi] = at[base] + (pi - base)
  BY <1>1, <1>2, <1>3, <1>4, LiteralRun
<1>6. at[base] \in Nat
  BY <1>2, <1>4
<1>7. at[pi] >= vi /\ (at[base] = mark => at[pi] = vi)
  BY <1>1, <1>2, <1>4, <1>5, <1>6
<1> QED
  BY <1>7 DEF base, pi, vi, mark

(* The types, without the record around them.                              *)
LEMMA ScanFacts ==
  ASSUME NEW C, NEW s, ScanTyped(C, s)
  PROVE  /\ s.pattern \in Seq(C) /\ s.value \in Seq(C)
         /\ Len(s.pattern) \in Nat /\ Len(s.value) \in Nat
         /\ s.pi \in Nat /\ s.vi \in Nat /\ s.mark \in Nat /\ s.star \in Int
         /\ s.star >= -1
BY LenProperties DEF ScanTyped

(* A character of the pattern takes the one of the value.                  *)
LEMMA MatchesOne ==
  ASSUME NEW C, NEW s, ScanKept(C, s), s.result = "running",
         s.vi < Len(s.value), s.pi < Len(s.pattern),
         s.pattern[s.pi + 1] \in {"?", s.value[s.vi + 1]},
         NEW t, t = [s EXCEPT !.pi = @ + 1, !.vi = @ + 1]
  PROVE  ScanKept(C, t) /\ Advances(s, t)
<1> DEFINE pattern == s.pattern
           value == s.value
           pi == s.pi
           vi == s.vi
           star == s.star
           mark == s.mark
           n == Len(pattern)
           m == Len(value)
<1>1. ScanTyped(C, s)
  BY DEF ScanKept
<1>2. /\ n \in Nat /\ m \in Nat
      /\ pi \in Nat /\ vi \in Nat /\ mark \in Nat /\ star \in Int
  BY <1>1, ScanFacts
<1>3. vi < m /\ pi < n /\ pattern[pi + 1] \in {"?", value[vi + 1]}
  OBVIOUS
<1>4. /\ t.pattern = pattern /\ t.value = value /\ t.pi = pi + 1 /\ t.vi = vi + 1
      /\ t.star = star /\ t.mark = mark /\ t.result = "running"
  BY <1>1 DEF ScanTyped
<1>5. ScanTyped(C, t)
  <2>1. pi + 1 \in Nat /\ vi + 1 \in Nat
    BY <1>2
  <2> QED
    BY <1>1, <2>1 DEF ScanTyped
<1>6. /\ ScanBounds(s) /\ Reaches(pattern, value, star + 1, mark) /\ Reaches(pattern, value, pi, vi)
      /\ Starless(value) => /\ LiteralsSince(pattern, value, star, pi, mark)
                            /\ NoMatchBefore(pattern, value, star, mark)
  BY DEF ScanKept, ScanIsRight
<1>7. /\ star >= -1 /\ star < pi
      /\ (star = -1 => mark = 0) /\ (star # -1 => pattern[star + 1] = "*")
      /\ vi = mark + (pi - (star + 1))
  BY <1>6 DEF ScanBounds
<1> HIDE DEF pattern, value, pi, vi, star, mark, n, m
<1>8. ScanBounds(t)
  <2>1. pi + 1 <= n /\ vi + 1 <= m
    BY <1>2, <1>3
  <2>3. star < pi /\ vi = mark + (pi - (star + 1))
    BY <1>7
  <2>2. star < pi + 1 /\ vi + 1 = mark + ((pi + 1) - (star + 1))
    BY <1>2, <2>3
  <2> QED
    BY <1>4, <1>7, <2>1, <2>2 DEF ScanBounds, n, m
<1>9. Reaches(pattern, value, pi + 1, vi + 1)
  <2>1. Rules!Takes(pattern[pi + 1], value, vi, vi + 1)
    BY <1>2, <1>3 DEF Rules!Takes
  <2>2. vi + 1 \in Nat
    BY <1>2
  <2> QED
    BY <1>2, <1>6, <2>1, <2>2, ReachFurther
<1>10. ASSUME Starless(value)
       PROVE  LiteralsSince(pattern, value, star, pi + 1, mark)
  <2>1. pattern[pi + 1] # "*"
    <3>1. vi + 1 \in 1..m
      BY <1>2, <1>3
    <3> QED
      BY <1>3, <1>10, <3>1 DEF Starless, m
  <2>2. ASSUME NEW k \in (star + 2)..(pi + 1)
        PROVE  pattern[k] # "*" /\ pattern[k] \in {"?", value[mark + (k - (star + 1))]}
    <3>1. CASE k \in (star + 2)..pi
      BY <1>6, <1>10, <3>1 DEF LiteralsSince
    <3>2. CASE k = pi + 1
      <4>1. mark + (k - (star + 1)) = vi + 1
        BY <1>2, <1>7, <3>2
      <4> QED
        BY <1>3, <2>1, <3>2, <4>1
    <3> QED
      BY <1>2, <3>1, <3>2
  <2> QED
    BY <2>2 DEF LiteralsSince
<1>11. Advances(s, t)
  <2>1. HowFar(t) = mark * (n + 2) + (pi + 1) /\ HowFar(s) = mark * (n + 2) + pi
    BY <1>4 DEF HowFar, mark, n, pi, pattern
  <2>2. mark * (n + 2) \in Nat
    BY <1>2
  <2> QED
    BY <1>2, <2>1, <2>2 DEF Advances
<1> QED
  BY <1>4, <1>5, <1>6, <1>8, <1>9, <1>10, <1>11 DEF ScanKept, ScanIsRight

(* A "*" takes nothing yet, and is what is gone back to from here.         *)
LEMMA MatchesStar ==
  ASSUME NEW C, NEW s, ScanKept(C, s), s.result = "running",
         s.vi < Len(s.value), s.pi < Len(s.pattern), s.pattern[s.pi + 1] = "*",
         NEW t, t = [s EXCEPT !.star = s.pi, !.mark = s.vi, !.pi = @ + 1]
  PROVE  ScanKept(C, t) /\ Advances(s, t)
<1> DEFINE pattern == s.pattern
           value == s.value
           pi == s.pi
           vi == s.vi
           star == s.star
           mark == s.mark
           n == Len(pattern)
           m == Len(value)
<1>1. ScanTyped(C, s)
  BY DEF ScanKept
<1>2. /\ n \in Nat /\ m \in Nat
      /\ pi \in Nat /\ vi \in Nat /\ mark \in Nat /\ star \in Int
  BY <1>1, ScanFacts
<1>3. vi < m /\ pi < n /\ pattern[pi + 1] = "*"
  OBVIOUS
<1>4. /\ t.pattern = pattern /\ t.value = value /\ t.pi = pi + 1 /\ t.vi = vi
      /\ t.star = pi /\ t.mark = vi /\ t.result = "running"
  BY <1>1 DEF ScanTyped
<1>5. ScanTyped(C, t)
  <2>1. pi + 1 \in Nat /\ pi \in Nat /\ vi \in Nat
    BY <1>2
  <2> QED
    BY <1>1, <2>1 DEF ScanTyped
<1>6. /\ ScanBounds(s) /\ Reaches(pattern, value, star + 1, mark) /\ Reaches(pattern, value, pi, vi)
      /\ Starless(value) => /\ LiteralsSince(pattern, value, star, pi, mark)
                            /\ NoMatchBefore(pattern, value, star, mark)
  BY DEF ScanKept, ScanIsRight
<1>7. /\ star >= -1 /\ star < pi
      /\ (star = -1 => mark = 0) /\ (star # -1 => pattern[star + 1] = "*")
      /\ vi = mark + (pi - (star + 1))
  BY <1>6 DEF ScanBounds
<1>p. ASSUME Starless(value), NEW at \in [0..n -> Nat], Aligns(at, pattern, value, n), at[n] = m
      PROVE  at[pi] >= vi
  <2>1. at[star + 1] >= mark
    BY <1>6, <1>p DEF NoMatchBefore
  <2> QED
    BY <1>1, <1>6, <1>p, <2>1, MatchPasses
<1> HIDE DEF pattern, value, pi, vi, star, mark, n, m
<1>8. ScanBounds(t)
  <2>1. pi + 1 <= n /\ vi <= m /\ pi < pi + 1 /\ pi >= -1 /\ pi # -1 /\ vi = vi + ((pi + 1) - (pi + 1))
    BY <1>2, <1>3
  <2> QED
    BY <1>3, <1>4, <2>1 DEF ScanBounds, n, m
<1>9. Reaches(pattern, value, pi + 1, vi)
  <2>1. Rules!Takes(pattern[pi + 1], value, vi, vi)
    BY <1>2, <1>3 DEF Rules!Takes
  <2> QED
    BY <1>2, <1>6, <2>1, ReachFurther
<1>10. LiteralsSince(pattern, value, pi, pi + 1, vi)
  <2>1. (pi + 2)..(pi + 1) = {}
    BY <1>2
  <2> QED
    BY <2>1 DEF LiteralsSince
<1>11. ASSUME Starless(value)
       PROVE  NoMatchBefore(pattern, value, pi, vi)
  <2>1. ASSUME NEW at \in [0..n -> Nat], Aligns(at, pattern, value, n), at[n] = m
        PROVE  at[pi + 1] >= vi
    <3>1. at[pi] >= vi
      BY <1>11, <1>p, <2>1
    <3>2. pi \in 0..n /\ pi + 1 \in pi..n /\ pi + 1 \in 0..n
      BY <1>2, <1>3
    <3>3. at[pi] <= at[pi + 1]
      BY <1>2, <2>1, <3>2, AlignmentClimbs
    <3>4. at[pi] \in Nat /\ at[pi + 1] \in Nat
      BY <3>2
    <3> QED
      BY <1>2, <3>1, <3>3, <3>4
  <2> QED
    BY <2>1 DEF NoMatchBefore, n, m
<1>12. Advances(s, t)
  <2>1. HowFar(t) = vi * (n + 2) + (pi + 1) /\ HowFar(s) = mark * (n + 2) + pi
    BY <1>4 DEF HowFar, mark, n, pi, pattern
  <2>2. vi >= mark
    BY <1>2, <1>7
  <2> DEFINE w == n + 2
  <2>3. w \in Nat
    BY <1>2
  <2> HIDE DEF w
  <2>4. vi * w >= mark * w /\ vi * w \in Nat /\ mark * w \in Nat
    <3>1. PICK d \in Nat : vi = mark + d
      <4>1. vi - mark \in Nat /\ vi = mark + (vi - mark)
        BY <1>2, <2>2
      <4> QED
        BY <4>1
    <3>2. vi * w = mark * w + d * w
      BY <1>2, <2>3, <3>1
    <3>3. d * w \in Nat /\ mark * w \in Nat
      BY <1>2, <2>3
    <3> QED
      BY <3>2, <3>3
  <2> QED
    BY <1>2, <2>1, <2>4 DEF Advances, w
<1> QED
  BY <1>4, <1>5, <1>8, <1>9, <1>10, <1>11, <1>12 DEF ScanKept, ScanIsRight

(* The last "*" takes one character more.  No match is lost: one that      *)
(* gives it less would have been found, and the "*" before it can give it  *)
(* as many.                                                                *)
LEMMA Backtracks ==
  ASSUME NEW C, NEW s, ScanKept(C, s), s.result = "running", s.vi < Len(s.value),
         s.pi < Len(s.pattern) => s.pattern[s.pi + 1] \notin {"?", "*", s.value[s.vi + 1]},
         NEW t, t = IF s.star # -1
                    THEN [s EXCEPT !.pi = s.star + 1, !.mark = @ + 1, !.vi = s.mark + 1]
                    ELSE [s EXCEPT !.result = "no"]
  PROVE  ScanKept(C, t) /\ Advances(s, t)
<1> DEFINE pattern == s.pattern
           value == s.value
           pi == s.pi
           vi == s.vi
           star == s.star
           mark == s.mark
           n == Len(pattern)
           m == Len(value)
<1>1. ScanTyped(C, s)
  BY DEF ScanKept
<1>2. /\ n \in Nat /\ m \in Nat
      /\ pi \in Nat /\ vi \in Nat /\ mark \in Nat /\ star \in Int /\ star >= -1
  BY <1>1, ScanFacts
<1>3. vi < m /\ (pi < n => pattern[pi + 1] \notin {"?", "*", value[vi + 1]})
  OBVIOUS
<1>4. /\ ScanBounds(s) /\ Reaches(pattern, value, star + 1, mark) /\ Reaches(pattern, value, pi, vi)
      /\ Starless(value) => /\ LiteralsSince(pattern, value, star, pi, mark)
                            /\ NoMatchBefore(pattern, value, star, mark)
  BY DEF ScanKept, ScanIsRight
<1>5. /\ pi <= n /\ star < pi
      /\ (star = -1 => mark = 0) /\ (star # -1 => pattern[star + 1] = "*")
      /\ vi = mark + (pi - (star + 1))
  BY <1>4 DEF ScanBounds
<1>p. ASSUME Starless(value), NEW at \in [0..n -> Nat], Aligns(at, pattern, value, n), at[n] = m
      PROVE  /\ at[star + 1] >= mark
             /\ at[star + 1] = mark => at[pi] = vi
  <2>1. at[star + 1] >= mark
    BY <1>4, <1>p DEF NoMatchBefore
  <2> QED
    BY <1>1, <1>4, <1>p, <2>1, MatchPasses
<1>6. star # -1 =>
        /\ t.pattern = pattern /\ t.value = value /\ t.pi = star + 1 /\ t.vi = mark + 1
        /\ t.star = star /\ t.mark = mark + 1 /\ t.result = "running"
  BY <1>1 DEF ScanTyped
<1>7. star = -1 => t.pattern = pattern /\ t.value = value /\ t.result = "no"
  BY <1>1 DEF ScanTyped
<1>8. ScanTyped(C, t)
  <2>1. mark + 1 \in Nat /\ (star # -1 => star + 1 \in Nat)
    BY <1>2
  <2> QED
    BY <1>1, <2>1 DEF ScanTyped
<1> HIDE DEF pattern, value, pi, vi, star, mark, n, m
(* The last "*" does not end at mark in any match. *)
<1>9. ASSUME Starless(value), NEW at \in [0..n -> Nat], Aligns(at, pattern, value, n), at[n] = m
      PROVE  at[star + 1] # mark
  <2>1. SUFFICES ASSUME at[pi] = vi PROVE FALSE
    BY <1>9, <1>p
  <2>2. CASE pi < n
    <3>1. pi + 1 \in 1..n /\ (pi + 1) - 1 = pi
      BY <1>2, <2>2
    <3>2. Rules!Takes(pattern[pi + 1], value, at[pi], at[pi + 1])
      BY <1>9, <3>1 DEF Aligns
    <3>3. at[pi + 1] = vi + 1 /\ pattern[pi + 1] \in {"?", value[vi + 1]}
      BY <1>3, <2>1, <2>2, <3>2 DEF Rules!Takes
    <3> QED
      BY <1>3, <2>2, <3>3
  <2>3. CASE pi = n
    BY <1>2, <1>3, <1>9, <2>1, <2>3
  <2> QED
    BY <1>2, <1>5, <2>2, <2>3
<1>10. CASE star = -1
  <2>1. ASSUME Starless(value), NEW at \in [0..n -> Nat], Aligns(at, pattern, value, n), at[n] = m
        PROVE  FALSE
    <3>1. at[0] = 0 /\ star + 1 = 0 /\ mark = 0
      BY <1>5, <1>10, <2>1 DEF Aligns
    <3> QED
      BY <1>9, <2>1, <3>1
  <2>2. Starless(value) => ~Reaches(pattern, value, n, m)
    BY <2>1 DEF Reaches
  <2> QED
    BY <1>7, <1>8, <1>10, <2>2 DEF ScanKept, ScanIsRight, Advances, n, m
<1>11. CASE star # -1
  <2>1. star >= 0 /\ star + 1 <= n /\ star + 1 \in Nat /\ star + 1 >= 1 /\ star + 1 \in 0..n
    BY <1>2, <1>5, <1>11
  <2>2. mark + 1 <= m
    BY <1>2, <1>3, <1>5
  <2>3. Reaches(pattern, value, star + 1, mark + 1)
    BY <1>2, <1>4, <1>5, <1>11, <2>1, StarTakesMore
  <2>4. ScanBounds(t)
    <3>1. star < star + 1 /\ star >= -1 /\ mark + 1 = (mark + 1) + ((star + 1) - (star + 1))
      BY <1>2
    <3> QED
      BY <1>5, <1>6, <1>11, <2>1, <2>2, <3>1 DEF ScanBounds, n, m
  <2>5. LiteralsSince(pattern, value, star, star + 1, mark + 1)
    <3>1. (star + 2)..(star + 1) = {}
      BY <1>2
    <3> QED
      BY <3>1 DEF LiteralsSince
  <2>6. ASSUME Starless(value)
        PROVE  NoMatchBefore(pattern, value, star, mark + 1)
    <3>1. ASSUME NEW at \in [0..n -> Nat], Aligns(at, pattern, value, n), at[n] = m
          PROVE  at[star + 1] >= mark + 1
      <4>1. at[star + 1] >= mark /\ at[star + 1] # mark
        BY <1>9, <1>p, <2>6, <3>1
      <4>2. at[star + 1] \in Nat
        BY <2>1
      <4> QED
        BY <1>2, <4>1, <4>2
    <3> QED
      BY <3>1 DEF NoMatchBefore, n, m
  <2>7. Advances(s, t)
    <3>1. HowFar(t) = (mark + 1) * (n + 2) + (star + 1) /\ HowFar(s) = mark * (n + 2) + pi
      BY <1>6, <1>11 DEF HowFar, mark, n, pi, pattern
    <3>2. (mark + 1) * (n + 2) = mark * (n + 2) + n + 2
      BY <1>2
    <3>3. mark * (n + 2) \in Nat
      BY <1>2
    <3>4. n + 2 + (star + 1) >= pi + 1
      BY <1>2, <1>5, <2>1
    <3> DEFINE w == mark * (n + 2)
    <3>5. (mark + 1) * (n + 2) = w + n + 2
      BY <3>2
    <3>8. w \in Nat
      BY <3>3
    <3> HIDE DEF w
    <3>6. w + n + 2 + (star + 1) >= (w + pi) + 1
      BY <1>2, <3>4, <3>8
    <3>7. HowFar(t) = w + n + 2 + (star + 1) /\ HowFar(s) = w + pi
      BY <3>1, <3>5 DEF w
    <3> QED
      BY <3>6, <3>7 DEF Advances
  <2> QED
    BY <1>6, <1>8, <1>11, <2>3, <2>4, <2>5, <2>6, <2>7 DEF ScanKept, ScanIsRight
<1> QED
  BY <1>10, <1>11

(* At the end of the value the rest of the pattern takes nothing.          *)
LEMMA MatchesRest ==
  ASSUME NEW C, NEW s, ScanKept(C, s), s.result = "running", ~(s.vi < Len(s.value)),
         NEW t, t = [s EXCEPT !.result =
                       IF \A i \in s.pi + 1..Len(s.pattern) : s.pattern[i] = "*"
                       THEN "yes" ELSE "no"]
  PROVE  ScanKept(C, t) /\ Advances(s, t)
<1> DEFINE pattern == s.pattern
           value == s.value
           pi == s.pi
           vi == s.vi
           star == s.star
           mark == s.mark
           n == Len(pattern)
           m == Len(value)
<1>1. ScanTyped(C, s)
  BY DEF ScanKept
<1>2. /\ n \in Nat /\ m \in Nat
      /\ pi \in Nat /\ vi \in Nat /\ mark \in Nat /\ star \in Int
  BY <1>1, ScanFacts
<1>3. ~(vi < m)
  OBVIOUS
<1>4. /\ t.pattern = pattern /\ t.value = value /\ t.result \in {"yes", "no"}
      /\ t.result = "yes" <=> \A i \in (pi + 1)..n : pattern[i] = "*"
  BY <1>1 DEF ScanTyped
<1>5. ScanTyped(C, t)
  BY <1>1 DEF ScanTyped
<1>6. /\ ScanBounds(s) /\ Reaches(pattern, value, pi, vi)
      /\ Starless(value) => /\ LiteralsSince(pattern, value, star, pi, mark)
                            /\ NoMatchBefore(pattern, value, star, mark)
  BY DEF ScanKept, ScanIsRight
<1>7. pi <= n /\ vi <= m
  BY <1>6 DEF ScanBounds
<1>p. ASSUME Starless(value), NEW at \in [0..n -> Nat], Aligns(at, pattern, value, n), at[n] = m
      PROVE  at[pi] >= vi
  <2>1. at[star + 1] >= mark
    BY <1>6, <1>p DEF NoMatchBefore
  <2> QED
    BY <1>1, <1>6, <1>p, <2>1, MatchPasses
<1> HIDE DEF pattern, value, pi, vi, star, mark, n, m
<1>8. vi = m
  BY <1>2, <1>3, <1>7
<1>9. ASSUME \A i \in (pi + 1)..n : pattern[i] = "*"
      PROVE  Reaches(pattern, value, n, m)
  BY <1>2, <1>6, <1>7, <1>8, <1>9, StarsTakeNothing
<1>10. ASSUME Starless(value), NEW k \in (pi + 1)..n, pattern[k] # "*",
              NEW at \in [0..n -> Nat], Aligns(at, pattern, value, n), at[n] = m
       PROVE  FALSE
  <2>1. k \in 1..n /\ k - 1 \in 0..n /\ pi \in 0..n /\ k - 1 \in pi..n /\ n \in k..n /\ k \in 0..n
    BY <1>2, <1>7
  <2>2. at[k] = at[k - 1] + 1
    BY <1>10, <2>1 DEF Aligns, Rules!Takes
  <2>3. at[pi] <= at[k - 1]
    BY <1>2, <1>10, <2>1, AlignmentClimbs
  <2>4. at[k] <= at[n]
    BY <1>2, <1>10, <2>1, AlignmentClimbs
  <2>5. at[pi] >= vi
    BY <1>10, <1>p
  <2>6. at[pi] \in Nat /\ at[k - 1] \in Nat /\ at[k] \in Nat /\ at[n] \in Nat
    BY <1>2, <2>1
  <2> QED
    BY <1>2, <1>8, <1>10, <2>2, <2>3, <2>4, <2>5, <2>6
<1>11. Starless(value) /\ Reaches(pattern, value, n, m) => \A i \in (pi + 1)..n : pattern[i] = "*"
  BY <1>10 DEF Reaches
<1> QED
  BY <1>4, <1>5, <1>9, <1>11 DEF ScanKept, ScanIsRight, Advances, n, m

(* Every turn of a match keeps what is known and goes further.             *)
LEMMA TurnKeeps ==
  ASSUME NEW C, NEW s, ScanKept(C, s), s.result = "running"
  PROVE  ScanKept(C, Rules!turn(s)) /\ Advances(s, Rules!turn(s))
<1> DEFINE t == Rules!turn(s)
<1>1. CASE s.vi < Len(s.value) /\ s.pi < Len(s.pattern)
           /\ s.pattern[s.pi + 1] \in {"?", s.value[s.vi + 1]}
  <2>1. t = [s EXCEPT !.pi = @ + 1, !.vi = @ + 1]
    BY <1>1 DEF Rules!turn, Rules!InPattern, Rules!InValue, Rules!Pattern, Rules!Value
  <2> QED
    BY <1>1, <2>1, MatchesOne
<1>2. CASE s.vi < Len(s.value) /\ s.pi < Len(s.pattern) /\ s.pattern[s.pi + 1] = "*"
           /\ s.value[s.vi + 1] # "*"
  <2>1. t = [s EXCEPT !.star = s.pi, !.mark = s.vi, !.pi = @ + 1]
    BY <1>2 DEF Rules!turn, Rules!InPattern, Rules!InValue, Rules!Pattern, Rules!Value
  <2> QED
    BY <1>2, <2>1, MatchesStar
<1>3. CASE s.vi < Len(s.value)
           /\ ~(s.pi < Len(s.pattern) /\ s.pattern[s.pi + 1] \in {"?", "*", s.value[s.vi + 1]})
  <2>1. t = IF s.star # -1
            THEN [s EXCEPT !.pi = s.star + 1, !.mark = @ + 1, !.vi = s.mark + 1]
            ELSE [s EXCEPT !.result = "no"]
    BY <1>3 DEF Rules!turn, Rules!InPattern, Rules!InValue, Rules!Pattern, Rules!Value
  <2> QED
    BY <1>3, <2>1, Backtracks
<1>4. CASE ~(s.vi < Len(s.value))
  <2>1. t = [s EXCEPT !.result =
               IF \A i \in s.pi + 1..Len(s.pattern) : s.pattern[i] = "*" THEN "yes" ELSE "no"]
    BY <1>4 DEF Rules!turn, Rules!InPattern, Rules!InValue, Rules!Pattern, Rules!Value
  <2> QED
    BY <1>4, <2>1, MatchesRest
<1> QED
  BY <1>1, <1>2, <1>3, <1>4

(* A match begins at both beginnings.                                      *)
LEMMA ScanStarts ==
  ASSUME NEW C, NEW pattern \in Seq(C), NEW value \in Seq(C),
         NEW s, s = Rules!Scanning(pattern, value)
  PROVE  ScanKept(C, s) /\ s.pattern = pattern /\ s.value = value
<1>1. s = [pattern |-> pattern, value |-> value, pi |-> 0, vi |-> 0, star |-> -1, mark |-> 0,
           result |-> "running"]
  BY DEF Rules!Scanning
<1>2. ScanTyped(C, s)
  BY <1>1 DEF ScanTyped
<1>3. /\ s.pi = 0 /\ s.vi = 0 /\ s.star = -1 /\ s.mark = 0 /\ s.result = "running"
      /\ s.pattern = pattern /\ s.value = value /\ Len(pattern) \in Nat /\ Len(value) \in Nat
      /\ s.star + 1 = 0
  BY <1>1
<1>4. ScanBounds(s)
  BY <1>3 DEF ScanBounds
<1>5. Reaches(pattern, value, 0, 0)
  <2> DEFINE at == [k \in 0..0 |-> 0]
  <2>1. at \in [0..0 -> Nat] /\ Aligns(at, pattern, value, 0) /\ at[0] = 0
    BY DEF Aligns
  <2> QED
    BY <2>1 DEF Reaches
<1>6. LiteralsSince(pattern, value, -1, 0, 0)
  BY DEF LiteralsSince
<1>7. NoMatchBefore(pattern, value, -1, 0)
  <2>1. ASSUME NEW at \in [0..Len(pattern) -> Nat] PROVE at[0] >= 0
    <3>1. 0 \in 0..Len(pattern)
      BY <1>3
    <3> QED
      BY <3>1
  <2>2. -1 + 1 = 0
    OBVIOUS
  <2> QED
    BY <2>1, <2>2 DEF NoMatchBefore
<1> QED
  BY <1>2, <1>3, <1>4, <1>5, <1>6, <1>7 DEF ScanKept, ScanIsRight

(* All turns at once: the match ends, and with the meaning of the pattern  *)
(* if the value holds no "*".                                              *)
LEMMA WildcardMeans ==
  ASSUME NEW C, NEW pattern \in Seq(C), NEW value \in Seq(C), Starless(value)
  PROVE  Rules!wildcardMatch(pattern, value) <=> Rules!Means(pattern, value)
<1> DEFINE n == Len(pattern)
           m == Len(value)
           turns == (m + 1) * (n + 2)
           IsAfter(f) == f = [k \in 0..turns |->
                                IF k = 0 THEN Rules!Scanning(pattern, value)
                                ELSE LET before == f[k - 1]
                                     IN IF before.result = "running" THEN Rules!turn(before)
                                        ELSE before]
           after == CHOOSE f : IsAfter(f)
           Good(s, k) == /\ ScanKept(C, s) /\ s.pattern = pattern /\ s.value = value
                         /\ s.result # "none"
                         /\ s.result = "running" => HowFar(s) >= k
<1>0. n \in Nat /\ m \in Nat
  OBVIOUS
<1>1. turns \in Nat
  BY <1>0
<1>2. Rules!wildcardMatch(pattern, value) = (after[turns].result = "yes")
  BY DEF Rules!wildcardMatch
<1> HIDE DEF n, m, turns
<1>3. \E f : IsAfter(f)
  <2> DEFINE Then(s) == IF s.result = "running" THEN Rules!turn(s) ELSE s
             Follows(f, k) == /\ f[0] = Rules!Scanning(pattern, value)
                              /\ \A i \in 1..k : f[i] = Then(f[i - 1])
  <2>1. \A k \in 0..turns : \E f : f = [i \in 0..k |-> f[i]] /\ Follows(f, k)
    <3> DEFINE Off == {k \in 0..turns : ~ \E f : f = [i \in 0..k |-> f[i]] /\ Follows(f, k)}
    <3>1. SUFFICES ASSUME Off # {} PROVE FALSE
      OBVIOUS
    <3>2. Off \subseteq Nat
      BY <1>1
    <3>3. PICK k \in Off : \A j \in Off : k <= j
      <4> HIDE DEF Off
      <4> QED
        BY <3>1, <3>2, LeastNumber
    <3>4. CASE k = 0
      <4> DEFINE f == [i \in 0..k |-> Rules!Scanning(pattern, value)]
      <4>1. f = [i \in 0..k |-> f[i]] /\ Follows(f, k)
        BY <3>4
      <4> QED
        BY <3>3, <4>1
    <3>5. CASE k # 0
      <4>1. k \in 1..turns /\ k - 1 \in 0..turns /\ k - 1 \notin Off
        <5>1. k \in 0..turns
          BY <3>3
        <5>2. k \in 1..turns /\ k - 1 \in 0..turns /\ ~(k <= k - 1)
          BY <1>1, <3>5, <5>1
        <5> HIDE DEF Off
        <5> QED
          BY <3>3, <5>2
      <4>2. PICK g : g = [i \in 0..(k - 1) |-> g[i]] /\ Follows(g, k - 1)
        BY <4>1
      <4> HIDE DEF Then
      <4> DEFINE f == [i \in 0..k |-> IF i = k THEN Then(g[k - 1]) ELSE g[i]]
      <4>3. f[k] = Then(g[k - 1]) /\ \A i \in 0..(k - 1) : f[i] = g[i]
        BY <1>1, <4>1
      <4>4. f = [i \in 0..k |-> f[i]]
        OBVIOUS
      <4> HIDE DEF f
      <4>5. ASSUME NEW i \in 1..k PROVE f[i] = Then(f[i - 1])
        <5>1. CASE i = k
          <6>1. k - 1 \in 0..(k - 1)
            BY <1>1, <4>1
          <6> QED
            BY <4>3, <5>1, <6>1
        <5>2. CASE i \in 1..(k - 1)
          <6>1. i \in 0..(k - 1) /\ i - 1 \in 0..(k - 1)
            BY <5>2
          <6> QED
            BY <4>2, <4>3, <5>2, <6>1
        <5> QED
          BY <1>1, <4>1, <5>1, <5>2
      <4>6. f[0] = Rules!Scanning(pattern, value)
        <5>1. 0 \in 0..(k - 1)
          BY <1>1, <4>1
        <5> QED
          BY <4>2, <4>3, <5>1
      <4> QED
        BY <3>3, <4>4, <4>5, <4>6
    <3> QED
      BY <3>4, <3>5
  <2>2. PICK f : f = [i \in 0..turns |-> f[i]] /\ Follows(f, turns)
    <3>1. turns \in 0..turns
      BY <1>1
    <3> QED
      BY <2>1, <3>1
  <2>3. \A i \in 0..turns : f[i] = IF i = 0 THEN Rules!Scanning(pattern, value) ELSE Then(f[i - 1])
    <3>1. \A i \in 0..turns : i = 0 \/ (i # 0 /\ i \in 1..turns)
      BY <1>1
    <3> HIDE DEF Then
    <3> QED
      BY <2>2, <3>1
  <2>4. f = [i \in 0..turns |-> IF i = 0 THEN Rules!Scanning(pattern, value) ELSE Then(f[i - 1])]
    <3> HIDE DEF Then
    <3> QED
      BY <2>2, <2>3
  <2>5. IsAfter(f)
    BY <2>4
  <2> QED
    BY <2>5
<1>4. IsAfter(after)
  <2> HIDE DEF IsAfter
  <2> QED
    BY <1>3
<1> HIDE DEF after
<1>5. /\ after[0] = Rules!Scanning(pattern, value)
      /\ \A k \in 1..turns :
           after[k] = IF after[k - 1].result = "running" THEN Rules!turn(after[k - 1]) ELSE after[k - 1]
  <2>1. 0 \in 0..turns /\ \A k \in 1..turns : k \in 0..turns /\ k # 0
    BY <1>1
  <2> QED
    BY <1>4, <2>1
<1> HIDE DEF IsAfter
<1>6. \A k \in 0..turns : Good(after[k], k)
  <2> DEFINE Off == {k \in 0..turns : ~Good(after[k], k)}
  <2> HIDE DEF Good
  <2>1. SUFFICES ASSUME Off # {} PROVE FALSE
    OBVIOUS
  <2>2. Off \subseteq Nat
    BY <1>1
  <2>3. PICK k \in Off : \A j \in Off : k <= j
    <3> HIDE DEF Off
    <3> QED
      BY <2>1, <2>2, LeastNumber
  <2>4. CASE k = 0
    <3>1. ScanKept(C, after[0]) /\ after[0].pattern = pattern /\ after[0].value = value
      BY <1>5, ScanStarts
    <3>2. after[0].result = "running" /\ after[0].mark = 0 /\ after[0].pi = 0
      BY <1>5 DEF Rules!Scanning
    <3>3. HowFar(after[0]) >= 0
      <4>1. 0 * (n + 2) + 0 >= 0
        BY <1>0
      <4> QED
        BY <3>1, <3>2, <4>1 DEF HowFar, n
    <3>4. Good(after[0], 0)
      BY <3>1, <3>2, <3>3 DEF Good
    <3> QED
      BY <2>3, <2>4, <3>4
  <2>5. CASE k # 0
    <3>1. k \in 1..turns /\ k - 1 \in 0..turns /\ k - 1 \notin Off
      BY <1>1, <2>3, <2>5
    <3> DEFINE s == after[k - 1]
               t == after[k]
    <3>2. Good(s, k - 1)
      BY <3>1
    <3>3. t = IF s.result = "running" THEN Rules!turn(s) ELSE s
      BY <1>5, <3>1
    <3> HIDE DEF s, t
    <3>4. CASE s.result = "running"
      <4>1. ScanKept(C, t) /\ Advances(s, t)
        BY <3>2, <3>3, <3>4, TurnKeeps DEF Good
      <4>2. ScanTyped(C, s)
        BY <3>2 DEF Good, ScanKept
      <4>3. t.pattern = s.pattern /\ t.value = s.value /\ t.result \in {"running", "yes", "no"}
        BY <3>3, <3>4, <4>2 DEF Rules!turn, ScanTyped
      <4>4. t.result = "running" => HowFar(t) >= k
        <5> SUFFICES ASSUME t.result = "running" PROVE HowFar(t) >= k
          OBVIOUS
        <5>1. HowFar(s) >= k - 1 /\ HowFar(t) >= HowFar(s) + 1
          BY <3>2, <3>4, <4>1 DEF Good, Advances
        <5>2. HowFar(s) \in Int /\ HowFar(t) \in Int
          <6>1. ScanTyped(C, t)
            BY <4>1 DEF ScanKept
          <6>2. \A a, b, c \in Nat : a * (b + 2) + c \in Int
            OBVIOUS
          <6>3. s.mark \in Nat /\ Len(s.pattern) \in Nat /\ s.pi \in Nat
            BY <4>2, ScanFacts
          <6>4. t.mark \in Nat /\ Len(t.pattern) \in Nat /\ t.pi \in Nat
            BY <6>1, ScanFacts
          <6> QED
            BY <6>2, <6>3, <6>4 DEF HowFar
        <5> QED
          BY <3>1, <5>1, <5>2
      <4>5. Good(t, k)
        BY <3>2, <4>1, <4>3, <4>4 DEF Good
      <4> QED
        BY <2>3, <4>5 DEF t
    <3>5. CASE s.result # "running"
      <4>1. Good(t, k)
        BY <3>2, <3>3, <3>5 DEF Good
      <4> QED
        BY <2>3, <4>1 DEF t
    <3> QED
      BY <3>4, <3>5
  <2> QED
    BY <2>4, <2>5
<1> DEFINE last == after[turns]
<1>7. Good(last, turns)
  <2>1. turns \in 0..turns
    BY <1>1
  <2> HIDE DEF Good
  <2> QED
    BY <1>6, <2>1
<1> HIDE DEF last
<1>8. last.result # "running"
  <2> SUFFICES ASSUME last.result = "running" PROVE FALSE
    OBVIOUS
  <2>1. ScanTyped(C, last) /\ ScanBounds(last) /\ HowFar(last) >= turns
    BY <1>7 DEF ScanKept, ScanIsRight
  <2>2. /\ last.mark \in Nat /\ last.pi \in Nat /\ last.vi \in Nat /\ last.star \in Int
        /\ Len(last.pattern) = n /\ Len(last.value) = m
    BY <1>7, <2>1, ScanFacts DEF n, m
  <2>3. last.pi <= n /\ last.mark <= m
    <3>1. last.vi = last.mark + (last.pi - (last.star + 1)) /\ last.star < last.pi /\ last.vi <= m
          /\ last.pi <= n
      BY <2>1, <2>2 DEF ScanBounds
    <3> QED
      BY <1>0, <2>2, <3>1
  <2> DEFINE w == n + 2
             mark == last.mark
             pi == last.pi
  <2>4. w \in Nat /\ mark \in Nat /\ pi \in Nat /\ pi < w
    BY <1>0, <2>2, <2>3
  <2>5. mark * w + pi >= (m + 1) * w
    BY <2>1, <2>2 DEF HowFar, turns
  <2>6. mark <= m
    BY <2>3
  <2> HIDE DEF w, mark, pi
  <2>7. PICK d \in Nat : m = mark + d
    <3>1. m - mark \in Nat /\ m = mark + (m - mark)
      BY <1>0, <2>4, <2>6
    <3> QED
      BY <3>1
  <2>8. (m + 1) * w = mark * w + d * w + w
    BY <2>4, <2>7
  <2>9. d * w \in Nat /\ mark * w \in Nat
    BY <2>4
  <2> QED
    BY <2>4, <2>5, <2>8, <2>9
<1>9. last.result \in {"yes", "no"} /\ last.pattern = pattern /\ last.value = value
  <2>1. last.result \in {"none", "running", "yes", "no"}
    BY <1>7 DEF ScanKept, ScanTyped
  <2> QED
    BY <1>7, <1>8, <2>1
<1>10. last.result = "yes" <=> Reaches(pattern, value, Len(pattern), Len(value))
  BY <1>7, <1>9 DEF ScanKept, ScanIsRight
<1>11. Rules!Means(pattern, value) <=> Reaches(pattern, value, Len(pattern), Len(value))
  BY MeansIsReached
<1> QED
  BY <1>2, <1>10, <1>11 DEF last

(* A value without a "*" is what it means itself.                          *)
LEMMA MatchMeets ==
  ASSUME NEW C, NEW pattern \in Seq(C), NEW value \in Seq(C)
  PROVE  Rules!match(pattern, value) <=> Rules!Meets(pattern, value)
<1>1. CASE "*" \in Rules!Range(value)
  BY <1>1 DEF Rules!Meets
<1>2. CASE "*" \notin Rules!Range(value)
  <2>1. Starless(value)
    BY <1>2 DEF Rules!Range, Starless
  <2>2. Rules!wildcardMatch(pattern, value) <=> Rules!Means(pattern, value)
    BY <2>1, WildcardMeans
  <2>3. Len(pattern) \in Nat /\ Len(value) \in Nat
    OBVIOUS
  <2>4. ASSUME pattern = value PROVE Rules!Means(pattern, value)
    <3> DEFINE n == Len(pattern)
               at == [k \in 0..n |-> k]
    <3>1. n \in Nat /\ n = Len(value)
      BY <2>3, <2>4
    <3>2. at \in [0..n -> 0..n] /\ at[0] = 0 /\ at[n] = n
      BY <3>1
    <3>3. ASSUME NEW p \in 1..n PROVE Rules!Takes(pattern[p], value, at[p - 1], at[p])
      <4>1. at[p - 1] = p - 1 /\ at[p] = p /\ p = (p - 1) + 1
        BY <3>1
      <4>2. pattern[p] # "*" /\ pattern[p] = value[p]
        BY <2>1, <2>4, <3>1 DEF Starless
      <4> QED
        BY <4>1, <4>2 DEF Rules!Takes
    <3> HIDE DEF at
    <3> QED
      BY <3>1, <3>2, <3>3 DEF Rules!Means
  <2>5. ASSUME pattern = Rules!Star PROVE Rules!Means(pattern, value)
    <3> DEFINE m == Len(value)
               at == [k \in 0..1 |-> IF k = 0 THEN 0 ELSE m]
    <3>1. m \in Nat
      BY <2>3
    <3>2. Len(pattern) = 1 /\ pattern[1] = "*"
      BY <2>5 DEF Rules!Star
    <3> HIDE DEF m
    <3>3. at \in [0..1 -> 0..m] /\ at[0] = 0 /\ at[1] = m
      BY <3>1
    <3> HIDE DEF at
    <3>4. ASSUME NEW p \in 1..1 PROVE Rules!Takes(pattern[p], value, at[p - 1], at[p])
      <4>1. p = 1 /\ p - 1 = 0
        OBVIOUS
      <4>2. at[p - 1] <= at[p] /\ pattern[p] = "*"
        BY <3>1, <3>2, <3>3, <4>1
      <4> QED
        BY <4>2 DEF Rules!Takes
    <3> QED
      BY <3>2, <3>3, <3>4 DEF Rules!Means, m
  <2> QED
    BY <1>2, <2>2, <2>4, <2>5 DEF Rules!Meets, Rules!match
<1> QED
  BY <1>1, <1>2

-----------------------------------------------------------------------------
(* The match of a run.                                                     *)

Characters == RuleLetters \cup {"*", "?"}
ScanIInv == ScanKept(Characters, prmScan)

(* Every step of a match keeps the invariant.                              *)
LEMMA MatcherStep ==
  ASSUME ScanIInv, Rules!Scan
  PROVE  ScanIInv'
<1>1. prmScan.result = "running" /\ prmScan' = Rules!turn(prmScan)
  BY DEF Rules!Scan
<1>2. ScanKept(Characters, Rules!turn(prmScan))
  BY <1>1, TurnKeeps DEF ScanIInv
<1>3. ScanKept(Characters, prmScan')
  BY <1>1, <1>2
<1> QED
  BY <1>3 DEF ScanIInv, ScanKept, ScanTyped, ScanIsRight, ScanBounds, Characters

(* A match that has ended has the answer of the pattern.                   *)
LEMMA MatcherSafe ==
  ASSUME ScanIInv
  PROVE  Rules!MatcherIsRight
<1>1. ScanTyped(Characters, prmScan)
  BY DEF ScanIInv, ScanKept
<1>2. prmScan.value \in Seq(Characters) /\ Len(prmScan.pattern) \in Nat /\ Len(prmScan.value) \in Nat
  BY <1>1, ScanFacts
<1>3. "*" \notin Rules!Range(prmScan.value) => Starless(prmScan.value)
  BY <1>2 DEF Rules!Range, Starless
<1>4. Rules!Means(prmScan.pattern, prmScan.value)
        <=> Reaches(prmScan.pattern, prmScan.value, Len(prmScan.pattern), Len(prmScan.value))
  BY <1>2, MeansIsReached
<1> QED
  BY <1>3, <1>4 DEF ScanIInv, ScanKept, ScanIsRight, Rules!MatcherIsRight

-----------------------------------------------------------------------------
(* What the rules say.                                                     *)

(* The characters of an action or a resource, and the rules of a ruleset.  *)
Chars == STRING \cup {"*"}
AnyRule == [action : Seq(Chars), resource : Seq(Chars), effect : STRING]

(* The largest of a set is the one that no other exceeds.                  *)
LEMMA LargestRule ==
  ASSUME NEW T, T \subseteq Int, NEW x \in T, \A y \in T : x >= y
  PROVE  Rules!Max(T) = x
<1>1. Rules!Max(T) \in T /\ \A y \in T : Rules!Max(T) >= y
  BY DEF Rules!Max
<1>2. Rules!Max(T) >= x /\ x >= Rules!Max(T)
  BY <1>1
<1>3. Rules!Max(T) \in Int /\ x \in Int
  BY <1>1
<1> QED
  BY <1>2, <1>3

(* To overwrite the effect rule by rule is to take the last that covers.   *)
LEMMA Evaluates ==
  ASSUME NEW rules \in Seq(AnyRule), NEW action \in Seq(Chars), NEW resource \in Seq(Chars)
  PROVE  Rules!Evaluate(action, resource, rules) = Rules!Says(rules, action, resource)
<1> DEFINE n == Len(rules)
           Hit(i) == Rules!Covers(rules[i], action, resource)
           Met(i) == Rules!Meets(rules[i].action, action) /\ Rules!Meets(rules[i].resource, resource)
           Covering(k) == {i \in 1..k : Hit(i)}
           SaysTo(k) == IF Covering(k) = {} THEN "allow" ELSE rules[Rules!Max(Covering(k))].effect
           IsEffect(f) == f = [i \in 0..n |-> IF i = 0 THEN "allow"
                                               ELSE IF Hit(i) THEN rules[i].effect ELSE f[i - 1]]
           effect == CHOOSE f : IsEffect(f)
           g == [k \in 0..n |-> SaysTo(k)]
<1>0. n \in Nat
  OBVIOUS
<1>a. ASSUME NEW i \in 1..n PROVE Hit(i) <=> Met(i)
  <2>1. rules[i].action \in Seq(Chars) /\ rules[i].resource \in Seq(Chars)
    <3>1. rules[i] \in AnyRule
      OBVIOUS
    <3> QED
      BY <3>1 DEF AnyRule
  <2> QED
    BY <2>1, MatchMeets DEF Rules!Covers
<1>b. Covering(n) = {i \in 1..n : Met(i)}
  BY <1>a
<1>1. Rules!Evaluate(action, resource, rules) = effect[n] /\ Rules!Says(rules, action, resource) = SaysTo(n)
  <2>1. Rules!Evaluate(action, resource, rules) = effect[n]
    BY DEF Rules!Evaluate
  <2>2. Rules!Says(rules, action, resource)
          = LET covering == {i \in 1..n : Met(i)}
            IN IF covering = {} THEN "allow" ELSE rules[Rules!Max(covering)].effect
    BY DEF Rules!Says
  <2> HIDE DEF Met, Covering, effect
  <2> QED
    BY <1>b, <2>1, <2>2
<1> HIDE DEF n, Hit
<1>2. SaysTo(0) = "allow"
  OBVIOUS
<1>3. ASSUME NEW k \in 1..n
      PROVE  SaysTo(k) = IF Hit(k) THEN rules[k].effect ELSE SaysTo(k - 1)
  <2>1. CASE Hit(k)
    <3>1. k \in Covering(k) /\ Covering(k) \subseteq Int /\ \A y \in Covering(k) : k >= y
      BY <2>1
    <3>2. Rules!Max(Covering(k)) = k
      <4> HIDE DEF Covering
      <4> QED
        BY <3>1, LargestRule
    <3> QED
      BY <2>1, <3>1, <3>2
  <2>2. CASE ~Hit(k)
    <3>1. Covering(k) = Covering(k - 1)
      BY <2>2
    <3> HIDE DEF Covering
    <3> QED
      BY <2>2, <3>1
  <2> QED
    BY <2>1, <2>2
<1> HIDE DEF Covering, SaysTo
<1>4. IsEffect(g)
  <2>1. \A i \in 0..n : g[i] = IF i = 0 THEN "allow" ELSE IF Hit(i) THEN rules[i].effect ELSE g[i - 1]
    <3>1. ASSUME NEW i \in 1..n PROVE g[i] = IF Hit(i) THEN rules[i].effect ELSE g[i - 1]
      <4>1. g[i] = SaysTo(i) /\ g[i - 1] = SaysTo(i - 1)
        BY <1>0
      <4> QED
        BY <1>3, <4>1
    <3>2. g[0] = "allow"
      BY <1>0, <1>2
    <3>3. \A i \in 0..n : i = 0 \/ (i # 0 /\ i \in 1..n)
      BY <1>0
    <3> QED
      BY <3>1, <3>2, <3>3
  <2> HIDE DEF IsEffect
  <2>2. g = [i \in 0..n |-> g[i]]
    OBVIOUS
  <2> QED
    BY <2>1, <2>2 DEF IsEffect
<1>5. IsEffect(effect)
  <2> HIDE DEF IsEffect, g
  <2> QED
    BY <1>4
<1> HIDE DEF effect, g
<1>6. \A i \in 0..n : effect[i] = IF i = 0 THEN "allow" ELSE IF Hit(i) THEN rules[i].effect ELSE effect[i - 1]
  BY <1>5
<1> HIDE DEF IsEffect
<1>7. effect[n] = SaysTo(n)
  <2> DEFINE Off == {k \in 0..n : effect[k] # SaysTo(k)}
  <2>1. SUFFICES ASSUME Off # {} PROVE FALSE
    BY <1>0
  <2>2. Off \subseteq Nat
    BY <1>0
  <2>3. PICK k \in Off : \A j \in Off : k <= j
    <3> HIDE DEF Off
    <3> QED
      BY <2>1, <2>2, LeastNumber
  <2>4. k # 0
    BY <1>0, <1>2, <1>6, <2>3
  <2>5. k \in 1..n /\ k - 1 \in 0..n /\ k - 1 \notin Off
    BY <1>0, <2>3, <2>4
  <2>6. effect[k - 1] = SaysTo(k - 1)
    BY <2>5
  <2>7. effect[k] = SaysTo(k)
    BY <1>3, <1>6, <2>4, <2>5, <2>6
  <2> QED
    BY <2>3, <2>7
<1> QED
  BY <1>1, <1>7

-----------------------------------------------------------------------------
(* Rulesets.                                                               *)

LEMMA FlattenIsSeq ==
  ASSUME NEW S, NEW seqs \in Seq(Seq(S))
  PROVE  Rules!FlattenSeq(seqs) \in Seq(S)
<1> DEFINE n == Len(seqs)
           Follows(f, k) == \A i \in 1..k : f[i] = IF i = 1 THEN seqs[i] ELSE f[i - 1] \o seqs[i]
           IsFlat(f) == f = [i \in 1..n |-> IF i = 1 THEN seqs[i] ELSE f[i - 1] \o seqs[i]]
           flatten == CHOOSE f : IsFlat(f)
<1>1. n \in Nat /\ \A i \in 1..n : seqs[i] \in Seq(S)
  OBVIOUS
<1>2. CASE n = 0
  <2>1. seqs = <<>>
    BY <1>2
  <2>2. <<>> \in Seq(S)
    OBVIOUS
  <2> QED
    BY <1>2, <2>1, <2>2 DEF Rules!FlattenSeq
<1>3. CASE n # 0
  <2>1. Rules!FlattenSeq(seqs) = flatten[n]
    BY <1>3 DEF Rules!FlattenSeq
  <2> HIDE DEF n
  <2>2. \A k \in 1..n : \E f \in [1..k -> Seq(S)] : Follows(f, k)
    <3> DEFINE Off == {k \in 1..n : ~ \E f \in [1..k -> Seq(S)] : Follows(f, k)}
    <3>1. SUFFICES ASSUME Off # {} PROVE FALSE
      OBVIOUS
    <3>2. Off \subseteq Nat
      OBVIOUS
    <3>3. PICK k \in Off : \A j \in Off : k <= j
      <4> HIDE DEF Off
      <4> QED
        BY <3>1, <3>2, LeastNumber
    <3>4. CASE k = 1
      <4> DEFINE f == [i \in 1..k |-> seqs[1]]
      <4>1. f \in [1..k -> Seq(S)] /\ Follows(f, k)
        BY <1>1, <3>4
      <4> QED
        BY <3>3, <4>1
    <3>5. CASE k # 1
      <4>1. k - 1 \in 1..n /\ k - 1 \notin Off
        <5>1. k \in 1..n
          BY <3>3
        <5>2. k - 1 \in 1..n /\ ~(k <= k - 1)
          BY <1>1, <3>5, <5>1
        <5> HIDE DEF Off
        <5> QED
          BY <3>3, <5>2
      <4>2. PICK h \in [1..(k - 1) -> Seq(S)] : Follows(h, k - 1)
        BY <4>1
      <4> DEFINE f == [i \in 1..k |-> IF i = k THEN h[k - 1] \o seqs[k] ELSE h[i]]
      <4>3. h[k - 1] \in Seq(S) /\ seqs[k] \in Seq(S)
        BY <1>1, <3>3, <4>1, <4>2
      <4>4. h[k - 1] \o seqs[k] \in Seq(S)
        BY <4>3, ConcatProperties
      <4>5. f \in [1..k -> Seq(S)]
        <5> DEFINE last == h[k - 1] \o seqs[k]
        <5>1. last \in Seq(S)
          BY <4>4
        <5> HIDE DEF last
        <5>2. \A i \in 1..k : i = k \/ i \in 1..(k - 1)
          BY <3>3
        <5>3. [i \in 1..k |-> IF i = k THEN last ELSE h[i]] \in [1..k -> Seq(S)]
          BY <5>1, <5>2
        <5> QED
          BY <5>3 DEF last
      <4>6. f[k] = h[k - 1] \o seqs[k] /\ \A i \in 1..(k - 1) : f[i] = h[i]
        <5> DEFINE last == h[k - 1] \o seqs[k]
        <5>1. k \in Nat /\ k >= 1
          BY <3>3
        <5> HIDE DEF last
        <5>2. k \in 1..k /\ \A i \in 1..(k - 1) : i \in 1..k /\ i # k
          BY <5>1
        <5>3. /\ [i \in 1..k |-> IF i = k THEN last ELSE h[i]][k] = last
              /\ \A i \in 1..(k - 1) : [i_1 \in 1..k |-> IF i_1 = k THEN last ELSE h[i_1]][i] = h[i]
          BY <5>2
        <5> QED
          BY <5>3 DEF last
      <4> HIDE DEF f
      <4>7. Follows(f, k)
        <5>1. ASSUME NEW i \in 1..k PROVE f[i] = IF i = 1 THEN seqs[i] ELSE f[i - 1] \o seqs[i]
          <6>1. CASE i = k
            <7>1. k - 1 \in 1..(k - 1)
              BY <1>1, <4>1
            <7>2. f[i - 1] = h[k - 1]
              BY <4>6, <6>1, <7>1
            <7> QED
              BY <3>5, <4>6, <6>1, <7>2
          <6>2. CASE i \in 1..(k - 1)
            <7>1. f[i] = IF i = 1 THEN seqs[i] ELSE h[i - 1] \o seqs[i]
              BY <4>2, <4>6, <6>2
            <7>2. i # 1 => f[i - 1] = h[i - 1]
              BY <4>6, <6>2
            <7> QED
              BY <7>1, <7>2
          <6>3. i = k \/ i \in 1..(k - 1)
            BY <3>3
          <6> QED
            BY <6>1, <6>2, <6>3
        <5> QED
          BY <5>1
      <4> QED
        BY <3>3, <4>5, <4>7
    <3> QED
      BY <3>4, <3>5
  <2>3. PICK f \in [1..n -> Seq(S)] : Follows(f, n)
    <3>1. n \in 1..n
      BY <1>1, <1>3
    <3> QED
      BY <2>2, <3>1
  <2>4. IsFlat(f)
    <3>1. f = [i \in 1..n |-> f[i]]
      OBVIOUS
    <3> QED
      BY <2>3, <3>1
  <2>5. IsFlat(flatten)
    <3> HIDE DEF IsFlat
    <3> QED
      BY <2>4
  <2> HIDE DEF flatten
  <2>6. Follows(flatten, n)
    BY <2>5
  <2>7. flatten[n] = f[n]
    <3> DEFINE Off == {k \in 1..n : flatten[k] # f[k]}
    <3>1. SUFFICES ASSUME Off # {} PROVE FALSE
      BY <1>1, <1>3
    <3>2. Off \subseteq Nat
      OBVIOUS
    <3>3. PICK k \in Off : \A j \in Off : k <= j
      <4> HIDE DEF Off
      <4> QED
        BY <3>1, <3>2, LeastNumber
    <3>4. CASE k = 1
      BY <2>3, <2>6, <3>3, <3>4
    <3>5. CASE k # 1
      <4>1. k - 1 \in 1..n /\ k - 1 \notin Off
        BY <1>1, <3>3, <3>5
      <4>2. flatten[k - 1] = f[k - 1]
        BY <4>1
      <4>3. flatten[k] = flatten[k - 1] \o seqs[k] /\ f[k] = f[k - 1] \o seqs[k]
        BY <2>3, <2>6, <3>3, <3>5
      <4> QED
        BY <3>3, <4>2, <4>3
    <3> QED
      BY <3>4, <3>5
  <2>8. n \in 1..n
    BY <1>1, <1>3
  <2> QED
    BY <2>1, <2>3, <2>7, <2>8
<1> QED
  BY <1>2, <1>3

(* A configuration that is read is a sequence of rules.                    *)
LEMMA RulesetIsSeq ==
  ASSUME NEW form \in RuleForms, Rules!UnmarshalJSON(form) # None
  PROVE  Rules!UnmarshalJSON(form) \in Seq(AnyRule)
<1> DEFINE Read == [action : Seq(STRING), resource : Seq(STRING), effect : STRING]
           ofEffect == <<[action |-> Rules!Star, resource |-> Rules!Star, effect |-> form.effect]>>
           ofAction(a) == [j \in DOMAIN a.resources |->
                             [action |-> a.action, resource |-> a.resources[j].resource,
                              effect |-> a.resources[j].effect]]
           ofObject == Rules!FlattenSeq([i \in DOMAIN form.actions |-> ofAction(form.actions[i])])
           rules == CASE form.kind = "effect" -> ofEffect
                      [] form.kind = "object" -> ofObject
                      [] form.kind = "array" -> form.rules
           read == [i \in DOMAIN rules |-> Rules!normalizeRule(rules[i])]
<1>1. Rules!UnmarshalJSON(form) = read
  BY DEF Rules!UnmarshalJSON
<1>2. form \in RuleForm
  BY RuleAssumption DEF RuleAssumption
<1>0. Rules!Star \in Seq(Chars) /\ Read \subseteq AnyRule
  <2>1. Rules!Star \in Seq(Chars)
    BY DEF Rules!Star, Chars
  <2>2. Seq(STRING) \subseteq Seq(Chars)
    BY DEF Chars
  <2> QED
    BY <2>1, <2>2 DEF AnyRule
<1>3. rules \in Seq(AnyRule)
  <2>1. CASE form.kind = "effect"
    <3>1. rules = ofEffect
      BY <2>1
    <3>2. form.effect \in STRING
      BY <1>2, <2>1 DEF RuleForm
    <3>3. ofEffect \in Seq(AnyRule)
      <4> DEFINE rule == [action |-> Rules!Star, resource |-> Rules!Star, effect |-> form.effect]
      <4>1. rule \in AnyRule
        BY <1>0, <3>2 DEF AnyRule
      <4> HIDE DEF rule
      <4>2. <<rule>> \in Seq(AnyRule)
        BY <4>1
      <4> QED
        BY <4>2 DEF rule
    <3> HIDE DEF rules, ofEffect
    <3> QED
      BY <3>1, <3>3
  <2>2. CASE form.kind = "array"
    <3>1. rules = form.rules
      BY <2>2
    <3>2. form.rules \in Seq(Read)
      BY <1>2, <2>2 DEF RuleForm
    <3> HIDE DEF Read, rules
    <3>3. form.rules \in Seq(AnyRule)
      BY <1>0, <3>2
    <3> QED
      BY <3>1, <3>3
  <2>3. CASE form.kind = "object"
    <3>1. rules = ofObject
      BY <2>3
    <3> DEFINE Named == [resource : Seq(STRING), effect : STRING]
               Action == [action : Seq(STRING), resources : Seq(Named)]
               parts == [i \in DOMAIN form.actions |-> ofAction(form.actions[i])]
    <3>2. form.actions \in Seq(Action)
      BY <1>2, <2>3 DEF RuleForm
    <3> HIDE DEF rules
    <3>3. ASSUME NEW a \in Action PROVE ofAction(a) \in Seq(Read)
      <4>1. a.resources \in Seq(Named) /\ a.action \in Seq(STRING)
        BY <3>3
      <4> HIDE DEF Named, Action
      <4>2. DOMAIN a.resources = 1..Len(a.resources) /\ Len(a.resources) \in Nat
            /\ \A j \in 1..Len(a.resources) : a.resources[j] \in Named
        BY <4>1
      <4>3. \A j \in 1..Len(a.resources) :
              [action |-> a.action, resource |-> a.resources[j].resource, effect |-> a.resources[j].effect] \in Read
        BY <4>1, <4>2 DEF Named
      <4> HIDE DEF Read
      <4> DEFINE n == Len(a.resources)
                 e(j) == [action |-> a.action, resource |-> a.resources[j].resource,
                          effect |-> a.resources[j].effect]
      <4>4. n \in Nat /\ \A j \in 1..n : e(j) \in Read
        BY <4>2, <4>3
      <4>5. ofAction(a) = [j \in 1..n |-> e(j)]
        BY <4>2
      <4> HIDE DEF n, e
      <4>6. [j \in 1..n |-> e(j)] \in Seq(Read)
        BY <4>4
      <4> QED
        BY <4>5, <4>6
    <3>4. parts \in Seq(Seq(Read))
      <4> HIDE DEF Named, Action, Read
      <4>1. DOMAIN form.actions = 1..Len(form.actions) /\ Len(form.actions) \in Nat
            /\ \A j \in 1..Len(form.actions) : form.actions[j] \in Action
        BY <3>2
      <4> DEFINE n == Len(form.actions)
                 e(j) == ofAction(form.actions[j])
      <4>2. n \in Nat /\ \A j \in 1..n : e(j) \in Seq(Read)
        BY <3>3, <4>1
      <4>3. parts = [j \in 1..n |-> e(j)]
        BY <4>1
      <4> HIDE DEF n, e, parts
      <4>4. [j \in 1..n |-> e(j)] \in Seq(Seq(Read))
        BY <4>2
      <4> QED
        BY <4>3, <4>4
    <3>5. ofObject \in Seq(Read)
      <4> HIDE DEF parts, Read
      <4>1. Rules!FlattenSeq(parts) \in Seq(Read)
        BY <3>4, FlattenIsSeq
      <4> QED
        BY <4>1 DEF parts
    <3> HIDE DEF ofObject, Read
    <3>6. ofObject \in Seq(AnyRule)
      BY <1>0, <3>5
    <3> QED
      BY <3>1, <3>6
  <2>4. form.kind \in {"effect", "array", "object"}
    BY <1>2 DEF RuleForm
  <2> HIDE DEF rules
  <2> QED
    BY <2>1, <2>2, <2>3, <2>4
<1> HIDE DEF rules, Read
<1> DEFINE n == Len(rules)
           e(i) == Rules!normalizeRule(rules[i])
<1>4. n \in Nat /\ DOMAIN rules = 1..n /\ \A i \in 1..n : rules[i] \in AnyRule
  BY <1>3
<1>5. ASSUME NEW rule \in AnyRule PROVE Rules!normalizeRule(rule) \in AnyRule
  BY <1>0 DEF Rules!normalizeRule, AnyRule
<1>6. \A i \in 1..n : e(i) \in AnyRule
  BY <1>4, <1>5
<1>7. read = [i \in 1..n |-> e(i)]
  BY <1>4
<1> HIDE DEF n, e, read
<1>8. [i \in 1..n |-> e(i)] \in Seq(AnyRule)
  BY <1>4, <1>6
<1> QED
  BY <1>1, <1>7, <1>8

-----------------------------------------------------------------------------
(* The check of a call.                                                    *)

Targets == UNION {{Rules!permissionTarget(call)[i] : i \in 1..Len(Rules!permissionTarget(call))} :
                    call \in RuleCalls}

(* Of the first n resources, those whose rule says to ask.                 *)
Asked(rules, action, resources, n) ==
  {i \in 1..n : Rules!Says(rules, action, resources[i]) = "ask"}

(* What the check knows when it has looked at the first n resources.       *)
Answered(rules, action, resources, n, asks) ==
  /\ \A i \in 1..n : Rules!Says(rules, action, resources[i]) # "deny"
  /\ Len(asks) = Cardinality(Asked(rules, action, resources, n))
  /\ \A i \in Asked(rules, action, resources, n) :
       asks[Cardinality(Asked(rules, action, resources, i))] = resources[i]

(* The values of the state of a check.                                     *)
CheckTyped ==
  prmCheck \in [rules : Seq(AnyRule), call : RuleCalls, next : Nat, asks : Seq(Targets),
               denied : Targets \cup {None}, done : BOOLEAN]

(* A check that goes on has met no denial; one that has stopped before the *)
(* end has.                                                                *)
CheckIsRight ==
  LET resources == Rules!permissionTarget(prmCheck.call)
      action == prmCheck.call.action
      count == Len(resources)
  IN /\ prmCheck.next >= 1 /\ prmCheck.next <= count + 1
     /\ prmCheck.denied = None =>
          /\ Answered(prmCheck.rules, action, resources, prmCheck.next - 1, prmCheck.asks)
          /\ prmCheck.done <=> prmCheck.next = count + 1
     /\ prmCheck.denied # None =>
          /\ prmCheck.done
          /\ \E i \in 1..count : Rules!Says(prmCheck.rules, action, resources[i]) = "deny"

(* What every step of a check keeps.                                       *)
CheckIInv == prmCheck = Rules!NoCheck \/ (CheckTyped /\ CheckIsRight)

(* Every call has something that is checked, and None is not among it.     *)
LEMMA TargetIs ==
  ASSUME NEW call \in RuleCalls
  PROVE  /\ Len(Rules!permissionTarget(call)) \in Nat /\ Len(Rules!permissionTarget(call)) >= 1
         /\ \A i \in 1..Len(Rules!permissionTarget(call)) :
              /\ Rules!permissionTarget(call)[i] \in Targets \ {None}
              /\ Rules!permissionTarget(call)[i] \in Seq(Chars)
<1> DEFINE resources == Rules!permissionTarget(call)
           Words == Seq(STRING)
<1>1. call.resources \in Seq(Words) /\ \A i \in DOMAIN call.resources : call.resources[i] # None
  BY RuleAssumption DEF RuleAssumption
<1>4. None # <<"*">>
  BY RuleAssumption DEF RuleAssumption
<1>5. <<"*">> \in Seq(Chars) /\ Words \subseteq Seq(Chars)
  <2>1. <<"*">> \in Seq(Chars)
    BY DEF Chars
  <2>2. Words \subseteq Seq(Chars)
    BY DEF Chars
  <2> QED
    BY <2>1, <2>2
<1> HIDE DEF Words
<1>2. /\ Len(resources) \in Nat /\ Len(resources) >= 1
      /\ \A i \in 1..Len(resources) : resources[i] # None /\ resources[i] \in Seq(Chars)
  <2>1. CASE call.resources = <<>>
    <3>1. resources = <<<<"*">>>>
      BY <2>1 DEF Rules!permissionTarget, Rules!Star
    <3>2. Len(<<<<"*">>>>) = 1 /\ <<<<"*">>>>[1] = <<"*">>
      OBVIOUS
    <3>3. Len(resources) = 1 /\ resources[1] = <<"*">>
      BY <3>1, <3>2
    <3> HIDE DEF resources
    <3>4. Len(resources) \in Nat /\ Len(resources) >= 1 /\ \A i \in 1..Len(resources) : i = 1
      BY <3>3
    <3>5. resources[1] # None /\ resources[1] \in Seq(Chars)
      BY <1>4, <1>5, <3>3
    <3> QED
      BY <3>4, <3>5
  <2>2. CASE call.resources # <<>>
    <3>1. resources = call.resources
      BY <2>2 DEF Rules!permissionTarget
    <3>2. Len(call.resources) \in Nat /\ Len(call.resources) # 0 /\ DOMAIN call.resources = 1..Len(call.resources)
      BY <1>1, <2>2
    <3> HIDE DEF resources
    <3>3. \A i \in 1..Len(call.resources) : call.resources[i] \in Words
      BY <1>1
    <3> QED
      BY <1>1, <1>5, <3>1, <3>2, <3>3
  <2> QED
    BY <2>1, <2>2
<1>3. \A i \in 1..Len(resources) : resources[i] \in Targets
  BY DEF Targets
<1> QED
  BY <1>2, <1>3

(* One resource more is one that asks more, or none.                       *)
LEMMA AskedGrows ==
  ASSUME NEW rules, NEW action, NEW resources, NEW n \in Nat
  PROVE  LET asked(k) == Asked(rules, action, resources, k)
         IN /\ IsFiniteSet(asked(n)) /\ Cardinality(asked(n)) \in Nat
            /\ (\A i \in asked(n) : i \in 1..n /\ Cardinality(asked(i)) \in 1..Cardinality(asked(n)))
            /\ asked(n + 1) = IF Rules!Says(rules, action, resources[n + 1]) = "ask"
                              THEN asked(n) \cup {n + 1} ELSE asked(n)
            /\ n + 1 \notin asked(n)
<1> DEFINE asked(k) == Asked(rules, action, resources, k)
           Hit(i) == Rules!Says(rules, action, resources[i]) = "ask"
<1>1. \A k : asked(k) = {i \in 1..k : Hit(i)}
  BY DEF Asked
<1> HIDE DEF asked, Hit
<1>2. \A k \in Nat : IsFiniteSet(asked(k)) /\ Cardinality(asked(k)) \in Nat
  <2>1. \A k \in Nat : IsFiniteSet(1..k)
    BY FS_Interval
  <2>2. \A k \in Nat : asked(k) \subseteq 1..k
    BY <1>1
  <2> QED
    BY <2>1, <2>2, FS_Subset, FS_CardinalityType
<1>3. ASSUME NEW i \in asked(n)
      PROVE  i \in 1..n /\ Cardinality(asked(i)) \in 1..Cardinality(asked(n))
  <2>1. i \in 1..n /\ i \in Nat /\ Hit(i)
    BY <1>1, <1>3
  <2>2. asked(i) \subseteq asked(n) /\ i \in asked(i)
    BY <1>1, <2>1
  <2>3. Cardinality(asked(i)) <= Cardinality(asked(n))
    BY <1>2, <2>2, FS_Subset
  <2>4. Cardinality(asked(i)) # 0
    BY <1>2, <2>1, <2>2, FS_EmptySet
  <2> QED
    BY <1>2, <2>1, <2>3, <2>4
<1>4. asked(n + 1) = IF Hit(n + 1) THEN asked(n) \cup {n + 1} ELSE asked(n)
  BY <1>1
<1>5. n + 1 \notin asked(n)
  BY <1>1
<1> QED
  BY <1>2, <1>3, <1>4, <1>5 DEF asked, Hit

(* What the check knows of n resources and of the next is what it knows of *)
(* both.                                                                   *)
LEMMA AnswerGrows ==
  ASSUME NEW rules, NEW action, NEW resources, NEW n \in Nat, NEW S, NEW asks \in Seq(S),
         resources[n + 1] \in S, Answered(rules, action, resources, n, asks),
         Rules!Says(rules, action, resources[n + 1]) # "deny"
  PROVE  Answered(rules, action, resources, n + 1,
                  IF Rules!Says(rules, action, resources[n + 1]) = "ask"
                  THEN Append(asks, resources[n + 1]) ELSE asks)
<1> DEFINE asked(k) == Asked(rules, action, resources, k)
           Hit(i) == Rules!Says(rules, action, resources[i]) = "ask"
           more == IF Hit(n + 1) THEN Append(asks, resources[n + 1]) ELSE asks
<1>1. /\ IsFiniteSet(asked(n)) /\ Cardinality(asked(n)) \in Nat
      /\ (\A i \in asked(n) : i \in 1..n /\ Cardinality(asked(i)) \in 1..Cardinality(asked(n)))
      /\ asked(n + 1) = IF Hit(n + 1) THEN asked(n) \cup {n + 1} ELSE asked(n)
      /\ n + 1 \notin asked(n)
  BY AskedGrows
<1>2. /\ \A i \in 1..n : Rules!Says(rules, action, resources[i]) # "deny"
      /\ Len(asks) = Cardinality(asked(n))
      /\ \A i \in asked(n) : asks[Cardinality(asked(i))] = resources[i]
  BY DEF Answered
<1>3. \A i \in 1..(n + 1) : i \in 1..n \/ i = n + 1
  OBVIOUS
<1>4. \A i \in 1..(n + 1) : Rules!Says(rules, action, resources[i]) # "deny"
  BY <1>2, <1>3
<1> HIDE DEF asked, Hit
<1>5. Len(more) = Cardinality(asked(n + 1)) /\ \A i \in asked(n + 1) : more[Cardinality(asked(i))] = resources[i]
  <2>1. CASE ~Hit(n + 1)
    BY <1>1, <1>2, <2>1
  <2>2. CASE Hit(n + 1)
    <3>1. asked(n + 1) = asked(n) \cup {n + 1} /\ more = Append(asks, resources[n + 1])
      BY <1>1, <2>2
    <3>2. Cardinality(asked(n + 1)) = Cardinality(asked(n)) + 1
      BY <1>1, <3>1, FS_AddElement
    <3>3. /\ Len(more) = Len(asks) + 1 /\ more[Len(asks) + 1] = resources[n + 1]
          /\ \A k \in 1..Len(asks) : more[k] = asks[k]
      <4>1. /\ Len(Append(asks, resources[n + 1])) = Len(asks) + 1
            /\ Append(asks, resources[n + 1])[Len(asks) + 1] = resources[n + 1]
            /\ \A k \in 1..Len(asks) : Append(asks, resources[n + 1])[k] = asks[k]
        BY AppendProperties
      <4> QED
        BY <3>1, <4>1
    <3> HIDE DEF more
    <3>4. ASSUME NEW i \in asked(n) PROVE more[Cardinality(asked(i))] = resources[i]
      BY <1>1, <1>2, <3>3, <3>4
    <3> QED
      BY <1>2, <3>1, <3>2, <3>3, <3>4
  <2> QED
    BY <2>1, <2>2
<1> QED
  BY <1>4, <1>5 DEF Answered, asked, Hit

(* A turn of the loop over the resources.                                  *)
LEMMA CheckStep ==
  ASSUME CheckIInv, Rules!CheckResource
  PROVE  CheckIInv'
<1>1. ~prmCheck.done
  BY DEF Rules!CheckResource
<1>2. prmCheck # Rules!NoCheck
  BY <1>1 DEF Rules!NoCheck
<1>3. CheckTyped /\ CheckIsRight
  BY <1>2 DEF CheckIInv
<1>4. prmCheck \in [rules : Seq(AnyRule), call : RuleCalls, next : Nat, asks : Seq(Targets),
                   denied : Targets \cup {None}, done : BOOLEAN]
  BY <1>3 DEF CheckTyped
<1> DEFINE rules == prmCheck.rules
           action == prmCheck.call.action
           resources == Rules!permissionTarget(prmCheck.call)
           count == Len(resources)
           now == prmCheck.next
           resource == resources[now]
           said == Rules!Says(rules, action, resource)
           asks == IF said = "ask" THEN Append(prmCheck.asks, resource) ELSE prmCheck.asks
           denied == IF said = "deny" THEN resource ELSE prmCheck.denied
           done == said = "deny" \/ now = count
<1>5. /\ rules \in Seq(AnyRule) /\ prmCheck.call \in RuleCalls /\ now \in Nat /\ prmCheck.asks \in Seq(Targets)
      /\ prmCheck.denied \in Targets \cup {None} /\ prmCheck.done \in BOOLEAN
  BY <1>4
<1>8. /\ count \in Nat
      /\ \A i \in 1..count : resources[i] \in Targets \ {None} /\ resources[i] \in Seq(Chars)
  BY <1>5, TargetIs
<1>10. /\ now >= 1 /\ now <= count + 1 /\ prmCheck.denied = None
       /\ Answered(rules, action, resources, now - 1, prmCheck.asks) /\ now # count + 1
  BY <1>1, <1>3 DEF CheckIsRight
<1>6. now \in 1..count
  <2> HIDE DEF resources, count, now
  <2> QED
    BY <1>5, <1>8, <1>10
<1>7. Rules!Evaluate(action, resource, rules) = said
  <2>1. action \in Seq(Chars)
    BY <1>5, RuleAssumption DEF RuleAssumption, Chars
  <2>2. resource \in Seq(Chars)
    BY <1>6, <1>8
  <2> QED
    BY <1>5, <2>1, <2>2, Evaluates
<1>9. prmCheck' = [prmCheck EXCEPT !.next = now + 1, !.denied = denied, !.asks = asks, !.done = done]
  BY <1>7 DEF Rules!CheckResource
<1> HIDE DEF resources, count
<1>11. now \in 1..count
  BY <1>6
<1>12. resource \in Targets /\ resource # None
  BY <1>8, <1>11
<1> HIDE DEF said
<1>13. asks \in Seq(Targets) /\ denied \in Targets \cup {None} /\ done \in BOOLEAN /\ now + 1 \in Nat
  <2>1. Append(prmCheck.asks, resource) \in Seq(Targets)
    BY <1>5, <1>12, AppendProperties
  <2> QED
    BY <1>5, <1>12, <2>1
<1> HIDE DEF asks, denied, done
<1>14. /\ prmCheck'.rules = rules /\ prmCheck'.call = prmCheck.call /\ prmCheck'.next = now + 1
       /\ prmCheck'.asks = asks /\ prmCheck'.denied = denied /\ prmCheck'.done = done
  BY <1>4, <1>9
<1>15. CheckTyped'
  <2>1. prmCheck' \in [rules : Seq(AnyRule), call : RuleCalls, next : Nat, asks : Seq(Targets),
                      denied : Targets \cup {None}, done : BOOLEAN]
    <3> HIDE DEF now
    <3> QED
      BY <1>4, <1>9, <1>13
  <2> QED
    BY <2>1 DEF CheckTyped
<1>16. /\ now + 1 >= 1 /\ now + 1 <= count + 1
       /\ denied = None =>
            /\ Answered(rules, action, resources, (now + 1) - 1, asks)
            /\ done <=> now + 1 = count + 1
       /\ denied # None =>
            /\ done
            /\ \E i \in 1..count : Rules!Says(rules, action, resources[i]) = "deny"
  <2>1. now + 1 >= 1 /\ now + 1 <= count + 1 /\ (now + 1 = count + 1 <=> now = count)
    BY <1>8, <1>11
  <2>2. CASE said = "deny"
    <3>1. denied # None /\ done
      BY <1>12, <2>2 DEF denied, done
    <3>2. \E i \in 1..count : Rules!Says(rules, action, resources[i]) = "deny"
      BY <1>11, <2>2 DEF said
    <3> QED
      BY <2>1, <3>1, <3>2
  <2>3. CASE said # "deny"
    <3>1. denied = None /\ (done <=> now = count)
      BY <1>10, <2>3 DEF denied, done
    <3> DEFINE n == now - 1
    <3>2. n \in Nat /\ n + 1 = now /\ (now + 1) - 1 = now
      BY <1>5, <1>10
    <3>3. resources[n + 1] = resource /\ Answered(rules, action, resources, n, prmCheck.asks)
      BY <1>10, <3>2
    <3>4. Answered(rules, action, resources, n + 1,
                   IF Rules!Says(rules, action, resources[n + 1]) = "ask"
                   THEN Append(prmCheck.asks, resources[n + 1]) ELSE prmCheck.asks)
      <4>1. Rules!Says(rules, action, resources[n + 1]) # "deny" /\ resources[n + 1] \in Targets
        BY <1>12, <2>3, <3>3 DEF said
      <4> HIDE DEF n, resource
      <4> QED
        BY <1>5, <3>2, <3>3, <4>1, AnswerGrows
    <3>5. Answered(rules, action, resources, now, asks)
      BY <3>2, <3>3, <3>4 DEF asks, said
    <3> QED
      BY <2>1, <3>1, <3>2, <3>5
  <2> QED
    BY <2>2, <2>3
<1>17. Rules!permissionTarget(prmCheck'.call) = resources
  BY <1>14 DEF resources
<1>18. CheckIsRight'
  BY <1>14, <1>16, <1>17 DEF CheckIsRight, count
<1> QED
  BY <1>15, <1>18 DEF CheckIInv

(* A check that is over has the answer of its rules.                       *)
LEMMA CheckSafe ==
  ASSUME CheckIInv
  PROVE  Rules!AnswerIsRules
<1>1. CASE prmCheck = Rules!NoCheck
  BY <1>1 DEF Rules!AnswerIsRules, Rules!NoCheck
<1>2. CASE CheckTyped /\ CheckIsRight
  <2> DEFINE resources == Rules!permissionTarget(prmCheck.call)
             action == prmCheck.call.action
             count == Len(resources)
  <2>1. prmCheck.call \in RuleCalls /\ prmCheck.next \in Nat /\ prmCheck.asks \in Seq(Targets)
    BY <1>2 DEF CheckTyped
  <2>2. count \in Nat
    BY <2>1, TargetIs
  <2>3. /\ prmCheck.denied = None =>
             /\ Answered(prmCheck.rules, action, resources, prmCheck.next - 1, prmCheck.asks)
             /\ prmCheck.done <=> prmCheck.next = count + 1
        /\ prmCheck.denied # None =>
             \E i \in 1..count : Rules!Says(prmCheck.rules, action, resources[i]) = "deny"
    BY <1>2 DEF CheckIsRight
  <2> DEFINE Asking(n) == Rules!Asking(resources, n)
  <2>4. \A n : Asking(n) = Asked(prmCheck.rules, action, resources, n)
    BY DEF Rules!Asking, Asked
  <2>5. \A T : Rules!Cardinality(T) = Cardinality(T)
    BY DEF Rules!Cardinality, Cardinality
  <2> HIDE DEF resources, count
  <2>6. ASSUME prmCheck.denied = None, prmCheck.done
        PROVE  /\ \A i \in 1..count : Rules!Says(prmCheck.rules, action, resources[i]) # "deny"
               /\ Len(prmCheck.asks) = Rules!Cardinality(Asking(count))
               /\ \A i \in Asking(count) : prmCheck.asks[Rules!Cardinality(Asking(i))] = resources[i]
    <3>1. prmCheck.next - 1 = count
      BY <2>1, <2>2, <2>3, <2>6
    <3>2. Answered(prmCheck.rules, action, resources, count, prmCheck.asks)
      BY <2>3, <2>6, <3>1
    <3> HIDE DEF Asking
    <3> QED
      BY <2>4, <2>5, <3>2 DEF Answered
  <2> QED
    BY <2>3, <2>6 DEF Rules!AnswerIsRules, resources, count
<1> QED
  BY <1>1, <1>2 DEF CheckIInv

-----------------------------------------------------------------------------
(* Matches and checks.                                                     *)

RulesIInv == ScanIInv /\ CheckIInv

(* A match and a check leave each other alone.                             *)
LEMMA RulesStep ==
  ASSUME RulesIInv, Rules!Next
  PROVE  RulesIInv'
<1>1. CASE Rules!Scan
  <2>1. ScanIInv'
    BY <1>1, MatcherStep DEF RulesIInv
  <2>2. prmCheck' = prmCheck
    BY <1>1 DEF Rules!Scan
  <2>3. CheckIInv'
    BY <2>2 DEF RulesIInv, CheckIInv, CheckTyped, CheckIsRight, Rules!NoCheck
  <2> QED
    BY <2>1, <2>3 DEF RulesIInv
<1>2. CASE Rules!CheckResource
  <2>1. CheckIInv'
    BY <1>2, CheckStep DEF RulesIInv
  <2>2. prmScan' = prmScan
    BY <1>2 DEF Rules!CheckResource
  <2>3. ScanIInv'
    BY <2>2 DEF RulesIInv, ScanIInv, ScanKept, ScanTyped, ScanIsRight, ScanBounds
  <2> QED
    BY <2>1, <2>3 DEF RulesIInv
<1> QED
  BY <1>1, <1>2 DEF Rules!Next

(* Together they are what PermissionRules promises.                        *)
LEMMA RulesSafe ==
  ASSUME RulesIInv
  PROVE  Rules!RulesDecide
BY MatcherSafe, CheckSafe DEF RulesIInv, Rules!RulesDecide

(* Without a match there is nothing to show.                               *)
LEMMA NoScanIsRight ==
  ASSUME prmScan = Rules!NoScan
  PROVE  ScanIInv
<1>1. /\ prmScan.result = "none" /\ prmScan.pi = 0 /\ prmScan.vi = 0 /\ prmScan.star = -1 /\ prmScan.mark = 0
      /\ prmScan.pattern = <<>> /\ prmScan.value = <<>>
  BY DEF Rules!NoScan
<1>2. <<>> \in Seq(Characters)
  OBVIOUS
<1>3. ScanTyped(Characters, prmScan)
  BY <1>2 DEF Rules!NoScan, ScanTyped
<1> QED
  BY <1>1, <1>3 DEF ScanIInv, ScanKept, ScanIsRight

(* The bounded words are sequences.                                        *)
LEMMA WordIsSeq ==
  ASSUME NEW A, NEW B, A \subseteq B, NEW max \in Nat, NEW word \in Rules!Words(A, max)
  PROVE  word \in Seq(B) /\ Len(word) \in Nat
<1>1. PICK n \in 0..max : word \in [1..n -> A]
  BY DEF Rules!Words
<1>2. word = [i \in 1..n |-> word[i]] /\ \A i \in 1..n : word[i] \in B
  BY <1>1
<1>3. [i \in 1..n |-> word[i]] \in Seq(B)
  BY <1>2
<1>4. word \in Seq(B)
  BY <1>2, <1>3
<1> QED
  BY <1>4

(* The match of a run begins at both beginnings.                           *)
LEMMA MatchStarts ==
  ASSUME NEW pattern \in Rules!Words(RuleLetters \cup {"*", "?"}, RuleMaxPattern),
         NEW value \in Rules!Words(RuleLetters \cup {"*"}, RuleMaxValue),
         prmScan = Rules!Scanning(pattern, value)
  PROVE  ScanIInv
<1>1. RuleMaxPattern \in Nat /\ RuleMaxValue \in Nat
  BY RuleAssumption DEF RuleAssumption
<1>2. pattern \in Seq(Characters)
  BY <1>1, WordIsSeq DEF Characters
<1>3. value \in Seq(Characters)
  <2>1. RuleLetters \cup {"*"} \subseteq Characters
    BY DEF Characters
  <2> QED
    BY <1>1, <2>1, WordIsSeq
<1> QED
  BY <1>2, <1>3, ScanStarts DEF ScanIInv

(* The rules of the agent and of the server are one sequence.              *)
LEMMA MergedIsSeq ==
  ASSUME NEW agent \in RuleForms, Rules!UnmarshalJSON(agent) # None,
         NEW server \in RuleForms, Rules!UnmarshalJSON(server) # None
  PROVE  Rules!effectivePermissions(agent, server) \in Seq(AnyRule)
<1> DEFINE a == Rules!UnmarshalJSON(agent)
           b == Rules!UnmarshalJSON(server)
<1>1. a \in Seq(AnyRule) /\ b \in Seq(AnyRule)
  BY RulesetIsSeq
<1>2. Rules!effectivePermissions(agent, server) = a \o b
  BY DEF Rules!effectivePermissions
<1> HIDE DEF a, b
<1>3. a \o b \in Seq(AnyRule)
  BY <1>1, ConcatProperties
<1> QED
  BY <1>2, <1>3

(* A check that has looked at nothing.                                     *)
CheckStart(rules, call) ==
  [rules |-> rules, call |-> call, next |-> 1, asks |-> <<>>, denied |-> None, done |-> FALSE]

(* ... keeps what it has to.                                               *)
LEMMA CheckStarts ==
  ASSUME NEW rules \in Seq(AnyRule), NEW call \in RuleCalls, prmCheck = CheckStart(rules, call)
  PROVE  CheckIInv
<1>4. <<>> \in Seq(Targets)
  OBVIOUS
<1>5. CheckTyped
  BY <1>4 DEF CheckStart, CheckTyped
<1>6. /\ prmCheck.rules = rules /\ prmCheck.call = call /\ prmCheck.next = 1 /\ prmCheck.asks = <<>>
      /\ prmCheck.denied = None /\ prmCheck.done = FALSE
  BY DEF CheckStart
<1> DEFINE resources == Rules!permissionTarget(call)
           count == Len(resources)
<1>7. count \in Nat /\ count >= 1
  BY TargetIs
<1> HIDE DEF resources, count
<1>8. Answered(rules, call.action, resources, 0, <<>>)
  <2>1. Asked(rules, call.action, resources, 0) = {}
    BY DEF Asked
  <2>2. Cardinality({}) = 0 /\ Len(<<>>) = 0 /\ 1..0 = {}
    BY FS_EmptySet
  <2>3. Cardinality(Asked(rules, call.action, resources, 0)) = 0
    BY <2>1, <2>2
  <2>4. Answered(rules, call.action, resources, 0, <<>>)
          <=> /\ \A i \in 1..0 : Rules!Says(rules, call.action, resources[i]) # "deny"
              /\ Len(<<>>) = Cardinality(Asked(rules, call.action, resources, 0))
              /\ \A i \in Asked(rules, call.action, resources, 0) :
                   <<>>[Cardinality(Asked(rules, call.action, resources, i))] = resources[i]
    BY DEF Answered
  <2> QED
    BY <2>1, <2>2, <2>3, <2>4
<1>9. prmCheck.next >= 1 /\ prmCheck.next <= count + 1 /\ prmCheck.next # count + 1 /\ prmCheck.next - 1 = 0
  BY <1>6, <1>7
<1>10. CheckIsRight
  BY <1>6, <1>8, <1>9 DEF CheckIsRight, resources, count
<1> QED
  BY <1>5, <1>10 DEF CheckIInv

(* Every match and every check begins so.                                  *)
LEMMA RulesInit ==
  ASSUME Rules!Init
  PROVE  RulesIInv
<1> DEFINE Patterns == Rules!Words(RuleLetters \cup {"*", "?"}, RuleMaxPattern)
           Values == Rules!Words(RuleLetters \cup {"*"}, RuleMaxValue)
           Readable == {form \in RuleForms : Rules!UnmarshalJSON(form) # None}
<1>0. \/ (\E pattern \in Patterns, value \in Values : prmScan = Rules!Scanning(pattern, value))
           /\ prmCheck = Rules!NoCheck
      \/ (\E agent, server \in Readable, call \in RuleCalls : prmCheck = Rules!Checking(agent, server, call))
           /\ prmScan = Rules!NoScan
  BY DEF Rules!Init
<1>1. ASSUME NEW pattern \in Patterns, NEW value \in Values, prmScan = Rules!Scanning(pattern, value)
      PROVE  ScanIInv
  BY <1>1, MatchStarts
<1>2. ASSUME NEW agent \in Readable, NEW server \in Readable, NEW call \in RuleCalls,
             prmCheck = Rules!Checking(agent, server, call)
      PROVE  CheckIInv
  <2>2. Rules!effectivePermissions(agent, server) \in Seq(AnyRule)
    BY MergedIsSeq
  <2> DEFINE rules == Rules!effectivePermissions(agent, server)
  <2>3. rules \in Seq(AnyRule) /\ prmCheck = CheckStart(rules, call)
    BY <1>2, <2>2 DEF Rules!Checking, Rules!NoCheck, CheckStart
  <2> HIDE DEF rules
  <2> QED
    BY <2>3, CheckStarts
<1>3. prmCheck = Rules!NoCheck => CheckIInv
  BY DEF CheckIInv
<1> HIDE DEF Patterns, Values, Readable
<1> QED
  BY <1>0, <1>1, <1>2, <1>3, NoScanIsRight DEF RulesIInv

-----------------------------------------------------------------------------
(* PluginHooks.  A hook is given what the last one before it that returned *)
(* a value has returned, so what one has written is there at the end       *)
(* unless a later one has replaced it.                                     *)

(* What a hook can do, the values of a seam, and the calls of the log.     *)
Hows == {"nil", "longer", "same", "fail", "skip", "skip longer"}
HookValue == Seq(Nat) \cup {None}
HookEntry == [by : Nat, how : Hows, given : HookValue, returned : HookValue]

(* The values of the state.                                                *)
HookTyped ==
  /\ hksRegistry \in [hooks : Seq(Hows), types : Seq(HookTypes), built : BOOLEAN, refused : BOOLEAN,
                      user : Hows \cup {None}]
  /\ hksPass \in [seam : Hooked!Seams, value : HookValue, next : Nat, errors : SUBSET Nat,
                  outcome : {None, "used", "failed", "skipped", "declined"}]
  /\ hksLog \in Seq(HookEntry)

(* The hooks that the plugins have registered for the seam.                *)
HookCount == Len(hksRegistry.hooks)

(* Before the registry is built, or when it is refused, no hook is called. *)
NothingBeforeBuild ==
  ~hksRegistry.built \/ hksRegistry.refused =>
    /\ hksLog = <<>> /\ hksPass.outcome = None /\ hksPass.next = 1 /\ hksPass.errors = {}
    /\ hksPass.value = Hooked!Start(hksPass.seam)

(* Hooks do what the hooks of their seam can.                              *)
HooksOfSeam ==
  /\ \A i \in 1..HookCount : hksRegistry.hooks[i] \in Hooked!Returns(hksPass.seam)
  /\ hksRegistry.user # None =>
       hksRegistry.user \in Hooked!Returns(hksPass.seam) /\ hksPass.seam \in Hooked!UserSeams

(* The hooks of the plugins are called in order, then that of the user.    *)
CalledInOrder ==
  /\ Len(hksLog) <= HookCount + 1
  /\ Len(hksLog) = HookCount + 1 => hksRegistry.user # None
  /\ \A i \in 1..Len(hksLog) :
       /\ hksLog[i].how = (IF i <= HookCount THEN hksRegistry.hooks[i] ELSE hksRegistry.user)
       /\ hksLog[i].by = (IF i <= HookCount THEN i ELSE Hooked!User)

(* The hook to be called next is the one after the log, but when one of a  *)
(* tool call has failed and none of the plugins is.                        *)
NextIsCalled ==
  hksPass.outcome = None =>
    /\ hksPass.next = (IF hksPass.seam = "after_tool_call" /\ hksPass.errors # {}
                       THEN HookCount + 1 ELSE Len(hksLog) + 1)
    /\ hksPass.seam \notin {"after_run", "after_tool_call"} => hksPass.errors = {}

(* A hook that fails is the last that is called.                           *)
ErrorsAreLast ==
  hksPass.seam # "after_run" =>
    \A i \in 1..Len(hksLog) : Hooked!IsError(hksLog[i].how) =>
      /\ i = Len(hksLog)
      /\ \/ hksPass.outcome \in {"failed", "skipped", "declined"}
         \/ hksPass.seam = "after_tool_call" /\ hksPass.errors # {}

(* ... but after the run, when all of them are called and the errors are   *)
(* collected.                                                              *)
AllObserve ==
  hksPass.seam = "after_run" =>
    /\ hksPass.errors = {hksLog[i].by : i \in {j \in 1..Len(hksLog) : hksLog[j].how = "fail"}}
    /\ hksPass.outcome # None =>
         Len(hksLog) = HookCount + (IF hksRegistry.user = None THEN 0 ELSE 1)

(* What the i-th hook should be given: the last output before it.          *)
OutputsBefore(log, seam, i) ==
  IF seam = "after_run" THEN {}
  ELSE {j \in 1..(i - 1) : seam \in Hooked!KeepsOnNil => log[j].returned # None}

(* ... and what it has been given.                                         *)
SeenAt(log, seam, i) ==
  IF OutputsBefore(log, seam, i) = {} THEN Hooked!Start(seam)
  ELSE log[Hooked!Max(OutputsBefore(log, seam, i))].returned

(* The lone hook of the plugins returned nil.                              *)
LoneNil == HookCount = 1 /\ hksRegistry.hooks[1] = "nil"

(* Each hook was given the last output before it, but the one of the user  *)
(* after a lone nil.                                                       *)
AllSeeTheLast ==
  \A i \in 1..Len(hksLog) :
    \/ hksLog[i].given = SeenAt(hksLog, hksPass.seam, i)
    \/ i = HookCount + 1 /\ LoneNil /\ hksLog[i].given = None

(* The value of the pass is what the next hook will be given.              *)
ValueIsSeen ==
  hksPass.outcome = None /\ (hksPass.errors = {} \/ hksPass.seam = "after_run")
      /\ Len(hksLog) <= HookCount =>
    \/ hksPass.value = SeenAt(hksLog, hksPass.seam, Len(hksLog) + 1)
    \/ LoneNil /\ Len(hksLog) = 1 /\ hksPass.value = None

(* The plugins never lose the history between them.                        *)
HistoryIsThere ==
  hksPass.seam = "transform_history" /\ hksPass.outcome = None /\ Len(hksLog) < HookCount =>
    hksPass.value # None /\ Len(hksPass.value) >= 1

(* A call that keeps what was written before it.                           *)
Stays(entry, seam) ==
  \/ entry.how = "longer"
  \/ entry.how = "nil" /\ seam \in Hooked!KeepsOnNil /\ entry.by # Hooked!User

(* What the i-th call wrote has been kept by all that followed.            *)
Kept(log, seam, i) ==
  log[i].how = "longer" /\ \A j \in (i + 1)..Len(log) : Stays(log[j], seam)

(* What was written and kept is in the value.                              *)
ValueCarries ==
  hksPass.outcome = None /\ hksPass.errors = {} /\ hksPass.seam # "after_run" =>
    \A i \in 1..Len(hksLog) : Kept(hksLog, hksPass.seam, i) =>
      /\ hksPass.value # None /\ \E k \in 1..Len(hksPass.value) : hksPass.value[k] = hksLog[i].by
      /\ hksPass.seam = "transform_history" =>
           \/ Len(hksPass.value) >= 2
           \/ Len(hksLog) = HookCount + 1 /\ hksLog[HookCount + 1].returned = hksPass.value

(* What every step of a pass keeps.                                        *)
HooksIInv ==
  /\ HookTyped /\ NothingBeforeBuild /\ HooksOfSeam /\ CalledInOrder /\ NextIsCalled
  /\ ErrorsAreLast /\ AllObserve /\ AllSeeTheLast /\ ValueIsSeen /\ HistoryIsThere
  /\ ValueCarries /\ Hooked!NothingIsLost

-----------------------------------------------------------------------------
(* What a hook is given.                                                   *)

LEMMA LargestIs ==
  ASSUME NEW T, T \subseteq Int, NEW x \in T, \A y \in T : x >= y
  PROVE  Hooked!Max(T) = x
<1>1. Hooked!Max(T) \in T /\ \A y \in T : Hooked!Max(T) >= y
  BY DEF Hooked!Max
<1>2. Hooked!Max(T) >= x /\ x >= Hooked!Max(T)
  BY <1>1
<1>3. Hooked!Max(T) \in Int /\ x \in Int
  BY <1>1
<1> QED
  BY <1>2, <1>3

(* A call is appended to the log.                                          *)
LEMMA LogGrows ==
  ASSUME NEW log \in Seq(HookEntry), NEW e \in HookEntry
  PROVE  /\ Append(log, e) \in Seq(HookEntry) /\ Len(log) \in Nat /\ Len(Append(log, e)) = Len(log) + 1
         /\ \A i \in 1..Len(log) : Append(log, e)[i] = log[i]
         /\ Append(log, e)[Len(log) + 1] = e
OBVIOUS

(* If there was an output there was a last one.                            *)
LEMMA OutputsHaveLast ==
  ASSUME NEW log, NEW seam, NEW i \in Nat, OutputsBefore(log, seam, i) # {}
  PROVE  Hooked!Max(OutputsBefore(log, seam, i)) \in OutputsBefore(log, seam, i)
<1> DEFINE T == OutputsBefore(log, seam, i)
<1>1. T \subseteq 1..(i - 1)
  BY DEF OutputsBefore
<1>2. i - 1 \in Nat
  BY <1>1
<1>3. T \subseteq 0..(i - 1) /\ T \subseteq Int /\ T # {}
  BY <1>1
<1> HIDE DEF T
<1>4. PICK x \in T : \A y \in T : x >= y
  BY <1>2, <1>3, LargestNumber
<1> QED
  BY <1>3, <1>4, LargestIs DEF T

(* The outputs before the i-th call do not depend on the later calls.      *)
LEMMA SeenStays ==
  ASSUME NEW log \in Seq(HookEntry), NEW e \in HookEntry, NEW seam, NEW i \in 1..(Len(log) + 1)
  PROVE  SeenAt(Append(log, e), seam, i) = SeenAt(log, seam, i)
<1> DEFINE T == OutputsBefore(log, seam, i)
<1>1. \A j \in 1..(i - 1) : j \in 1..Len(log) /\ Append(log, e)[j] = log[j]
  OBVIOUS
<1>2. OutputsBefore(Append(log, e), seam, i) = T
  BY <1>1 DEF OutputsBefore
<1>3. CASE T = {}
  BY <1>2, <1>3 DEF SeenAt
<1>4. CASE T # {}
  <2>1. Hooked!Max(T) \in 1..(i - 1)
    <3>1. T \subseteq 1..(i - 1)
      BY DEF OutputsBefore
    <3>2. Hooked!Max(T) \in T
      BY <1>4, OutputsHaveLast
    <3> HIDE DEF T
    <3> QED
      BY <3>1, <3>2
  <2>2. Append(log, e)[Hooked!Max(T)] = log[Hooked!Max(T)]
    BY <1>1, <2>1
  <2> HIDE DEF T
  <2> QED
    BY <1>2, <1>4, <2>2 DEF SeenAt, T
<1> QED
  BY <1>3, <1>4

(* What the next hook is given is what the last one returned, or what it   *)
(* was given.                                                              *)
LEMMA SeenNext ==
  ASSUME NEW log \in Seq(HookEntry), NEW e \in HookEntry, NEW seam
  PROVE  SeenAt(Append(log, e), seam, Len(log) + 2)
           = IF seam = "after_run" THEN Hooked!Start(seam)
             ELSE IF seam \in Hooked!KeepsOnNil /\ e.returned = None
                  THEN SeenAt(log, seam, Len(log) + 1) ELSE e.returned
<1> DEFINE n == Len(log) + 1
           more == Append(log, e)
           T == OutputsBefore(log, seam, n)
           U == OutputsBefore(more, seam, n + 1)
<1>1. n \in Nat /\ n >= 1 /\ n - 1 = Len(log) /\ Len(log) + 2 = n + 1 /\ (n + 1) - 1 = n /\ Len(log) \in Nat
  OBVIOUS
<1>2. more[n] = e /\ \A j \in 1..(n - 1) : more[j] = log[j]
  OBVIOUS
<1>3. CASE seam = "after_run"
  BY <1>3 DEF SeenAt, OutputsBefore
<1>4. CASE seam # "after_run" /\ seam \in Hooked!KeepsOnNil /\ e.returned = None
  <2>1. U = T
    <3> HIDE DEF n, more
    <3> QED
      BY <1>1, <1>2, <1>4 DEF OutputsBefore
  <2>2. SeenAt(more, seam, n) = SeenAt(log, seam, n)
    BY SeenStays
  <2>3. SeenAt(more, seam, n + 1) = SeenAt(more, seam, n)
    <3>1. OutputsBefore(more, seam, n) = U
      <4> HIDE DEF n, more
      <4> QED
        BY <1>1, <1>2, <1>4 DEF OutputsBefore
    <3> HIDE DEF n, more
    <3> QED
      BY <3>1 DEF SeenAt
  <2> HIDE DEF n, more
  <2> QED
    BY <1>1, <1>4, <2>2, <2>3 DEF n, more
<1>5. CASE seam # "after_run" /\ ~(seam \in Hooked!KeepsOnNil /\ e.returned = None)
  <2> HIDE DEF n, more
  <2>1. n \in U /\ U \subseteq 1..n
    BY <1>1, <1>2, <1>5 DEF OutputsBefore
  <2>2. \A y \in U : n >= y
    BY <1>1, <2>1
  <2>3. U \subseteq Int
    BY <2>1, <1>1
  <2>4. Hooked!Max(U) = n
    <3> HIDE DEF U
    <3> QED
      BY <2>1, <2>2, <2>3, LargestIs
  <2>5. SeenAt(more, seam, n + 1) = e.returned
    BY <1>2, <2>1, <2>4 DEF SeenAt
  <2> QED
    BY <1>1, <1>5, <2>5 DEF n, more
<1> QED
  BY <1>3, <1>4, <1>5

-----------------------------------------------------------------------------
(* What a hook returns.                                                    *)

LEMMA SameIsSeq ==
  ASSUME NEW n \in Nat, NEW by \in Nat
  PROVE  [i \in 1..n |-> by] \in Seq(Nat) /\ Len([i \in 1..n |-> by]) = n
OBVIOUS

(* A hook that appends keeps what it was given.                            *)
LEMMA LongerIsSeq ==
  ASSUME NEW value \in Seq(Nat), NEW by \in Nat
  PROVE  /\ Append(value, by) \in Seq(Nat) /\ Len(Append(value, by)) = Len(value) + 1
         /\ Append(value, by)[Len(value) + 1] = by
         /\ \A k \in 1..Len(value) : Append(value, by)[k] = value[k]
         /\ DOMAIN value = 1..Len(value) /\ Len(value) \in Nat
OBVIOUS

(* A value that one hook has written.                                      *)
LEMMA OneIsSeq ==
  ASSUME NEW by \in Nat
  PROVE  <<by>> \in Seq(Nat) /\ Len(<<by>>) = 1 /\ <<by>>[1] = by
OBVIOUS

(* What a hook returns for what it was given.                              *)
OutputIs(how, by, value, out) ==
  /\ out \in HookValue
  /\ how \in {"nil", "fail", "skip"} => out = None
  /\ how \in {"longer", "skip longer"} =>
       /\ out \in Seq(Nat) /\ out # None
       /\ Len(out) = (IF value = None THEN 1 ELSE Len(value) + 1)
       /\ out[Len(out)] = by
       /\ value # None => \A k \in 1..Len(value) : out[k] = value[k]
  /\ how = "same" => IF value = None THEN out = None
                     ELSE out \in Seq(Nat) /\ out # None /\ Len(out) = Len(value)

(* What a hook returns is a value of the seam.                             *)
LEMMA OutputIsValue ==
  ASSUME NEW how \in Hows, NEW by \in Nat, NEW value \in HookValue
  PROVE  OutputIs(how, by, value, Hooked!Output(how, by, value))
<1> DEFINE out == Hooked!Output(how, by, value)
<1> SUFFICES /\ out \in HookValue
             /\ how \in {"nil", "fail", "skip"} => out = None
             /\ how \in {"longer", "skip longer"} =>
                  /\ out \in Seq(Nat) /\ out # None
                  /\ Len(out) = (IF value = None THEN 1 ELSE Len(value) + 1)
                  /\ out[Len(out)] = by
                  /\ value # None => \A k \in 1..Len(value) : out[k] = value[k]
             /\ how = "same" => IF value = None THEN out = None
                                ELSE out \in Seq(Nat) /\ out # None /\ Len(out) = Len(value)
  BY DEF OutputIs
<1>0. None \notin Seq(Nat)
  BY HookAssumption DEF HookAssumption
<1>1. CASE how \in {"nil", "fail", "skip"}
  BY <1>1 DEF Hooked!Output, HookValue
<1>2. CASE how \in {"longer", "skip longer"}
  <2>1. Hooked!Output(how, by, value) = IF value = None THEN <<by>> ELSE Append(value, by)
    BY <1>2 DEF Hooked!Output, Hooked!Longer
  <2> HIDE DEF HookValue
  <2>2. CASE value = None
    <3> DEFINE one == <<by>>
    <3>1. one \in Seq(Nat) /\ Len(one) = 1 /\ one[1] = by
      BY OneIsSeq
    <3>2. Hooked!Output(how, by, value) = one
      BY <2>1, <2>2
    <3> HIDE DEF one
    <3>3. one \in HookValue /\ one # None
      BY <1>0, <3>1 DEF HookValue
    <3>4. how \notin {"nil", "fail", "skip"} /\ how # "same"
      BY <1>2
    <3> QED
      BY <2>2, <3>1, <3>2, <3>3, <3>4
  <2>3. CASE value # None
    <3>1. value \in Seq(Nat)
      BY <2>3 DEF HookValue
    <3>2. /\ Append(value, by) \in Seq(Nat) /\ Len(Append(value, by)) = Len(value) + 1
          /\ Append(value, by)[Len(value) + 1] = by
          /\ \A k \in 1..Len(value) : Append(value, by)[k] = value[k]
      BY <3>1, LongerIsSeq
    <3>3. Hooked!Output(how, by, value) = Append(value, by)
      BY <2>1, <2>3
    <3> QED
      BY <1>0, <1>2, <2>3, <3>2, <3>3 DEF HookValue
  <2> QED
    BY <2>2, <2>3
<1>3. CASE how = "same"
  <2>1. CASE value = None
    BY <1>3, <2>1 DEF Hooked!Output, HookValue
  <2>2. CASE value # None
    <3>0. value \in Seq(Nat)
      BY <2>2 DEF HookValue
    <3>1. DOMAIN value = 1..Len(value) /\ Len(value) \in Nat
      BY <3>0, LongerIsSeq
    <3>2. Hooked!Output(how, by, value) = [i \in 1..Len(value) |-> by]
      BY <1>3, <2>2, <3>1 DEF Hooked!Output
    <3>3. [i \in 1..Len(value) |-> by] \in Seq(Nat) /\ Len([i \in 1..Len(value) |-> by]) = Len(value)
      BY <3>1, SameIsSeq
    <3> QED
      BY <1>0, <1>3, <2>2, <3>2, <3>3 DEF HookValue
  <2> QED
    BY <2>1, <2>2
<1> QED
  BY <1>1, <1>2, <1>3 DEF Hows

-----------------------------------------------------------------------------
(* The call of a hook.                                                     *)

EntryOf(how, by) ==
  [by |-> by, how |-> how, given |-> hksPass.value,
   returned |-> Hooked!Output(how, by, hksPass.value)]

(* The call of a hook is the next of the log.                              *)
LEMMA CallGrowsLog ==
  ASSUME HookTyped, NEW how \in Hows, NEW by \in Nat, Hooked!Called(how, by)
  PROVE  /\ EntryOf(how, by) \in HookEntry /\ hksLog' = Append(hksLog, EntryOf(how, by))
         /\ hksLog' \in Seq(HookEntry) /\ hksLog \in Seq(HookEntry) /\ Len(hksLog) \in Nat
         /\ Len(hksLog') = Len(hksLog) + 1
         /\ \A i \in 1..Len(hksLog) : hksLog'[i] = hksLog[i]
         /\ hksLog'[Len(hksLog) + 1] = EntryOf(how, by)
<1>1. hksPass.value \in HookValue /\ hksLog \in Seq(HookEntry)
  BY DEF HookTyped
<1>2. EntryOf(how, by) \in HookEntry
  BY <1>1, OutputIsValue DEF EntryOf, HookEntry, OutputIs
<1>3. hksLog' = Append(hksLog, EntryOf(how, by))
  BY DEF Hooked!Called, EntryOf
<1> QED
  BY <1>1, <1>2, <1>3, LogGrows

(* The next hook is called, and what it does is that of the registry.      *)
NextCall(how, by) ==
  /\ Hooked!Called(how, by) /\ Hooked!Running
  /\ UNCHANGED hksRegistry /\ hksPass'.seam = hksPass.seam
  /\ hksPass.errors = {} \/ hksPass.seam = "after_run"
  /\ \/ Len(hksLog) < HookCount /\ how = hksRegistry.hooks[Len(hksLog) + 1] /\ by = Len(hksLog) + 1
     \/ Len(hksLog) = HookCount /\ hksRegistry.user # None /\ how = hksRegistry.user
          /\ by = Hooked!User

(* A call in its turn keeps what is said of the log.                       *)
LEMMA CallIsRight ==
  ASSUME HooksIInv, NEW how \in Hows, NEW by \in Nat, NextCall(how, by)
  PROVE  /\ NothingBeforeBuild' /\ HooksOfSeam' /\ CalledInOrder' /\ AllSeeTheLast'
         /\ SeenAt(hksLog', hksPass.seam, Len(hksLog) + 2)
              = IF hksPass.seam = "after_run" THEN Hooked!Start(hksPass.seam)
                ELSE IF hksPass.seam \in Hooked!KeepsOnNil /\ EntryOf(how, by).returned = None
                     THEN SeenAt(hksLog, hksPass.seam, Len(hksLog) + 1)
                     ELSE EntryOf(how, by).returned
<1> DEFINE e == EntryOf(how, by)
<1>c. /\ Hooked!Called(how, by) /\ Hooked!Running
      /\ UNCHANGED hksRegistry /\ hksPass'.seam = hksPass.seam
      /\ hksPass.errors = {} \/ hksPass.seam = "after_run"
  BY DEF NextCall
<1>t. HookTyped /\ HookCount \in Nat /\ HookCount' = HookCount
  <2>1. HookTyped
    BY DEF HooksIInv
  <2>2. hksRegistry.hooks \in Seq(Hows)
    BY <2>1 DEF HookTyped
  <2>3. HookCount \in Nat
    BY <2>2, LenProperties DEF HookCount
  <2>4. HookCount' = HookCount
    BY <1>c DEF HookCount
  <2> QED
    BY <2>1, <2>3, <2>4
<1>u. Len(hksLog) \in Nat /\ Len(hksLog) <= HookCount
  <2>1. hksLog \in Seq(HookEntry)
    BY <1>t DEF HookTyped
  <2>2. Len(hksLog) \in Nat
    BY <2>1, LenProperties
  <2>3. Len(hksLog) < HookCount \/ Len(hksLog) = HookCount
    BY DEF NextCall
  <2>4. HookCount \in Nat
    BY <1>t
  <2> DEFINE n == Len(hksLog)
             m == HookCount
  <2> HIDE DEF n, m
  <2>5. n \in Nat /\ m \in Nat /\ (n < m \/ n = m)
    BY <2>2, <2>3, <2>4 DEF n, m
  <2>6. n <= m
    BY <2>5
  <2> QED
    BY <2>2, <2>6 DEF n, m
<1>v. /\ Len(hksLog) + 1 <= HookCount + 1 /\ (Len(hksLog) + 1 = HookCount + 1 => hksRegistry.user # None)
      /\ how = (IF Len(hksLog) + 1 <= HookCount THEN hksRegistry.hooks[Len(hksLog) + 1] ELSE hksRegistry.user)
      /\ by = (IF Len(hksLog) + 1 <= HookCount THEN Len(hksLog) + 1 ELSE Hooked!User)
  <2> DEFINE n == Len(hksLog)
             m == HookCount
             hooks == hksRegistry.hooks
  <2>1. n \in Nat /\ m \in Nat /\ n <= m
    BY <1>t, <1>u
  <2>2. \/ n < m /\ how = hooks[n + 1] /\ by = n + 1
        \/ n = m /\ hksRegistry.user # None /\ how = hksRegistry.user /\ by = Hooked!User
    BY DEF NextCall
  <2> HIDE DEF n, m, hooks
  <2>3. CASE n < m /\ how = hooks[n + 1] /\ by = n + 1
    <3>1. n + 1 <= m /\ n + 1 <= m + 1 /\ n + 1 # m + 1
      BY <2>1, <2>3
    <3> QED
      BY <2>3, <3>1 DEF n, m, hooks
  <2>4. CASE n = m /\ hksRegistry.user # None /\ how = hksRegistry.user /\ by = Hooked!User
    <3>1. n + 1 <= m + 1 /\ ~(n + 1 <= m)
      BY <2>1, <2>4
    <3> QED
      BY <2>4, <3>1 DEF n, m, hooks
  <2> QED
    BY <2>2, <2>3, <2>4
<1>1. /\ e \in HookEntry /\ hksLog' = Append(hksLog, e)
      /\ hksLog' \in Seq(HookEntry) /\ hksLog \in Seq(HookEntry) /\ Len(hksLog) \in Nat
      /\ Len(hksLog') = Len(hksLog) + 1
      /\ \A i \in 1..Len(hksLog) : hksLog'[i] = hksLog[i]
      /\ hksLog'[Len(hksLog) + 1] = e
  BY <1>c, <1>t, CallGrowsLog
<1>w. \A i \in 1..Len(hksLog') : i \in 1..Len(hksLog) \/ i = Len(hksLog) + 1
  <2> DEFINE n == Len(hksLog)
             m == Len(hksLog')
  <2>1. n \in Nat /\ m = n + 1
    BY <1>1
  <2> HIDE DEF n, m
  <2>2. \A i \in 1..m : i \in 1..n \/ i = n + 1
    BY <2>1
  <2> QED
    BY <2>2 DEF n, m
<1>2. e.how = how /\ e.by = by /\ e.given = hksPass.value
  BY DEF EntryOf
<1>3. NothingBeforeBuild'
  BY <1>c DEF NothingBeforeBuild, Hooked!Running
<1>4. HooksOfSeam'
  BY <1>c, <1>t DEF HooksOfSeam, HooksIInv
<1>5. CalledInOrder'
  <2> HIDE DEF e
  <2>1. CalledInOrder
    BY DEF HooksIInv
  <2>2. Len(hksLog') <= HookCount + 1 /\ (Len(hksLog') = HookCount + 1 => hksRegistry.user # None)
    BY <1>v, <1>1
  <2>3. ASSUME NEW i \in 1..Len(hksLog')
        PROVE  /\ hksLog'[i].how = (IF i <= HookCount THEN hksRegistry.hooks[i] ELSE hksRegistry.user)
               /\ hksLog'[i].by = (IF i <= HookCount THEN i ELSE Hooked!User)
    <3>1. CASE i \in 1..Len(hksLog)
      BY <1>1, <2>1, <3>1 DEF CalledInOrder
    <3>2. CASE i = Len(hksLog) + 1
      BY <1>v, <1>1, <1>2, <3>2
    <3>3. i \in 1..Len(hksLog) \/ i = Len(hksLog) + 1
      BY <1>w
    <3> QED
      BY <3>1, <3>2, <3>3
  <2> QED
    BY <1>c, <1>t, <2>2, <2>3 DEF CalledInOrder, Hooked!User
<1>6. AllSeeTheLast'
  <2> HIDE DEF e
  <2>1. AllSeeTheLast /\ ValueIsSeen
    BY DEF HooksIInv
  <2>2. LoneNil' = LoneNil
    BY <1>c, <1>t DEF LoneNil
  <2>3. ASSUME NEW i \in 1..Len(hksLog')
        PROVE  \/ hksLog'[i].given = SeenAt(hksLog', hksPass.seam, i)
               \/ i = HookCount + 1 /\ LoneNil /\ hksLog'[i].given = None
    <3>1. i \in 1..(Len(hksLog) + 1)
      BY <1>1
    <3>2. SeenAt(hksLog', hksPass.seam, i) = SeenAt(hksLog, hksPass.seam, i)
      BY <1>1, <3>1, SeenStays
    <3>3. CASE i \in 1..Len(hksLog)
      BY <1>1, <2>1, <3>2, <3>3 DEF AllSeeTheLast
    <3>4. CASE i = Len(hksLog) + 1
      <4>1. \/ hksPass.value = SeenAt(hksLog, hksPass.seam, i)
            \/ LoneNil /\ Len(hksLog) = 1 /\ hksPass.value = None
        <5>1. hksPass.outcome = None
          BY <1>c DEF Hooked!Running
        <5> QED
          BY <1>c, <1>u, <2>1, <3>4, <5>1 DEF ValueIsSeen
      <4>2. LoneNil => HookCount = 1
        BY DEF LoneNil
      <4>3. LoneNil /\ Len(hksLog) = 1 => i = HookCount + 1
        BY <3>4, <4>2
      <4> QED
        BY <1>1, <1>2, <3>2, <3>4, <4>1, <4>3
    <3>5. i \in 1..Len(hksLog) \/ i = Len(hksLog) + 1
      BY <1>w
    <3> QED
      BY <3>3, <3>4, <3>5
  <2> QED
    BY <1>c, <1>t, <2>2, <2>3 DEF AllSeeTheLast
<1>7. SeenAt(hksLog', hksPass.seam, Len(hksLog) + 2)
        = IF hksPass.seam = "after_run" THEN Hooked!Start(hksPass.seam)
          ELSE IF hksPass.seam \in Hooked!KeepsOnNil /\ e.returned = None
               THEN SeenAt(hksLog, hksPass.seam, Len(hksLog) + 1) ELSE e.returned
  <2> HIDE DEF e
  <2> QED
    BY <1>1, SeenNext
<1> QED
  BY <1>3, <1>4, <1>5, <1>6, <1>7

(* A pass that has no outcome is not over.                                 *)
LEMMA NotTheEnd ==
  ASSUME NEW outcome, outcome = None
  PROVE  outcome \notin {"used", "failed", "skipped", "declined"}
BY HookAssumption DEF HookAssumption

(* The ways to fail are the others.                                        *)
LEMMA HookIsKnown ==
  ASSUME NEW how \in Hows
  PROVE  Hooked!IsError(how) <=> how \notin {"nil", "longer", "same"}
BY DEF Hows, Hooked!IsError

(* The numbers of hooks and of calls, before a call and after it.          *)
LEMMA CallCounts ==
  ASSUME HooksIInv, NEW how \in Hows, NEW by \in Nat, NextCall(how, by)
  PROVE  /\ HookCount \in Nat /\ HookCount' = HookCount /\ LoneNil' = LoneNil
         /\ Len(hksLog) \in Nat /\ Len(hksLog) <= HookCount /\ Len(hksLog') = Len(hksLog) + 1
         /\ \A i \in 1..Len(hksLog') : i \in 1..Len(hksLog) \/ i = Len(hksLog) + 1
         /\ Len(hksLog') <= HookCount <=> Len(hksLog) < HookCount
<1>1. HookTyped
  BY DEF HooksIInv
<1>2. hksRegistry.hooks \in Seq(Hows) /\ hksLog \in Seq(HookEntry)
  BY <1>1 DEF HookTyped
<1>3. HookCount \in Nat /\ Len(hksLog) \in Nat
  BY <1>2, LenProperties DEF HookCount
<1>4. HookCount' = HookCount /\ LoneNil' = LoneNil
  BY DEF NextCall, HookCount, LoneNil
<1>5. Len(hksLog') = Len(hksLog) + 1
  BY <1>1, CallGrowsLog DEF NextCall
<1>6. Len(hksLog) < HookCount \/ Len(hksLog) = HookCount
  BY DEF NextCall
<1> DEFINE n == Len(hksLog)
           m == HookCount
           more == Len(hksLog')
<1>7. n \in Nat /\ m \in Nat /\ more = n + 1 /\ (n < m \/ n = m)
  BY <1>3, <1>5, <1>6
<1> HIDE DEF n, m, more
<1>8. n <= m /\ (\A i \in 1..more : i \in 1..n \/ i = n + 1) /\ (more <= m <=> n < m)
  BY <1>7
<1> QED
  BY <1>3, <1>4, <1>5, <1>8 DEF n, m, more

(* What the value of the pass becomes when a hook does not fail.           *)
NextValue(how, by) ==
  LET out == Hooked!Output(how, by, hksPass.value)
  IN IF out = None /\ hksPass.seam \in Hooked!KeepsOnNil /\ HookCount > 1 /\ Len(hksLog) < HookCount
     THEN hksPass.value ELSE out

(* A hook that does not fail: its output is the value of the pass.         *)
LEMMA HookSucceeds ==
  ASSUME HooksIInv, NEW how \in Hows, NEW by \in Nat, NextCall(how, by),
         ~Hooked!IsError(how), hksPass.seam # "after_run",
         hksPass' = [hksPass EXCEPT !.next = @ + 1, !.value = NextValue(how, by)]
  PROVE  HooksIInv'
<1> DEFINE e == EntryOf(how, by)
           out == Hooked!Output(how, by, hksPass.value)
           n == Len(hksLog)
           m == HookCount
<1>1. /\ HookTyped /\ HooksOfSeam /\ CalledInOrder /\ NextIsCalled /\ ErrorsAreLast
      /\ ValueIsSeen /\ HistoryIsThere /\ ValueCarries
  BY DEF HooksIInv
<1>2. /\ Hooked!Called(how, by) /\ Hooked!Running /\ hksPass.outcome = None
      /\ hksRegistry' = hksRegistry /\ hksPass.errors = {}
      /\ \/ n < m /\ how = hksRegistry.hooks[n + 1] /\ by = n + 1
         \/ n = m /\ hksRegistry.user # None /\ how = hksRegistry.user /\ by = Hooked!User
  BY DEF NextCall, Hooked!Running
<1>3. /\ m \in Nat /\ HookCount' = m /\ LoneNil' = LoneNil
      /\ n \in Nat /\ n <= m /\ Len(hksLog') = n + 1
      /\ \A i \in 1..Len(hksLog') : i \in 1..n \/ i = n + 1
      /\ Len(hksLog') <= m <=> n < m
  BY CallCounts
<1>4. /\ e \in HookEntry /\ hksLog' \in Seq(HookEntry)
      /\ \A i \in 1..n : hksLog'[i] = hksLog[i]
      /\ hksLog'[n + 1] = e
  BY <1>1, <1>2, CallGrowsLog
<1>5. /\ NothingBeforeBuild' /\ HooksOfSeam' /\ CalledInOrder' /\ AllSeeTheLast'
      /\ SeenAt(hksLog', hksPass.seam, n + 2)
           = IF hksPass.seam = "after_run" THEN Hooked!Start(hksPass.seam)
             ELSE IF hksPass.seam \in Hooked!KeepsOnNil /\ e.returned = None
                  THEN SeenAt(hksLog, hksPass.seam, n + 1) ELSE e.returned
  BY CallIsRight
<1>6. hksPass.value \in HookValue /\ hksPass.next \in Nat
  BY <1>1 DEF HookTyped
<1>7. how \in {"nil", "longer", "same"}
  BY HookIsKnown
<1>8. e.how = how /\ e.by = by /\ e.given = hksPass.value /\ e.returned = out
  BY DEF EntryOf
<1>9. out \in HookValue /\ NextValue(how, by) \in HookValue
  BY <1>6, OutputIsValue DEF NextValue, OutputIs
<1>r. /\ how = "nil" => out = None
      /\ how = "longer" =>
           /\ out \in Seq(Nat) /\ out # None
           /\ Len(out) = (IF hksPass.value = None THEN 1 ELSE Len(hksPass.value) + 1)
           /\ out[Len(out)] = by
           /\ hksPass.value # None => \A k \in 1..Len(hksPass.value) : out[k] = hksPass.value[k]
      /\ how = "same" =>
           IF hksPass.value = None THEN out = None
           ELSE out \in Seq(Nat) /\ out # None /\ Len(out) = Len(hksPass.value)
  <2>1. OutputIs(how, by, hksPass.value, out)
    BY <1>6, OutputIsValue
  <2> HIDE DEF out
  <2> QED
    BY <2>1 DEF OutputIs
<1>p. /\ hksPass'.seam = hksPass.seam /\ hksPass'.value = NextValue(how, by)
      /\ hksPass'.next = hksPass.next + 1 /\ hksPass'.errors = hksPass.errors
      /\ hksPass'.outcome = hksPass.outcome
  BY <1>1 DEF HookTyped
<1>t. HookTyped'
  <2>1. hksPass' \in [seam : Hooked!Seams, value : HookValue, next : Nat, errors : SUBSET Nat,
                      outcome : {None, "used", "failed", "skipped", "declined"}]
    <3>1. hksPass \in [seam : Hooked!Seams, value : HookValue, next : Nat, errors : SUBSET Nat,
                       outcome : {None, "used", "failed", "skipped", "declined"}]
      BY <1>1 DEF HookTyped
    <3>2. hksPass.next + 1 \in Nat
      BY <1>6
    <3>3. NextValue(how, by) \in HookValue
      BY <1>9
    <3> QED
      BY <3>1, <3>2, <3>3
  <2>2. hksRegistry' \in [hooks : Seq(Hows), types : Seq(HookTypes), built : BOOLEAN, refused : BOOLEAN,
                          user : Hows \cup {None}]
    BY <1>1, <1>2 DEF HookTyped
  <2> QED
    BY <1>4, <2>1, <2>2 DEF HookTyped
<1> HIDE DEF e, n, m, out
<1>n. NextIsCalled'
  <2>1. hksPass.next = n + 1
    BY <1>1, <1>2 DEF NextIsCalled, n
  <2>2. hksPass'.next = Len(hksLog') + 1
    BY <1>3, <1>p, <2>1
  <2> QED
    BY <1>2, <1>p, <2>2 DEF NextIsCalled
<1>e. ErrorsAreLast'
  <2>1. ASSUME NEW i \in 1..n PROVE ~Hooked!IsError(hksLog[i].how)
    <3>1. hksPass.outcome \notin {"used", "failed", "skipped", "declined"}
      BY <1>2, NotTheEnd
    <3> QED
      BY <1>1, <1>2, <3>1 DEF ErrorsAreLast, n
  <2>2. \A i \in 1..Len(hksLog') : ~Hooked!IsError(hksLog'[i].how)
    BY <1>3, <1>4, <1>8, <2>1
  <2> QED
    BY <2>2 DEF ErrorsAreLast
<1>o. AllObserve'
  BY <1>p DEF AllObserve
<1>l. Hooked!NothingIsLost'
  <2>1. hksPass'.outcome # "used"
    BY <1>2, <1>p, NotTheEnd
  <2> QED
    BY <2>1 DEF Hooked!NothingIsLost
<1>s. ValueIsSeen'
  <2>1. SUFFICES ASSUME n < m
        PROVE  \/ hksPass'.value = SeenAt(hksLog', hksPass.seam, n + 2)
               \/ LoneNil /\ n + 1 = 1 /\ hksPass'.value = None
    <3>1. Len(hksLog') + 1 = n + 2
      BY <1>3
    <3> QED
      BY <1>3, <1>p, <3>1 DEF ValueIsSeen
  <2>2. SeenAt(hksLog', hksPass.seam, n + 2)
          = IF hksPass.seam \in Hooked!KeepsOnNil /\ out = None
            THEN SeenAt(hksLog, hksPass.seam, n + 1) ELSE out
    BY <1>5, <1>8
  <2>3. \/ hksPass.value = SeenAt(hksLog, hksPass.seam, n + 1)
        \/ LoneNil /\ n = 1 /\ hksPass.value = None
    BY <1>1, <1>2, <1>3 DEF ValueIsSeen, n, m
  <2>4. LoneNil => m = 1
    BY DEF LoneNil, m
  <2>5. hksPass.value = SeenAt(hksLog, hksPass.seam, n + 1)
    BY <1>3, <2>1, <2>3, <2>4
  <2>6. CASE ~(hksPass.seam \in Hooked!KeepsOnNil /\ out = None)
    BY <1>p, <2>2, <2>6 DEF NextValue, out
  <2>7. CASE hksPass.seam \in Hooked!KeepsOnNil /\ out = None /\ m > 1
    BY <1>p, <2>1, <2>2, <2>5, <2>7 DEF NextValue, out, n, m
  <2>8. CASE hksPass.seam \in Hooked!KeepsOnNil /\ out = None /\ ~(m > 1)
    <3>1. n = 0 /\ m = 1
      BY <1>3, <2>1, <2>8
    <3>2. hksPass'.value = None
      BY <1>p, <2>8 DEF NextValue, out, m
    <3>3. hksPass.value = Hooked!Start(hksPass.seam)
      <4>1. OutputsBefore(hksLog, hksPass.seam, n + 1) = {}
        BY <3>1 DEF OutputsBefore
      <4> QED
        BY <2>5, <4>1 DEF SeenAt
    <3>4. hksPass.value \in Seq(Nat) /\ hksPass.value # None
      <4>1. Hooked!Start(hksPass.seam) \in Seq(Nat)
        BY DEF Hooked!Start, Hooked!Original
      <4>2. None \notin Seq(Nat)
        BY HookAssumption DEF HookAssumption
      <4> QED
        BY <3>3, <4>1, <4>2
    <3>5. how = "nil"
      BY <1>7, <1>r, <2>8, <3>4
    <3>6. hksRegistry.hooks[1] = "nil"
      BY <1>2, <3>1, <3>5
    <3> QED
      BY <3>1, <3>2, <3>6 DEF LoneNil, m
  <2> QED
    BY <2>6, <2>7, <2>8
<1>h. HistoryIsThere'
  <2>1. SUFFICES ASSUME hksPass.seam = "transform_history", n + 1 < m
        PROVE  hksPass'.value # None /\ Len(hksPass'.value) >= 1
    BY <1>3, <1>p DEF HistoryIsThere
  <2>2. n < m /\ m > 1
    BY <1>3, <2>1
  <2>3. hksPass.value # None /\ Len(hksPass.value) >= 1
    BY <1>1, <1>2, <2>1, <2>2 DEF HistoryIsThere, n, m
  <2>4. hksPass.value \in Seq(Nat) /\ Len(hksPass.value) \in Nat
    BY <1>6, <2>3, LenProperties DEF HookValue
  <2>5. out = None => hksPass'.value = hksPass.value
    BY <1>p, <2>1, <2>2 DEF NextValue, out, n, m, Hooked!KeepsOnNil
  <2>6. out # None => hksPass'.value = out
    BY <1>p DEF NextValue, out
  <2>7. out # None => Len(out) >= 1
    <3>1. CASE how = "longer"
      <4>1. Len(out) = Len(hksPass.value) + 1
        BY <1>r, <2>3, <3>1
      <4> QED
        BY <2>4, <4>1
    <3>2. CASE how = "same"
      <4>1. Len(out) = Len(hksPass.value)
        BY <1>r, <2>3, <3>2
      <4> QED
        BY <2>3, <4>1
    <3>3. CASE how = "nil"
      BY <1>r, <3>3
    <3> QED
      BY <1>7, <3>1, <3>2, <3>3
  <2> QED
    BY <2>3, <2>5, <2>6, <2>7
<1>c. ValueCarries'
  <2>1. ASSUME NEW i \in 1..n, Kept(hksLog', hksPass.seam, i)
        PROVE  /\ hksPass.value # None
               /\ \E k \in 1..Len(hksPass.value) : hksPass.value[k] = hksLog[i].by
               /\ hksPass.seam = "transform_history" => Len(hksPass.value) >= 2
               /\ Stays(e, hksPass.seam)
    <3>1. Kept(hksLog, hksPass.seam, i)
      <4>1. \A j \in (i + 1)..n : j \in (i + 1)..Len(hksLog') /\ j \in 1..n
        BY <1>3
      <4> QED
        BY <1>4, <2>1, <4>1 DEF Kept, n
    <3>2. Stays(e, hksPass.seam)
      <4>1. n + 1 \in (i + 1)..Len(hksLog')
        BY <1>3
      <4> QED
        BY <1>4, <2>1, <4>1 DEF Kept
    <3>3. ~(n = m + 1)
      BY <1>3
    <3> QED
      BY <1>1, <1>2, <2>1, <3>1, <3>2, <3>3 DEF ValueCarries, n, m
  <2>2. hksPass.value # None => hksPass.value \in Seq(Nat) /\ Len(hksPass.value) \in Nat
    BY <1>6, LenProperties DEF HookValue
  <2>3. ASSUME NEW i \in 1..n, Kept(hksLog', hksPass.seam, i)
        PROVE  /\ hksPass'.value # None
               /\ \E k \in 1..Len(hksPass'.value) : hksPass'.value[k] = hksLog[i].by
               /\ hksPass.seam = "transform_history" => Len(hksPass'.value) >= 2
    <3>1. /\ hksPass.value # None
          /\ \E k \in 1..Len(hksPass.value) : hksPass.value[k] = hksLog[i].by
          /\ hksPass.seam = "transform_history" => Len(hksPass.value) >= 2
          /\ Stays(e, hksPass.seam)
      BY <2>1, <2>3
    <3>2. PICK k \in 1..Len(hksPass.value) : hksPass.value[k] = hksLog[i].by
      BY <3>1
    <3>3. CASE how = "longer"
      <4>1. out # None /\ Len(out) = Len(hksPass.value) + 1 /\ out[k] = hksPass.value[k]
        BY <1>r, <3>1, <3>3
      <4>2. hksPass'.value = out
        BY <1>p, <4>1 DEF NextValue, out
      <4>3. k \in 1..Len(out) /\ (Len(hksPass.value) >= 2 => Len(out) >= 2)
        BY <2>2, <3>1, <4>1
      <4> QED
        BY <3>1, <3>2, <4>1, <4>2, <4>3
    <3>4. CASE how = "nil"
      <4>1. hksPass.seam \in Hooked!KeepsOnNil /\ by # Hooked!User
        BY <1>8, <3>1, <3>4 DEF Stays
      <4>2. n < m
        BY <1>2, <4>1
      <4>3. m > 1
        BY <1>3, <4>2
      <4>4. hksPass'.value = hksPass.value
        BY <1>p, <1>r, <3>4, <4>1, <4>2, <4>3 DEF NextValue, out, n, m
      <4> QED
        BY <3>1, <4>4
    <3>5. how # "same"
      BY <1>8, <3>1 DEF Stays
    <3> QED
      BY <1>7, <3>3, <3>4, <3>5
  <2>4. ASSUME Kept(hksLog', hksPass.seam, n + 1)
        PROVE  /\ hksPass'.value # None
               /\ \E k \in 1..Len(hksPass'.value) : hksPass'.value[k] = by
               /\ hksPass.seam = "transform_history" =>
                    \/ Len(hksPass'.value) >= 2
                    \/ Len(hksLog') = m + 1 /\ hksLog'[m + 1].returned = hksPass'.value
    <3>1. how = "longer"
      BY <1>4, <1>8, <2>4 DEF Kept
    <3>2. hksPass'.value = out /\ out # None /\ out[Len(out)] = by
      BY <1>p, <1>r, <3>1 DEF NextValue, out
    <3>3. Len(out) \in 1..Len(out)
      <4>1. Len(out) = (IF hksPass.value = None THEN 1 ELSE Len(hksPass.value) + 1)
        BY <1>r, <3>1
      <4>2. Len(out) \in Nat /\ Len(out) >= 1
        BY <2>2, <4>1
      <4> QED
        BY <4>2
    <3>4. ASSUME hksPass.seam = "transform_history", n < m
          PROVE  Len(out) >= 2
      <4>1. hksPass.value # None /\ Len(hksPass.value) >= 1
        BY <1>1, <1>2, <3>4 DEF HistoryIsThere, n, m
      <4>2. Len(out) = Len(hksPass.value) + 1
        BY <1>r, <3>1, <4>1
      <4> QED
        BY <2>2, <4>1, <4>2
    <3>5. n = m => Len(hksLog') = m + 1 /\ hksLog'[m + 1].returned = out
      BY <1>3, <1>4, <1>8
    <3>6. n < m \/ n = m
      BY <1>2
    <3> QED
      BY <3>2, <3>3, <3>4, <3>5, <3>6
  <2>5. hksLog'[n + 1].by = by /\ \A i \in 1..n : hksLog'[i].by = hksLog[i].by
    BY <1>4, <1>8
  <2>6. ASSUME NEW i \in 1..Len(hksLog'), Kept(hksLog', hksPass.seam, i)
        PROVE  /\ hksPass'.value # None
               /\ \E k \in 1..Len(hksPass'.value) : hksPass'.value[k] = hksLog'[i].by
               /\ hksPass.seam = "transform_history" =>
                    \/ Len(hksPass'.value) >= 2
                    \/ Len(hksLog') = m + 1 /\ hksLog'[m + 1].returned = hksPass'.value
    <3>1. CASE i \in 1..n
      BY <2>3, <2>5, <2>6, <3>1
    <3>2. CASE i = n + 1
      BY <2>4, <2>5, <2>6, <3>2
    <3> QED
      BY <1>3, <3>1, <3>2
  <2> QED
    BY <1>3, <1>p, <2>6 DEF ValueCarries
<1> QED
  BY <1>5, <1>t, <1>n, <1>e, <1>o, <1>s, <1>h, <1>c, <1>l DEF HooksIInv

(* A hook that fails ends the pass.                                        *)
LEMMA HookFails ==
  ASSUME HooksIInv, NEW how \in Hows, NEW by \in Nat, NextCall(how, by),
         hksPass.seam \notin {"after_run", "after_tool_call"}, Hooked!Fails(how, by)
  PROVE  HooksIInv'
<1>1. HookTyped /\ HooksOfSeam /\ NextIsCalled /\ ErrorsAreLast /\ AllObserve /\ ValueIsSeen
  BY DEF HooksIInv
<1>2. /\ Hooked!Called(how, by) /\ Hooked!Running /\ hksPass.outcome = None
      /\ hksRegistry' = hksRegistry /\ (hksPass.errors = {} \/ hksPass.seam = "after_run")
  BY DEF NextCall, Hooked!Running
<1>3. /\ HookCount \in Nat /\ HookCount' = HookCount /\ LoneNil' = LoneNil
      /\ Len(hksLog) \in Nat /\ Len(hksLog) <= HookCount /\ Len(hksLog') = Len(hksLog) + 1
      /\ \A i \in 1..Len(hksLog') : i \in 1..Len(hksLog) \/ i = Len(hksLog) + 1
      /\ Len(hksLog') <= HookCount <=> Len(hksLog) < HookCount
  BY CallCounts
<1>4. /\ EntryOf(how, by) \in HookEntry /\ hksLog' \in Seq(HookEntry)
      /\ \A i \in 1..Len(hksLog) : hksLog'[i] = hksLog[i]
      /\ hksLog'[Len(hksLog) + 1] = EntryOf(how, by)
  BY <1>1, <1>2, CallGrowsLog
<1>5. NothingBeforeBuild' /\ HooksOfSeam' /\ CalledInOrder' /\ AllSeeTheLast'
  BY CallIsRight
<1>6. /\ hksPass.value \in HookValue /\ hksPass.next \in Nat /\ hksPass.errors \in SUBSET Nat
      /\ hksPass \in [seam : Hooked!Seams, value : HookValue, next : Nat, errors : SUBSET Nat,
                      outcome : {None, "used", "failed", "skipped", "declined"}]
  BY <1>1 DEF HookTyped
<1>7. EntryOf(how, by).how = how /\ EntryOf(how, by).by = by
  BY DEF EntryOf
<1>8. Hooked!Output(how, by, hksPass.value) \in HookValue
  BY <1>6, OutputIsValue DEF OutputIs
<1>9. hksRegistry' \in [hooks : Seq(Hows), types : Seq(HookTypes), built : BOOLEAN, refused : BOOLEAN,
                        user : Hows \cup {None}]
  BY <1>1, <1>2 DEF HookTyped
<1>p. /\ hksPass'.seam = hksPass.seam /\ hksPass'.outcome \in {"failed", "skipped"}
      /\ hksPass' \in [seam : Hooked!Seams, value : HookValue, next : Nat, errors : SUBSET Nat,
                       outcome : {None, "used", "failed", "skipped", "declined"}]
  <2>1. hksPass' = [hksPass EXCEPT !.outcome = IF how = "fail" THEN "failed" ELSE "skipped",
                                   !.errors = hksPass.errors \cup {by},
                                   !.value = Hooked!Output(how, by, hksPass.value)]
    BY <1>6 DEF Hooked!Fails
  <2>2. hksPass.errors \cup {by} \in SUBSET Nat
    BY <1>6
  <2> QED
    BY <1>6, <1>8, <2>1, <2>2
<1>u. hksPass'.outcome # None /\ hksPass'.outcome # "used"
  BY <1>p, HookAssumption DEF HookAssumption
<1>t. HookTyped'
  BY <1>4, <1>9, <1>p DEF HookTyped
<1>e. ErrorsAreLast'
  <2>1. ASSUME NEW i \in 1..Len(hksLog) PROVE ~Hooked!IsError(hksLog[i].how)
    <3>1. hksPass.outcome \notin {"used", "failed", "skipped", "declined"}
      BY <1>2, NotTheEnd
    <3> QED
      BY <1>1, <3>1 DEF ErrorsAreLast
  <2>2. \A i \in 1..Len(hksLog') : Hooked!IsError(hksLog'[i].how) => i = Len(hksLog')
    BY <1>3, <1>4, <2>1
  <2> QED
    BY <1>p, <2>2 DEF ErrorsAreLast
<1>v. NextIsCalled' /\ ValueIsSeen' /\ HistoryIsThere' /\ ValueCarries'
  BY <1>u DEF NextIsCalled, ValueIsSeen, HistoryIsThere, ValueCarries
<1>o. AllObserve'
  BY <1>p DEF AllObserve
<1>l. Hooked!NothingIsLost'
  BY <1>u DEF Hooked!NothingIsLost
<1> QED
  BY <1>5, <1>t, <1>e, <1>v, <1>o, <1>l DEF HooksIInv

(* A hook of a tool call that fails ends the calls of the plugins.         *)
LEMMA ToolHookFails ==
  ASSUME HooksIInv, NEW how \in Hows, NEW by \in Nat, NextCall(how, by),
         hksPass.seam = "after_tool_call",
         hksPass' = [hksPass EXCEPT !.next = HookCount + 1, !.errors = @ \cup {by}]
  PROVE  HooksIInv'
<1>1. HookTyped /\ HooksOfSeam /\ NextIsCalled /\ ErrorsAreLast /\ AllObserve /\ ValueIsSeen
  BY DEF HooksIInv
<1>2. /\ Hooked!Called(how, by) /\ Hooked!Running /\ hksPass.outcome = None
      /\ hksRegistry' = hksRegistry /\ (hksPass.errors = {} \/ hksPass.seam = "after_run")
  BY DEF NextCall, Hooked!Running
<1>3. /\ HookCount \in Nat /\ HookCount' = HookCount /\ LoneNil' = LoneNil
      /\ Len(hksLog) \in Nat /\ Len(hksLog) <= HookCount /\ Len(hksLog') = Len(hksLog) + 1
      /\ \A i \in 1..Len(hksLog') : i \in 1..Len(hksLog) \/ i = Len(hksLog) + 1
      /\ Len(hksLog') <= HookCount <=> Len(hksLog) < HookCount
  BY CallCounts
<1>4. /\ EntryOf(how, by) \in HookEntry /\ hksLog' \in Seq(HookEntry)
      /\ \A i \in 1..Len(hksLog) : hksLog'[i] = hksLog[i]
      /\ hksLog'[Len(hksLog) + 1] = EntryOf(how, by)
  BY <1>1, <1>2, CallGrowsLog
<1>5. NothingBeforeBuild' /\ HooksOfSeam' /\ CalledInOrder' /\ AllSeeTheLast'
  BY CallIsRight
<1>6. /\ hksPass.value \in HookValue /\ hksPass.next \in Nat /\ hksPass.errors \in SUBSET Nat
      /\ hksPass \in [seam : Hooked!Seams, value : HookValue, next : Nat, errors : SUBSET Nat,
                      outcome : {None, "used", "failed", "skipped", "declined"}]
  BY <1>1 DEF HookTyped
<1>7. EntryOf(how, by).how = how /\ EntryOf(how, by).by = by
  BY DEF EntryOf
<1>8. Hooked!Output(how, by, hksPass.value) \in HookValue
  BY <1>6, OutputIsValue DEF OutputIs
<1>9. hksRegistry' \in [hooks : Seq(Hows), types : Seq(HookTypes), built : BOOLEAN, refused : BOOLEAN,
                        user : Hows \cup {None}]
  BY <1>1, <1>2 DEF HookTyped
<1>p. /\ hksPass'.seam = hksPass.seam /\ hksPass'.outcome = hksPass.outcome
      /\ hksPass'.next = HookCount + 1 /\ hksPass'.errors # {}
      /\ hksPass' \in [seam : Hooked!Seams, value : HookValue, next : Nat, errors : SUBSET Nat,
                       outcome : {None, "used", "failed", "skipped", "declined"}]
  <2>1. hksPass.errors \cup {by} \in SUBSET Nat /\ HookCount + 1 \in Nat
    BY <1>3, <1>6
  <2> QED
    BY <1>6, <2>1
<1>u. hksPass'.outcome # "used"
  BY <1>2, <1>p, NotTheEnd
<1>t. HookTyped'
  BY <1>4, <1>9, <1>p DEF HookTyped
<1>e. ErrorsAreLast'
  <2>1. ASSUME NEW i \in 1..Len(hksLog) PROVE ~Hooked!IsError(hksLog[i].how)
    <3>1. hksPass.outcome \notin {"used", "failed", "skipped", "declined"}
      BY <1>2, NotTheEnd
    <3> QED
      BY <1>1, <1>2, <3>1 DEF ErrorsAreLast
  <2>2. \A i \in 1..Len(hksLog') : Hooked!IsError(hksLog'[i].how) => i = Len(hksLog')
    BY <1>3, <1>4, <2>1
  <2> QED
    BY <1>p, <2>2 DEF ErrorsAreLast
<1>v. NextIsCalled' /\ ValueIsSeen' /\ HistoryIsThere' /\ ValueCarries'
  BY <1>3, <1>p DEF NextIsCalled, ValueIsSeen, HistoryIsThere, ValueCarries
<1>o. AllObserve'
  BY <1>p DEF AllObserve
<1>l. Hooked!NothingIsLost'
  BY <1>u DEF Hooked!NothingIsLost
<1> QED
  BY <1>5, <1>t, <1>e, <1>v, <1>o, <1>l DEF HooksIInv

(* A hook after the run is called, whether those before it have failed or  *)
(* not.                                                                    *)
LEMMA HookObserves ==
  ASSUME HooksIInv, NEW how \in Hows, NEW by \in Nat, NextCall(how, by),
         hksPass.seam = "after_run", how \in {"nil", "fail"},
         hksPass' = [hksPass EXCEPT !.next = @ + 1,
                                    !.errors = IF Hooked!IsError(how) THEN @ \cup {by} ELSE @]
  PROVE  HooksIInv'
<1>1. HookTyped /\ HooksOfSeam /\ NextIsCalled /\ ErrorsAreLast /\ AllObserve /\ ValueIsSeen
  BY DEF HooksIInv
<1>2. /\ Hooked!Called(how, by) /\ Hooked!Running /\ hksPass.outcome = None
      /\ hksRegistry' = hksRegistry /\ (hksPass.errors = {} \/ hksPass.seam = "after_run")
  BY DEF NextCall, Hooked!Running
<1>3. /\ HookCount \in Nat /\ HookCount' = HookCount /\ LoneNil' = LoneNil
      /\ Len(hksLog) \in Nat /\ Len(hksLog) <= HookCount /\ Len(hksLog') = Len(hksLog) + 1
      /\ \A i \in 1..Len(hksLog') : i \in 1..Len(hksLog) \/ i = Len(hksLog) + 1
      /\ Len(hksLog') <= HookCount <=> Len(hksLog) < HookCount
  BY CallCounts
<1>4. /\ EntryOf(how, by) \in HookEntry /\ hksLog' \in Seq(HookEntry)
      /\ \A i \in 1..Len(hksLog) : hksLog'[i] = hksLog[i]
      /\ hksLog'[Len(hksLog) + 1] = EntryOf(how, by)
  BY <1>1, <1>2, CallGrowsLog
<1>5. NothingBeforeBuild' /\ HooksOfSeam' /\ CalledInOrder' /\ AllSeeTheLast'
  BY CallIsRight
<1>6. /\ hksPass.value \in HookValue /\ hksPass.next \in Nat /\ hksPass.errors \in SUBSET Nat
      /\ hksPass \in [seam : Hooked!Seams, value : HookValue, next : Nat, errors : SUBSET Nat,
                      outcome : {None, "used", "failed", "skipped", "declined"}]
  BY <1>1 DEF HookTyped
<1>7. EntryOf(how, by).how = how /\ EntryOf(how, by).by = by
  BY DEF EntryOf
<1>8. Hooked!Output(how, by, hksPass.value) \in HookValue
  BY <1>6, OutputIsValue DEF OutputIs
<1>9. hksRegistry' \in [hooks : Seq(Hows), types : Seq(HookTypes), built : BOOLEAN, refused : BOOLEAN,
                        user : Hows \cup {None}]
  BY <1>1, <1>2 DEF HookTyped
<1>p. /\ hksPass'.seam = hksPass.seam /\ hksPass'.outcome = hksPass.outcome
      /\ hksPass'.next = hksPass.next + 1 /\ hksPass'.value = hksPass.value
      /\ hksPass'.errors = (IF how = "fail" THEN hksPass.errors \cup {by} ELSE hksPass.errors)
      /\ hksPass' \in [seam : Hooked!Seams, value : HookValue, next : Nat, errors : SUBSET Nat,
                       outcome : {None, "used", "failed", "skipped", "declined"}]
  <2>1. hksPass.errors \cup {by} \in SUBSET Nat /\ hksPass.next + 1 \in Nat
    BY <1>6
  <2>2. Hooked!IsError(how) <=> how = "fail"
    BY HookIsKnown
  <2> QED
    BY <1>6, <2>1, <2>2
<1>t. HookTyped'
  BY <1>4, <1>9, <1>p DEF HookTyped
<1>n. NextIsCalled'
  <2>1. hksPass.next = Len(hksLog) + 1
    BY <1>1, <1>2 DEF NextIsCalled
  <2>2. hksPass'.next = Len(hksLog') + 1
    BY <1>3, <1>p, <2>1
  <2> QED
    BY <1>p, <2>2 DEF NextIsCalled
<1>o. AllObserve'
  <2> DEFINE Failed(log, n) == {j \in 1..n : log[j].how = "fail"}
  <2>1. hksPass.errors = {hksLog[i].by : i \in Failed(hksLog, Len(hksLog))}
    BY <1>1 DEF AllObserve
  <2>2. Failed(hksLog', Len(hksLog'))
          = Failed(hksLog, Len(hksLog)) \cup (IF how = "fail" THEN {Len(hksLog) + 1} ELSE {})
    BY <1>3, <1>4, <1>7
  <2>3. {hksLog'[i].by : i \in Failed(hksLog', Len(hksLog'))}
          = {hksLog[i].by : i \in Failed(hksLog, Len(hksLog))} \cup (IF how = "fail" THEN {by} ELSE {})
    <3>1. \A i \in Failed(hksLog, Len(hksLog)) : hksLog'[i].by = hksLog[i].by
      BY <1>4
    <3>2. hksLog'[Len(hksLog) + 1].by = by
      BY <1>4, <1>7
    <3> HIDE DEF Failed
    <3> QED
      BY <2>2, <3>1, <3>2
  <2>4. hksPass'.errors = {hksLog'[i].by : i \in Failed(hksLog', Len(hksLog'))}
    <3> HIDE DEF Failed
    <3> QED
      BY <1>p, <2>1, <2>3
  <2> QED
    BY <1>2, <1>p, <2>4 DEF AllObserve
<1>s. ValueIsSeen'
  <2>1. SUFFICES ASSUME Len(hksLog) < HookCount
        PROVE  hksPass.value = SeenAt(hksLog', "after_run", Len(hksLog') + 1)
    BY <1>3, <1>p DEF ValueIsSeen
  <2>2. LoneNil => HookCount = 1
    BY DEF LoneNil
  <2>3. hksPass.value = SeenAt(hksLog, "after_run", Len(hksLog) + 1)
    <3>1. ~(LoneNil /\ Len(hksLog) = 1)
      <4> DEFINE n == Len(hksLog)
                 m == HookCount
      <4>1. n < m /\ (LoneNil => m = 1)
        BY <2>1, <2>2
      <4> HIDE DEF n, m
      <4>2. ~(LoneNil /\ n = 1)
        BY <4>1
      <4> QED
        BY <4>2 DEF n
    <3> QED
      BY <1>1, <1>2, <1>3, <3>1 DEF ValueIsSeen
  <2> QED
    BY <2>3 DEF SeenAt, OutputsBefore
<1>v. ErrorsAreLast' /\ HistoryIsThere' /\ ValueCarries'
  BY <1>p DEF ErrorsAreLast, HistoryIsThere, ValueCarries
<1>l. Hooked!NothingIsLost'
  BY <1>p DEF Hooked!NothingIsLost
<1> QED
  BY <1>5, <1>t, <1>n, <1>o, <1>s, <1>v, <1>l DEF HooksIInv

-----------------------------------------------------------------------------
(* The steps of a pass.                                                    *)

(* The pass, field by field.                                               *)
LEMMA PassIs ==
  ASSUME HooksIInv
  PROVE  /\ hksPass \in [seam : Hooked!Seams, value : HookValue, next : Nat, errors : SUBSET Nat,
                         outcome : {None, "used", "failed", "skipped", "declined"}]
         /\ hksPass.value \in HookValue /\ hksPass.next \in Nat /\ hksPass.errors \in SUBSET Nat
         /\ HookCount \in Nat /\ Len(hksLog) \in Nat
         /\ hksRegistry.hooks \in Seq(Hows) /\ Hooked!Hooks = hksRegistry.hooks
         /\ hksLog \in Seq(HookEntry)
<1>1. HookTyped
  BY DEF HooksIInv
<1>2. hksRegistry.hooks \in Seq(Hows) /\ hksLog \in Seq(HookEntry)
  BY <1>1 DEF HookTyped
<1>3. HookCount \in Nat /\ Len(hksLog) \in Nat
  BY <1>2, LenProperties DEF HookCount
<1> QED
  BY <1>1, <1>2, <1>3 DEF HookTyped, Hooked!Hooks

(* The call of a hook of a plugin is the next call.                        *)
LEMMA PluginIsCalled ==
  ASSUME HooksIInv, Hooked!AtPlugins, Hooked!Called(Hooked!How, hksPass.next),
         UNCHANGED hksRegistry, hksPass'.seam = hksPass.seam
  PROVE  /\ NextCall(Hooked!How, hksPass.next) /\ Len(hksLog) < HookCount
         /\ Hooked!How \in Hows /\ hksPass.next \in Nat /\ Hooked!How \in Hooked!Returns(hksPass.seam)
<1>1. NextIsCalled /\ HooksOfSeam
  BY DEF HooksIInv
<1>2. Hooked!Running /\ hksPass.outcome = None /\ hksPass.next <= HookCount
      /\ Hooked!How = hksRegistry.hooks[hksPass.next]
  BY DEF Hooked!AtPlugins, Hooked!Running, Hooked!How, Hooked!Hooks, HookCount
<1> DEFINE n == Len(hksLog)
           m == HookCount
<1>3. n \in Nat /\ m \in Nat /\ hksPass.next \in Nat /\ hksRegistry.hooks \in Seq(Hows)
  BY PassIs
<1>4. hksPass.next = (IF hksPass.seam = "after_tool_call" /\ hksPass.errors # {} THEN m + 1 ELSE n + 1)
      /\ (hksPass.seam \notin {"after_run", "after_tool_call"} => hksPass.errors = {})
  BY <1>1, <1>2 DEF NextIsCalled
<1> HIDE DEF n, m
<1>5. ~(hksPass.seam = "after_tool_call" /\ hksPass.errors # {}) /\ hksPass.next = n + 1 /\ n < m
  BY <1>2, <1>3, <1>4 DEF m
<1>6. hksPass.errors = {} \/ hksPass.seam = "after_run"
  BY <1>4, <1>5
<1>7. n + 1 \in 1..m
  BY <1>3, <1>5
<1>8. Hooked!How \in Hows
  <2>1. m = Len(hksRegistry.hooks)
    BY DEF m, HookCount
  <2> QED
    BY <1>2, <1>3, <1>5, <1>7, <2>1, ElementOfSeq
<1>9. Hooked!How \in Hooked!Returns(hksPass.seam)
  BY <1>1, <1>2, <1>5, <1>7 DEF HooksOfSeam, m
<1> QED
  BY <1>2, <1>3, <1>5, <1>6, <1>8, <1>9 DEF NextCall, n, m

(* The call of the hook of the user is, too.                               *)
LEMMA UserIsCalled ==
  ASSUME HooksIInv, Hooked!AtUser, Hooked!Called(hksRegistry.user, Hooked!User),
         UNCHANGED hksRegistry, hksPass'.seam = hksPass.seam
  PROVE  /\ NextCall(hksRegistry.user, Hooked!User) /\ Len(hksLog) = HookCount
         /\ hksRegistry.user \in Hows /\ Hooked!User \in Nat
         /\ hksRegistry.user \in Hooked!Returns(hksPass.seam) /\ hksPass.seam \in Hooked!UserSeams
<1>1. NextIsCalled /\ HooksOfSeam /\ HookTyped
  BY DEF HooksIInv
<1>2. Hooked!Running /\ hksPass.outcome = None /\ hksPass.next = HookCount + 1
      /\ hksRegistry.user # None
  BY DEF Hooked!AtUser, Hooked!Running, Hooked!Hooks, HookCount
<1> DEFINE n == Len(hksLog)
           m == HookCount
<1>3. n \in Nat /\ m \in Nat
  BY PassIs
<1>4. hksRegistry.user \in Hooked!Returns(hksPass.seam) /\ hksPass.seam \in Hooked!UserSeams
      /\ hksPass.seam # "after_tool_call"
  BY <1>1, <1>2 DEF HooksOfSeam, Hooked!UserSeams, Hooked!Replaces
<1>5. hksPass.next = n + 1 /\ (hksPass.seam # "after_run" => hksPass.errors = {})
  BY <1>1, <1>2, <1>4 DEF NextIsCalled
<1>6. n = m
  <2> HIDE DEF n, m
  <2>1. n + 1 = m + 1
    BY <1>2, <1>5 DEF m
  <2> QED
    BY <1>3, <2>1
<1>7. hksRegistry.user \in Hows
  BY <1>1, <1>2 DEF HookTyped
<1>8. Hooked!User \in Nat
  <2>1. HookMaxHooks \in Nat
    BY HookAssumption, Zenon DEF HookAssumption
  <2> QED
    BY <2>1 DEF Hooked!User
<1> QED
  BY <1>2, <1>4, <1>5, <1>6, <1>7, <1>8 DEF NextCall

(* The seams that keep the value when a hook returns nil.                  *)
LEMMA ChainStep ==
  ASSUME HooksIInv, Hooked!Chain
  PROVE  HooksIInv'
<1> DEFINE how == Hooked!How
           by == hksPass.next
           out == Hooked!Output(how, by, hksPass.value)
<1>1. hksPass.seam \in Hooked!KeepsOnNil /\ hksPass.seam \notin {"after_run", "after_tool_call"}
  BY DEF Hooked!Chain, Hooked!KeepsOnNil
<1>2. CASE Hooked!Fails(how, by)
  <2>1. hksPass'.seam = hksPass.seam
    BY <1>2, PassIs DEF Hooked!Fails
  <2>2. NextCall(how, by) /\ how \in Hows /\ by \in Nat
    BY <2>1, PluginIsCalled DEF Hooked!Chain
  <2> QED
    BY <1>1, <1>2, <2>2, HookFails
<1>3. CASE ~Hooked!Fails(how, by)
  <2>1. /\ ~Hooked!IsError(how)
        /\ hksPass' = [hksPass EXCEPT !.next = @ + 1,
                        !.value = IF out = None /\ Hooked!Composed THEN hksPass.value ELSE out]
    BY <1>3 DEF Hooked!Chain
  <2>2. hksPass'.seam = hksPass.seam
    BY <2>1, PassIs
  <2>3. NextCall(how, by) /\ how \in Hows /\ by \in Nat /\ Len(hksLog) < HookCount
    BY <2>2, PluginIsCalled DEF Hooked!Chain
  <2>4. (IF out = None /\ Hooked!Composed THEN hksPass.value ELSE out) = NextValue(how, by)
    BY <1>1, <2>3 DEF NextValue, Hooked!Composed, Hooked!Hooks, HookCount
  <2> HIDE DEF how, by, out
  <2>5. hksPass' = [hksPass EXCEPT !.next = @ + 1, !.value = NextValue(how, by)]
    BY <2>1, <2>4
  <2> QED
    BY <1>1, <2>1, <2>3, <2>5, HookSucceeds
<1> QED
  BY <1>2, <1>3

(* The seam whose value is what the hook returned, nil included.           *)
LEMMA ChainReplacesStep ==
  ASSUME HooksIInv, Hooked!ChainReplaces
  PROVE  HooksIInv'
<1> DEFINE how == Hooked!How
           by == hksPass.next
           out == Hooked!Output(how, by, hksPass.value)
<1>1. hksPass.seam \notin Hooked!KeepsOnNil /\ hksPass.seam \notin {"after_run", "after_tool_call"}
  BY DEF Hooked!ChainReplaces, Hooked!KeepsOnNil, Hooked!Replaces
<1>2. CASE Hooked!Fails(how, by)
  <2>1. hksPass'.seam = hksPass.seam
    BY <1>2, PassIs DEF Hooked!Fails
  <2>2. NextCall(how, by) /\ how \in Hows /\ by \in Nat
    BY <2>1, PluginIsCalled DEF Hooked!ChainReplaces
  <2> QED
    BY <1>1, <1>2, <2>2, HookFails
<1>3. CASE ~Hooked!Fails(how, by)
  <2>1. ~Hooked!IsError(how) /\ hksPass' = [hksPass EXCEPT !.next = @ + 1, !.value = out]
    BY <1>3 DEF Hooked!ChainReplaces
  <2>2. hksPass'.seam = hksPass.seam
    BY <2>1, PassIs
  <2>3. NextCall(how, by) /\ how \in Hows /\ by \in Nat
    BY <2>2, PluginIsCalled DEF Hooked!ChainReplaces
  <2>4. out = NextValue(how, by)
    BY <1>1 DEF NextValue
  <2> HIDE DEF how, by, out
  <2>5. hksPass' = [hksPass EXCEPT !.next = @ + 1, !.value = NextValue(how, by)]
    BY <2>1, <2>4
  <2> QED
    BY <1>1, <2>1, <2>3, <2>5, HookSucceeds
<1> QED
  BY <1>2, <1>3

(* After a tool call the errors are joined.                                *)
LEMMA ChainAfterToolCallStep ==
  ASSUME HooksIInv, Hooked!ChainAfterToolCall
  PROVE  HooksIInv'
<1> DEFINE how == Hooked!How
           by == hksPass.next
           out == Hooked!Output(how, by, hksPass.value)
<1>1. hksPass.seam = "after_tool_call" /\ hksPass.seam \notin Hooked!KeepsOnNil
  BY DEF Hooked!ChainAfterToolCall, Hooked!KeepsOnNil
<1>2. CASE Hooked!IsError(how)
  <2>1. hksPass' = [hksPass EXCEPT !.next = HookCount + 1, !.errors = @ \cup {by}]
    BY <1>2 DEF Hooked!ChainAfterToolCall, Hooked!Hooks, HookCount
  <2>2. hksPass'.seam = hksPass.seam
    BY <2>1, PassIs
  <2>3. NextCall(how, by) /\ how \in Hows /\ by \in Nat
    BY <2>2, PluginIsCalled DEF Hooked!ChainAfterToolCall
  <2> QED
    BY <1>1, <2>1, <2>3, ToolHookFails
<1>3. CASE ~Hooked!IsError(how)
  <2>1. hksPass' = [hksPass EXCEPT !.next = @ + 1, !.value = out]
    BY <1>3 DEF Hooked!ChainAfterToolCall
  <2>2. hksPass'.seam = hksPass.seam
    BY <2>1, PassIs
  <2>3. NextCall(how, by) /\ how \in Hows /\ by \in Nat
    BY <2>2, PluginIsCalled DEF Hooked!ChainAfterToolCall
  <2>4. out = NextValue(how, by)
    BY <1>1 DEF NextValue
  <2> HIDE DEF how, by, out
  <2>5. hksPass' = [hksPass EXCEPT !.next = @ + 1, !.value = NextValue(how, by)]
    BY <2>1, <2>4
  <2> QED
    BY <1>1, <1>3, <2>3, <2>5, HookSucceeds
<1> QED
  BY <1>2, <1>3

(* After a run every hook is called.                                       *)
LEMMA ChainAfterRunStep ==
  ASSUME HooksIInv, Hooked!ChainAfterRun
  PROVE  HooksIInv'
<1> DEFINE how == Hooked!How
           by == hksPass.next
<1>1. /\ hksPass.seam = "after_run"
      /\ hksPass' = [hksPass EXCEPT !.next = @ + 1,
                                    !.errors = IF Hooked!IsError(how) THEN @ \cup {by} ELSE @]
  BY DEF Hooked!ChainAfterRun
<1>2. hksPass'.seam = hksPass.seam
  BY <1>1, PassIs
<1>3. NextCall(how, by) /\ how \in Hows /\ by \in Nat /\ how \in Hooked!Returns(hksPass.seam)
  BY <1>2, PluginIsCalled DEF Hooked!ChainAfterRun
<1>4. how \in {"nil", "fail"}
  BY <1>1, <1>3 DEF Hooked!Returns
<1> QED
  BY <1>1, <1>3, <1>4, HookObserves

(* The hook of the user comes after those of the plugins.                  *)
LEMMA UserTransformsStep ==
  ASSUME HooksIInv, Hooked!UserTransforms
  PROVE  HooksIInv'
<1> DEFINE how == hksRegistry.user
           by == Hooked!User
           out == Hooked!Output(how, by, hksPass.value)
<1>1. hksPass.seam # "after_run"
  BY DEF Hooked!UserTransforms
<1>2. CASE Hooked!Fails(how, by)
  <2>1. hksPass'.seam = hksPass.seam
    BY <1>2, PassIs DEF Hooked!Fails
  <2>2. NextCall(how, by) /\ how \in Hows /\ by \in Nat /\ hksPass.seam \in Hooked!UserSeams
    BY <2>1, UserIsCalled DEF Hooked!UserTransforms
  <2>3. hksPass.seam \notin {"after_run", "after_tool_call"}
    BY <1>1, <2>2 DEF Hooked!UserSeams, Hooked!Replaces
  <2> QED
    BY <1>2, <2>2, <2>3, HookFails
<1>3. CASE ~Hooked!Fails(how, by)
  <2>1. ~Hooked!IsError(how) /\ hksPass' = [hksPass EXCEPT !.next = @ + 1, !.value = out]
    BY <1>3 DEF Hooked!UserTransforms
  <2>2. hksPass'.seam = hksPass.seam
    BY <2>1, PassIs
  <2>3. NextCall(how, by) /\ how \in Hows /\ by \in Nat /\ Len(hksLog) = HookCount
    BY <2>2, UserIsCalled DEF Hooked!UserTransforms
  <2>4. out = NextValue(how, by)
    <3>1. ~(Len(hksLog) < HookCount)
      BY <2>3, PassIs
    <3> QED
      BY <3>1 DEF NextValue
  <2> HIDE DEF how, by, out
  <2>5. hksPass' = [hksPass EXCEPT !.next = @ + 1, !.value = NextValue(how, by)]
    BY <2>1, <2>4
  <2> QED
    BY <1>1, <2>1, <2>3, <2>5, HookSucceeds
<1> QED
  BY <1>2, <1>3

(* ... and after the run as well.                                          *)
LEMMA UserAfterRunStep ==
  ASSUME HooksIInv, Hooked!UserAfterRun
  PROVE  HooksIInv'
<1> DEFINE how == hksRegistry.user
           by == Hooked!User
<1>1. /\ hksPass.seam = "after_run"
      /\ hksPass' = [hksPass EXCEPT !.next = @ + 1,
                                    !.errors = IF Hooked!IsError(how) THEN @ \cup {by} ELSE @]
  BY DEF Hooked!UserAfterRun
<1>2. hksPass'.seam = hksPass.seam
  BY <1>1, PassIs
<1>3. NextCall(how, by) /\ how \in Hows /\ by \in Nat /\ how \in Hooked!Returns(hksPass.seam)
  BY <1>2, UserIsCalled DEF Hooked!UserAfterRun
<1>4. how \in {"nil", "fail"}
  BY <1>1, <1>3 DEF Hooked!Returns
<1> QED
  BY <1>1, <1>3, <1>4, HookObserves

(* A pass in which no hook has been called.                                *)
FreshPass ==
  /\ hksLog = <<>> /\ hksPass.outcome = None /\ hksPass.next = 1 /\ hksPass.errors = {}
  /\ hksPass.value = Hooked!Start(hksPass.seam)

(* Where no hook has been called there is nothing to show.                 *)
LEMMA FreshPassIsRight ==
  ASSUME HookTyped, HooksOfSeam, FreshPass
  PROVE  HooksIInv
<1>1. Len(hksLog) = 0 /\ HookCount \in Nat
  <2>1. hksRegistry.hooks \in Seq(Hows)
    BY DEF HookTyped
  <2>2. HookCount \in Nat
    BY <2>1, LenProperties DEF HookCount
  <2> QED
    BY <2>2 DEF FreshPass
<1>2. NothingBeforeBuild /\ CalledInOrder /\ NextIsCalled /\ ErrorsAreLast /\ AllSeeTheLast
  <2>1. Len(hksLog) <= HookCount + 1 /\ Len(hksLog) # HookCount + 1 /\ 1..Len(hksLog) = {}
    <3> DEFINE n == Len(hksLog)
               m == HookCount
    <3>1. n = 0 /\ m \in Nat
      BY <1>1
    <3> HIDE DEF n, m
    <3>2. n <= m + 1 /\ n # m + 1 /\ 1..n = {}
      BY <3>1
    <3> QED
      BY <3>2 DEF n, m
  <2>2. CalledInOrder /\ ErrorsAreLast /\ AllSeeTheLast
    BY <2>1 DEF CalledInOrder, ErrorsAreLast, AllSeeTheLast
  <2>3. NothingBeforeBuild
    BY DEF NothingBeforeBuild, FreshPass
  <2>4. NextIsCalled
    BY <1>1 DEF NextIsCalled, FreshPass
  <2> QED
    BY <2>2, <2>3, <2>4
<1>3. AllObserve /\ ValueCarries
  BY <1>1 DEF AllObserve, ValueCarries, FreshPass
<1>4. ValueIsSeen
  <2>1. OutputsBefore(hksLog, hksPass.seam, Len(hksLog) + 1) = {}
    BY <1>1 DEF OutputsBefore
  <2> QED
    BY <2>1 DEF ValueIsSeen, SeenAt, FreshPass
<1>5. HistoryIsThere
  <2>1. hksPass.seam = "transform_history" => hksPass.value = <<0>>
    BY DEF FreshPass, Hooked!Start, Hooked!Original
  <2>2. <<0>> # None
    <3>1. <<0>> \in Seq(Nat)
      BY OneIsSeq
    <3>2. None \notin Seq(Nat)
      BY HookAssumption, Zenon DEF HookAssumption
    <3> QED
      BY <3>1, <3>2
  <2>3. Len(<<0>>) >= 1
    OBVIOUS
  <2> QED
    BY <2>1, <2>2, <2>3 DEF HistoryIsThere
<1>6. Hooked!NothingIsLost
  <2>1. hksPass.outcome # "used"
    BY NotTheEnd DEF FreshPass
  <2> QED
    BY <2>1 DEF Hooked!NothingIsLost
<1> QED
  BY <1>2, <1>3, <1>4, <1>5, <1>6 DEF HooksIInv

(* ... and so it is after a step.                                          *)
LEMMA FreshPassStays ==
  ASSUME HookTyped', HooksOfSeam', FreshPass'
  PROVE  HooksIInv'
<1>1. Len(hksLog') = 0 /\ HookCount' \in Nat
  <2>1. hksRegistry'.hooks \in Seq(Hows)
    BY DEF HookTyped
  <2>2. HookCount' \in Nat
    BY <2>1, LenProperties DEF HookCount
  <2> QED
    BY <2>2 DEF FreshPass
<1>2. NothingBeforeBuild' /\ CalledInOrder' /\ NextIsCalled' /\ ErrorsAreLast' /\ AllSeeTheLast'
  <2>1. Len(hksLog') <= HookCount' + 1 /\ Len(hksLog') # HookCount' + 1 /\ 1..Len(hksLog') = {}
    <3> DEFINE n == Len(hksLog')
               m == HookCount'
    <3>1. n = 0 /\ m \in Nat
      BY <1>1
    <3> HIDE DEF n, m
    <3>2. n <= m + 1 /\ n # m + 1 /\ 1..n = {}
      BY <3>1
    <3> QED
      BY <3>2 DEF n, m
  <2>2. CalledInOrder' /\ ErrorsAreLast' /\ AllSeeTheLast'
    BY <2>1 DEF CalledInOrder, ErrorsAreLast, AllSeeTheLast
  <2>3. NothingBeforeBuild'
    BY DEF NothingBeforeBuild, FreshPass
  <2>4. NextIsCalled'
    BY <1>1 DEF NextIsCalled, FreshPass
  <2> QED
    BY <2>2, <2>3, <2>4
<1>3. AllObserve' /\ ValueCarries'
  BY <1>1 DEF AllObserve, ValueCarries, FreshPass
<1>4. ValueIsSeen'
  <2>1. OutputsBefore(hksLog', hksPass'.seam, Len(hksLog') + 1) = {}
    BY <1>1 DEF OutputsBefore
  <2> QED
    BY <2>1 DEF ValueIsSeen, SeenAt, FreshPass
<1>5. HistoryIsThere'
  <2>1. hksPass'.seam = "transform_history" => hksPass'.value = <<0>>
    BY DEF FreshPass, Hooked!Start, Hooked!Original
  <2>2. <<0>> # None
    <3>1. <<0>> \in Seq(Nat)
      BY OneIsSeq
    <3>2. None \notin Seq(Nat)
      BY HookAssumption, Zenon DEF HookAssumption
    <3> QED
      BY <3>1, <3>2
  <2>3. Len(<<0>>) >= 1
    OBVIOUS
  <2> QED
    BY <2>1, <2>2, <2>3 DEF HistoryIsThere
<1>6. Hooked!NothingIsLost'
  <2>1. hksPass'.outcome # "used"
    BY NotTheEnd DEF FreshPass
  <2> QED
    BY <2>1 DEF Hooked!NothingIsLost
<1> QED
  BY <1>2, <1>3, <1>4, <1>5, <1>6 DEF HooksIInv

(* What the hooks of a seam do is among what hooks do.                     *)
LEMMA ReturnsAreHows ==
  ASSUME NEW seam
  PROVE  Hooked!Returns(seam) \subseteq Hows
BY DEF Hooked!Returns, Hows

(* Before the registry is built nothing has been called.                   *)
LEMMA HooksInit ==
  ASSUME Hooked!Init
  PROVE  HooksIInv
<1>0. PICK seam \in Hooked!Seams :
        \E user \in (IF seam \in Hooked!UserSeams THEN Hooked!Returns(seam) \cup {None} ELSE {None}) :
          /\ hksPass = [seam |-> seam, value |-> Hooked!Start(seam), next |-> 1, errors |-> {}, outcome |-> None]
          /\ hksRegistry = [hooks |-> <<>>, types |-> <<>>, built |-> FALSE, refused |-> FALSE, user |-> user]
  BY DEF Hooked!Init
<1>1. PICK user \in (IF seam \in Hooked!UserSeams THEN Hooked!Returns(seam) \cup {None} ELSE {None}) :
        /\ hksPass = [seam |-> seam, value |-> Hooked!Start(seam), next |-> 1, errors |-> {}, outcome |-> None]
        /\ hksRegistry = [hooks |-> <<>>, types |-> <<>>, built |-> FALSE, refused |-> FALSE, user |-> user]
  BY <1>0
<1>2. hksLog = <<>>
  BY DEF Hooked!Init
<1>3. user \in Hows \cup {None} /\ (user # None => user \in Hooked!Returns(seam) /\ seam \in Hooked!UserSeams)
  BY ReturnsAreHows
<1>4. FreshPass
  BY <1>1, <1>2 DEF FreshPass
<1>5. HookTyped
  <2>1. hksLog \in Seq(HookEntry)
    BY <1>2
  <2>2. Hooked!Start(seam) \in HookValue
    BY DEF Hooked!Start, Hooked!Original, HookValue
  <2>3. hksPass \in [seam : Hooked!Seams, value : HookValue, next : Nat, errors : SUBSET Nat,
                     outcome : {None, "used", "failed", "skipped", "declined"}]
    BY <1>1, <2>2
  <2>4. hksRegistry \in [hooks : Seq(Hows), types : Seq(HookTypes), built : BOOLEAN, refused : BOOLEAN,
                         user : Hows \cup {None}]
    <3>1. <<>> \in Seq(Hows) /\ <<>> \in Seq(HookTypes)
      OBVIOUS
    <3> QED
      BY <1>1, <1>3, <3>1
  <2> QED
    BY <2>1, <2>3, <2>4 DEF HookTyped
<1>6. HooksOfSeam
  <2>1. HookCount = 0 /\ 1..HookCount = {}
    BY <1>1 DEF HookCount
  <2>2. hksRegistry.user = user /\ hksPass.seam = seam
    BY <1>1
  <2> QED
    BY <1>3, <2>1, <2>2 DEF HooksOfSeam
<1> QED
  BY <1>4, <1>5, <1>6, FreshPassIsRight

(* A hook is registered.                                                   *)
LEMMA RegistersHook ==
  ASSUME HooksIInv, NEW how \in Hooked!Returns(hksPass.seam), Hooked!RegisterHook(how)
  PROVE  HooksIInv'
<1>1. HookTyped /\ HooksOfSeam /\ NothingBeforeBuild
  BY DEF HooksIInv
<1>2. ~hksRegistry.built /\ hksRegistry' = [hksRegistry EXCEPT !.hooks = Append(@, how)]
      /\ hksPass' = hksPass /\ hksLog' = hksLog
  BY DEF Hooked!RegisterHook, Hooked!Mutable
<1>3. how \in Hows
  BY ReturnsAreHows
<1>4. hksRegistry \in [hooks : Seq(Hows), types : Seq(HookTypes), built : BOOLEAN, refused : BOOLEAN,
                       user : Hows \cup {None}]
  BY <1>1 DEF HookTyped
<1> DEFINE old == hksRegistry.hooks
           new == hksRegistry'.hooks
<1>5. old \in Seq(Hows) /\ new = Append(old, how) /\ hksRegistry'.user = hksRegistry.user
  BY <1>2, <1>4
<1>6. new \in Seq(Hows) /\ Len(new) = Len(old) + 1 /\ new[Len(old) + 1] = how
      /\ (\A i \in 1..Len(old) : new[i] = old[i]) /\ Len(old) \in Nat
  BY <1>3, <1>5
<1>7. HookTyped'
  <2>1. hksRegistry' \in [hooks : Seq(Hows), types : Seq(HookTypes), built : BOOLEAN, refused : BOOLEAN,
                          user : Hows \cup {None}]
    BY <1>2, <1>4, <1>5, <1>6
  <2> QED
    BY <1>1, <1>2, <2>1 DEF HookTyped
<1>8. HooksOfSeam'
  <2>1. \A i \in 1..Len(old) : old[i] \in Hooked!Returns(hksPass.seam)
    BY <1>1 DEF HooksOfSeam, HookCount
  <2> HIDE DEF old, new
  <2>2. \A i \in 1..Len(new) : i \in 1..Len(old) \/ i = Len(old) + 1
    BY <1>6
  <2>3. \A i \in 1..Len(new) : new[i] \in Hooked!Returns(hksPass.seam)
    BY <1>6, <2>1, <2>2
  <2> QED
    BY <1>1, <1>2, <1>5, <2>3 DEF HooksOfSeam, HookCount, new
<1>9. FreshPass'
  BY <1>1, <1>2 DEF NothingBeforeBuild, FreshPass
<1> QED
  BY <1>7, <1>8, <1>9, FreshPassStays

(* A type of parts is registered, or refused.                              *)
LEMMA RegistersPart ==
  ASSUME HooksIInv, NEW type \in HookTypes, Hooked!RegisterPart(type)
  PROVE  HooksIInv'
<1>1. HookTyped /\ HooksOfSeam /\ NothingBeforeBuild
  BY DEF HooksIInv
<1>2. ~hksRegistry.built /\ hksRegistry' = [hksRegistry EXCEPT !.types = Append(@, type)]
      /\ hksPass' = hksPass /\ hksLog' = hksLog
  BY DEF Hooked!RegisterPart, Hooked!Mutable
<1>3. hksRegistry \in [hooks : Seq(Hows), types : Seq(HookTypes), built : BOOLEAN, refused : BOOLEAN,
                       user : Hows \cup {None}]
  BY <1>1 DEF HookTyped
<1>4. Append(hksRegistry.types, type) \in Seq(HookTypes)
  BY <1>3
<1>5. hksRegistry' \in [hooks : Seq(Hows), types : Seq(HookTypes), built : BOOLEAN, refused : BOOLEAN,
                        user : Hows \cup {None}]
      /\ hksRegistry'.hooks = hksRegistry.hooks /\ hksRegistry'.user = hksRegistry.user
  BY <1>2, <1>3, <1>4
<1>6. HookTyped'
  BY <1>1, <1>2, <1>5 DEF HookTyped
<1>7. HooksOfSeam'
  BY <1>1, <1>2, <1>5 DEF HooksOfSeam, HookCount
<1>8. FreshPass'
  BY <1>1, <1>2 DEF NothingBeforeBuild, FreshPass
<1> QED
  BY <1>6, <1>7, <1>8, FreshPassStays

(* The registry is built, or refused.                                      *)
LEMMA Builds ==
  ASSUME HooksIInv, Hooked!build
  PROVE  HooksIInv'
<1>1. HookTyped /\ HooksOfSeam /\ NothingBeforeBuild
  BY DEF HooksIInv
<1>2. ~hksRegistry.built
      /\ hksRegistry' = [hksRegistry EXCEPT !.built = TRUE, !.refused = Hooked!PartsRefused]
      /\ hksPass' = hksPass /\ hksLog' = hksLog
  BY DEF Hooked!build, Hooked!Mutable
<1>3. hksRegistry \in [hooks : Seq(Hows), types : Seq(HookTypes), built : BOOLEAN, refused : BOOLEAN,
                       user : Hows \cup {None}]
  BY <1>1 DEF HookTyped
<1>4. Hooked!PartsRefused \in BOOLEAN
  BY DEF Hooked!PartsRefused
<1>5. hksRegistry' \in [hooks : Seq(Hows), types : Seq(HookTypes), built : BOOLEAN, refused : BOOLEAN,
                        user : Hows \cup {None}]
      /\ hksRegistry'.hooks = hksRegistry.hooks /\ hksRegistry'.user = hksRegistry.user
  BY <1>2, <1>3, <1>4
<1>6. HookTyped'
  BY <1>1, <1>2, <1>5 DEF HookTyped
<1>7. HooksOfSeam'
  BY <1>1, <1>2, <1>5 DEF HooksOfSeam, HookCount
<1>8. FreshPass'
  BY <1>1, <1>2 DEF NothingBeforeBuild, FreshPass
<1> QED
  BY <1>6, <1>7, <1>8, FreshPassStays

-----------------------------------------------------------------------------
(* What the loop adopts.                                                   *)

(* But for a seam that begins with nothing, a pass begins with a value.    *)
LEMMA StartIsThere ==
  ASSUME NEW seam
  PROVE  Hooked!Start(seam) \in Seq(Nat) /\ Hooked!Start(seam) \in HookValue
BY DEF Hooked!Start, Hooked!Original, HookValue

(* The loop takes the value of a pass that is over.                        *)
LEMMA Adopts ==
  ASSUME HooksIInv, Hooked!Running, hksPass.seam # "after_run", NEW v \in HookValue, Hooked!Adopt(v),
         hksPass.errors = {} /\ ~Hooked!TakenForUnchanged =>
           \A i \in 1..Len(hksLog) : Kept(hksLog, hksPass.seam, i) =>
             \E k \in 1..Len(v) : v # None /\ v[k] = hksLog[i].by
  PROVE  HooksIInv'
<1>1. /\ HookTyped /\ HooksOfSeam /\ NothingBeforeBuild /\ CalledInOrder /\ ErrorsAreLast /\ AllSeeTheLast
  BY DEF HooksIInv
<1>2. /\ hksPass' = [hksPass EXCEPT !.outcome = "used", !.value = v]
      /\ hksRegistry' = hksRegistry /\ hksLog' = hksLog
      /\ hksRegistry.built /\ ~hksRegistry.refused /\ hksPass.outcome = None
  BY DEF Hooked!Adopt, Hooked!Running
<1>3. /\ hksPass'.seam = hksPass.seam /\ hksPass'.outcome = "used" /\ hksPass'.value = v
      /\ hksPass'.errors = hksPass.errors
      /\ hksPass' \in [seam : Hooked!Seams, value : HookValue, next : Nat, errors : SUBSET Nat,
                       outcome : {None, "used", "failed", "skipped", "declined"}]
  BY <1>2, PassIs
<1>u. hksPass'.outcome # None
  BY <1>3, HookAssumption, Zenon DEF HookAssumption
<1>t. HookTyped'
  BY <1>1, <1>2, <1>3 DEF HookTyped
<1>4. HookCount' = HookCount
  BY <1>2 DEF HookCount
<1>5. NothingBeforeBuild'
  BY <1>2 DEF NothingBeforeBuild
<1>6. HooksOfSeam' /\ CalledInOrder' /\ AllSeeTheLast'
  BY <1>1, <1>2, <1>3, <1>4 DEF HooksOfSeam, CalledInOrder, AllSeeTheLast, LoneNil, Hooked!User
<1>7. ErrorsAreLast'
  <2>1. hksPass.outcome \notin {"used", "failed", "skipped", "declined"}
    BY <1>2, NotTheEnd
  <2> QED
    BY <1>1, <1>2, <1>3, <2>1 DEF ErrorsAreLast
<1>8. NextIsCalled' /\ ValueIsSeen' /\ HistoryIsThere' /\ ValueCarries'
  BY <1>u DEF NextIsCalled, ValueIsSeen, HistoryIsThere, ValueCarries
<1>9. AllObserve'
  BY <1>3 DEF AllObserve
<1>l. Hooked!NothingIsLost'
  <2>1. hksLog \in Seq(HookEntry) /\ DOMAIN hksLog = 1..Len(hksLog)
    BY PassIs
  <2>2. Hooked!TakenForUnchanged' = Hooked!TakenForUnchanged
    BY <1>2, <1>3 DEF Hooked!TakenForUnchanged
  <2>3. ASSUME hksPass.errors = {}, ~Hooked!TakenForUnchanged, NEW i \in 1..Len(hksLog),
               hksLog[i].how = "longer", \A j \in (i + 1)..Len(hksLog) : Hooked!Leaves(j)'
        PROVE  hksLog[i].by \in Hooked!ToSet(v)
    <3>1. Kept(hksLog, hksPass.seam, i)
      BY <1>2, <1>3, <2>3 DEF Kept, Stays, Hooked!Leaves
    <3>2. PICK k \in 1..Len(v) : v # None /\ v[k] = hksLog[i].by
      BY <2>3, <3>1
    <3>3. v \in Seq(Nat) /\ DOMAIN v = 1..Len(v)
      BY <3>2 DEF HookValue
    <3> QED
      BY <3>2, <3>3 DEF Hooked!ToSet
  <2> QED
    BY <1>2, <1>3, <2>1, <2>2, <2>3 DEF Hooked!NothingIsLost
<1> QED
  BY <1>t, <1>5, <1>6, <1>7, <1>8, <1>9, <1>l DEF HooksIInv

(* The history of the session, before the loop.                            *)
LEMMA AdoptsHistoryOfSession ==
  ASSUME HooksIInv, Hooked!AdoptHistoryOfSession
  PROVE  HooksIInv'
<1> DEFINE value == hksPass.value
           v == Hooked!Longer(value, Hooked!Session)
<1>1. Hooked!Running /\ hksPass.seam = "before_run" /\ Hooked!Adopt(v) /\ hksPass.outcome = None
  BY DEF Hooked!AdoptHistoryOfSession, Hooked!Returned, Hooked!Running
<1>2. value \in HookValue /\ Hooked!Session \in Nat
  <2>1. HookMaxHooks \in Nat
    BY HookAssumption, Zenon DEF HookAssumption
  <2> QED
    BY <2>1, PassIs DEF Hooked!Session
<1>3. v \in HookValue
  <2>1. value = None => v = <<Hooked!Session>>
    BY DEF Hooked!Longer
  <2>2. value # None => v = Append(value, Hooked!Session) /\ value \in Seq(Nat)
    BY <1>2 DEF Hooked!Longer, HookValue
  <2> HIDE DEF v, value
  <2>3. value # None => Append(value, Hooked!Session) \in Seq(Nat)
    BY <1>2, <2>2, LongerIsSeq
  <2>4. <<Hooked!Session>> \in Seq(Nat)
    BY <1>2, OneIsSeq
  <2> QED
    BY <2>1, <2>2, <2>3, <2>4 DEF HookValue
<1>4. ValueCarries
  BY DEF HooksIInv
<1>5. ASSUME hksPass.errors = {}, NEW i \in 1..Len(hksLog), Kept(hksLog, hksPass.seam, i)
      PROVE  \E k \in 1..Len(v) : v # None /\ v[k] = hksLog[i].by
  <2>1. value # None /\ \E k \in 1..Len(value) : value[k] = hksLog[i].by
    BY <1>1, <1>4, <1>5 DEF ValueCarries
  <2>2. PICK k \in 1..Len(value) : value[k] = hksLog[i].by
    BY <2>1
  <2>3. value \in Seq(Nat) /\ v = Append(value, Hooked!Session)
    BY <1>2, <2>1 DEF Hooked!Longer, HookValue
  <2> HIDE DEF v, value
  <2>4. v \in Seq(Nat) /\ v[k] = value[k] /\ k \in 1..Len(v)
    BY <1>2, <2>3
  <2>5. v # None
    <3>1. None \notin Seq(Nat)
      BY HookAssumption, Zenon DEF HookAssumption
    <3> QED
      BY <2>4, <3>1
  <2> QED
    BY <2>2, <2>4, <2>5
<1> HIDE DEF v, value
<1> QED
  BY <1>1, <1>3, <1>5, Adopts

(* The context of a turn.                                                  *)
LEMMA AdoptsContext ==
  ASSUME HooksIInv, Hooked!AdoptContext
  PROVE  HooksIInv'
<1> DEFINE v == IF hksPass.value # None THEN hksPass.value ELSE Hooked!Start(hksPass.seam)
<1>1. Hooked!Running /\ hksPass.seam # "after_run" /\ Hooked!Adopt(v) /\ hksPass.outcome = None
  BY DEF Hooked!AdoptContext, Hooked!Returned, Hooked!Running
<1>2. v \in HookValue
  BY PassIs, StartIsThere
<1>3. ValueCarries
  BY DEF HooksIInv
<1>4. ASSUME hksPass.errors = {}, NEW i \in 1..Len(hksLog), Kept(hksLog, hksPass.seam, i)
      PROVE  \E k \in 1..Len(v) : v # None /\ v[k] = hksLog[i].by
  <2>1. hksPass.value # None /\ \E k \in 1..Len(hksPass.value) : hksPass.value[k] = hksLog[i].by
    BY <1>1, <1>3, <1>4 DEF ValueCarries
  <2>2. v = hksPass.value
    BY <2>1
  <2> QED
    BY <2>1, <2>2
<1> HIDE DEF v
<1> QED
  BY <1>1, <1>2, <1>4, Adopts

(* The running history, unless the value is as long as it.                 *)
LEMMA AdoptsHistory ==
  ASSUME HooksIInv, Hooked!AdoptHistory
  PROVE  HooksIInv'
<1> DEFINE value == hksPass.value
           v == IF value # None /\ Len(value) # Len(Hooked!Start(hksPass.seam))
                THEN value ELSE Hooked!Start(hksPass.seam)
<1>1. /\ Hooked!Running /\ hksPass.seam = "transform_history" /\ hksPass.seam # "after_run"
      /\ Hooked!Adopt(v) /\ hksPass.outcome = None
  BY DEF Hooked!AdoptHistory, Hooked!Returned, Hooked!Running
<1>2. v \in HookValue
  BY PassIs, StartIsThere
<1>3. ValueCarries
  BY DEF HooksIInv
<1>4. Len(Hooked!Start(hksPass.seam)) = 1
  BY <1>1 DEF Hooked!Start
<1>5. ASSUME hksPass.errors = {}, ~Hooked!TakenForUnchanged,
             NEW i \in 1..Len(hksLog), Kept(hksLog, hksPass.seam, i)
      PROVE  \E k \in 1..Len(v) : v # None /\ v[k] = hksLog[i].by
  <2>1. /\ value # None /\ \E k \in 1..Len(value) : value[k] = hksLog[i].by
        /\ \/ Len(value) >= 2
           \/ Len(hksLog) = HookCount + 1 /\ hksLog[HookCount + 1].returned = value
    BY <1>1, <1>3, <1>5 DEF ValueCarries
  <2>2. Len(value) # 1
    <3>1. CASE Len(value) >= 2
      <4>1. value \in Seq(Nat)
        BY <2>1, PassIs DEF HookValue
      <4>2. Len(value) \in Nat
        BY <4>1, LenProperties
      <4> DEFINE n == Len(value)
      <4>3. n \in Nat /\ n >= 2
        BY <3>1, <4>2
      <4> HIDE DEF n
      <4>4. n # 1
        BY <4>3
      <4> QED
        BY <4>4 DEF n
    <3>2. CASE Len(hksLog) = HookCount + 1 /\ hksLog[HookCount + 1].returned = value
      <4>1. Hooked!Last(hksLog).returned = value
        BY <3>2 DEF Hooked!Last
      <4>2. hksLog # <<>>
        BY <1>5
      <4> QED
        BY <1>1, <1>4, <1>5, <2>1, <4>1, <4>2 DEF Hooked!TakenForUnchanged
    <3> QED
      BY <2>1, <3>1, <3>2
  <2>3. v = value
    BY <1>4, <2>1, <2>2
  <2> QED
    BY <2>1, <2>3
<1> HIDE DEF v
<1> QED
  BY <1>1, <1>2, <1>5, Adopts

(* What a turn has answered.                                               *)
LEMMA AdoptsOutput ==
  ASSUME HooksIInv, Hooked!AdoptOutput
  PROVE  HooksIInv'
<1>1. Hooked!Running /\ hksPass.seam # "after_run" /\ Hooked!Adopt(hksPass.value) /\ hksPass.outcome = None
  BY DEF Hooked!AdoptOutput, Hooked!Returned, Hooked!Running, Hooked!Replaces
<1>2. hksPass.value \in HookValue
  BY PassIs
<1>3. ValueCarries
  BY DEF HooksIInv
<1>4. ASSUME hksPass.errors = {}, NEW i \in 1..Len(hksLog), Kept(hksLog, hksPass.seam, i)
      PROVE  \E k \in 1..Len(hksPass.value) : hksPass.value # None /\ hksPass.value[k] = hksLog[i].by
  BY <1>1, <1>3, <1>4 DEF ValueCarries
<1> QED
  BY <1>1, <1>2, <1>4, Adopts

(* The result of a tool call, or its errors.                               *)
LEMMA AdoptsResult ==
  ASSUME HooksIInv, Hooked!AdoptResult
  PROVE  HooksIInv'
<1> DEFINE v == IF hksPass.errors = {} THEN hksPass.value
                ELSE Append(Hooked!Start(hksPass.seam), Hooked!Failure)
<1>1. Hooked!Running /\ hksPass.seam # "after_run" /\ Hooked!Adopt(v) /\ hksPass.outcome = None
  BY DEF Hooked!AdoptResult, Hooked!Returned, Hooked!Running
<1>2. v \in HookValue
  <2>1. HookMaxHooks \in Nat
    BY HookAssumption, Zenon DEF HookAssumption
  <2>2. Hooked!Failure \in Nat
    BY <2>1 DEF Hooked!Failure
  <2>3. Append(Hooked!Start(hksPass.seam), Hooked!Failure) \in Seq(Nat)
    BY <2>2, StartIsThere, LongerIsSeq
  <2> QED
    BY <2>3, PassIs DEF HookValue
<1>3. ValueCarries
  BY DEF HooksIInv
<1>4. ASSUME hksPass.errors = {}, NEW i \in 1..Len(hksLog), Kept(hksLog, hksPass.seam, i)
      PROVE  \E k \in 1..Len(v) : v # None /\ v[k] = hksLog[i].by
  BY <1>1, <1>3, <1>4 DEF ValueCarries
<1> HIDE DEF v
<1> QED
  BY <1>1, <1>2, <1>4, Adopts

(* The errors after a run.                                                 *)
LEMMA AdoptsErrors ==
  ASSUME HooksIInv, Hooked!AdoptErrors
  PROVE  HooksIInv'
<1>1. /\ HookTyped /\ HooksOfSeam /\ NothingBeforeBuild /\ CalledInOrder /\ AllSeeTheLast /\ AllObserve
      /\ NextIsCalled
  BY DEF HooksIInv
<1>2. /\ Hooked!Running /\ hksPass.seam = "after_run"
      /\ hksPass' = [hksPass EXCEPT !.outcome = IF hksPass.errors = {} THEN "used" ELSE "failed"]
      /\ hksRegistry' = hksRegistry /\ hksLog' = hksLog
      /\ hksRegistry.built /\ ~hksRegistry.refused /\ hksPass.outcome = None
      /\ hksPass.next = HookCount + (IF hksRegistry.user = None THEN 1 ELSE 2)
  BY DEF Hooked!AdoptErrors, Hooked!Returned, Hooked!Running, Hooked!Hooks, HookCount
<1>3. /\ hksPass'.seam = hksPass.seam /\ hksPass'.outcome \in {"used", "failed"}
      /\ hksPass'.errors = hksPass.errors
      /\ hksPass' \in [seam : Hooked!Seams, value : HookValue, next : Nat, errors : SUBSET Nat,
                       outcome : {None, "used", "failed", "skipped", "declined"}]
  BY <1>2, PassIs
<1>u. hksPass'.outcome # None
  BY <1>3, HookAssumption DEF HookAssumption
<1>t. HookTyped'
  BY <1>1, <1>2, <1>3 DEF HookTyped
<1>4. HookCount' = HookCount
  BY <1>2 DEF HookCount
<1>5. NothingBeforeBuild'
  BY <1>2 DEF NothingBeforeBuild
<1>6. HooksOfSeam' /\ CalledInOrder' /\ AllSeeTheLast'
  BY <1>1, <1>2, <1>3, <1>4 DEF HooksOfSeam, CalledInOrder, AllSeeTheLast, LoneNil, Hooked!User
<1>7. ErrorsAreLast' /\ Hooked!NothingIsLost'
  BY <1>2, <1>3 DEF ErrorsAreLast, Hooked!NothingIsLost
<1>8. NextIsCalled' /\ ValueIsSeen' /\ HistoryIsThere' /\ ValueCarries'
  BY <1>u DEF NextIsCalled, ValueIsSeen, HistoryIsThere, ValueCarries
<1>9. AllObserve'
  <2>1. hksPass.next = Len(hksLog) + 1 /\ Len(hksLog) \in Nat /\ HookCount \in Nat
    BY <1>1, <1>2, PassIs DEF NextIsCalled
  <2> DEFINE n == Len(hksLog)
             m == HookCount
  <2> HIDE DEF n, m
  <2>2. n + 1 = m + (IF hksRegistry.user = None THEN 1 ELSE 2) /\ n \in Nat /\ m \in Nat
    BY <1>2, <2>1 DEF n, m
  <2>3. n = m + (IF hksRegistry.user = None THEN 0 ELSE 1)
    BY <2>2
  <2> QED
    BY <1>1, <1>2, <1>3, <1>4, <2>3 DEF AllObserve, n, m
<1> QED
  BY <1>t, <1>5, <1>6, <1>7, <1>8, <1>9 DEF HooksIInv

(* A tool call that a hook has declined.                                   *)
LEMMA Declines ==
  ASSUME HooksIInv, Hooked!Decline
  PROVE  HooksIInv'
<1>1. /\ HookTyped /\ HooksOfSeam /\ NothingBeforeBuild /\ CalledInOrder /\ AllSeeTheLast /\ AllObserve
      /\ ErrorsAreLast
  BY DEF HooksIInv
<1>2. /\ hksPass.outcome = "skipped"
      /\ hksPass' = [hksPass EXCEPT !.outcome = "declined",
                       !.value = IF hksPass.value = None THEN Hooked!Start(hksPass.seam) ELSE hksPass.value]
      /\ hksRegistry' = hksRegistry /\ hksLog' = hksLog
  BY DEF Hooked!Decline
<1>3. /\ hksPass'.seam = hksPass.seam /\ hksPass'.outcome = "declined" /\ hksPass'.errors = hksPass.errors
      /\ hksPass' \in [seam : Hooked!Seams, value : HookValue, next : Nat, errors : SUBSET Nat,
                       outcome : {None, "used", "failed", "skipped", "declined"}]
  <2>1. (IF hksPass.value = None THEN Hooked!Start(hksPass.seam) ELSE hksPass.value) \in HookValue
    BY PassIs, StartIsThere
  <2> QED
    BY <1>2, <2>1, PassIs
<1>u. hksPass'.outcome # None /\ hksPass.outcome # None
  BY <1>2, <1>3, HookAssumption, Zenon DEF HookAssumption
<1>t. HookTyped'
  BY <1>1, <1>2, <1>3 DEF HookTyped
<1>4. HookCount' = HookCount
  BY <1>2 DEF HookCount
<1>5. NothingBeforeBuild'
  BY <1>1, <1>2, <1>u DEF NothingBeforeBuild
<1>6. HooksOfSeam' /\ CalledInOrder' /\ AllSeeTheLast'
  BY <1>1, <1>2, <1>3, <1>4 DEF HooksOfSeam, CalledInOrder, AllSeeTheLast, LoneNil, Hooked!User
<1>7. ErrorsAreLast' /\ Hooked!NothingIsLost'
  BY <1>1, <1>2, <1>3 DEF ErrorsAreLast, Hooked!NothingIsLost
<1>8. NextIsCalled' /\ ValueIsSeen' /\ HistoryIsThere' /\ ValueCarries'
  BY <1>u DEF NextIsCalled, ValueIsSeen, HistoryIsThere, ValueCarries
<1>9. AllObserve'
  BY <1>1, <1>2, <1>3, <1>4, <1>u DEF AllObserve
<1> QED
  BY <1>t, <1>5, <1>6, <1>7, <1>8, <1>9 DEF HooksIInv

-----------------------------------------------------------------------------
(* The hooks of a seam, together.                                          *)

(* Every step of a pass keeps the invariant.                               *)
LEMMA HooksStep ==
  ASSUME HooksIInv, Hooked!Next
  PROVE  HooksIInv'
<1>1. ASSUME NEW how \in Hooked!Returns(hksPass.seam), Hooked!RegisterHook(how) PROVE HooksIInv'
  BY <1>1, RegistersHook
<1>2. ASSUME NEW type \in HookTypes, Hooked!RegisterPart(type) PROVE HooksIInv'
  BY <1>2, RegistersPart
<1>3. CASE Hooked!build
  BY <1>3, Builds
<1>4. CASE Hooked!Chain \/ Hooked!ChainReplaces \/ Hooked!ChainAfterToolCall \/ Hooked!ChainAfterRun
  BY <1>4, ChainStep, ChainReplacesStep, ChainAfterToolCallStep, ChainAfterRunStep
<1>5. CASE Hooked!UserTransforms \/ Hooked!UserAfterRun
  BY <1>5, UserTransformsStep, UserAfterRunStep
<1>6. CASE Hooked!AdoptHistoryOfSession \/ Hooked!AdoptHistory \/ Hooked!AdoptContext
  BY <1>6, AdoptsHistoryOfSession, AdoptsHistory, AdoptsContext
<1>7. CASE Hooked!AdoptOutput \/ Hooked!AdoptResult \/ Hooked!AdoptErrors \/ Hooked!Decline
  BY <1>7, AdoptsOutput, AdoptsResult, AdoptsErrors, Declines
<1> QED
  BY <1>1, <1>2, <1>3, <1>4, <1>5, <1>6, <1>7 DEF Hooked!Next

(* A pass that does not move keeps it as well.                             *)
LEMMA HooksStay ==
  ASSUME HooksIInv, UNCHANGED hksVars
  PROVE  HooksIInv'
<1>1. hksRegistry' = hksRegistry /\ hksPass' = hksPass /\ hksLog' = hksLog
  BY DEF hksVars
<1>2. HookCount' = HookCount /\ LoneNil' = LoneNil
  BY <1>1 DEF HookCount, LoneNil
<1>3. HookTyped' /\ NothingBeforeBuild' /\ HooksOfSeam' /\ CalledInOrder'
  BY <1>1, <1>2 DEF HooksIInv, HookTyped, NothingBeforeBuild, HooksOfSeam, CalledInOrder
<1>4. NextIsCalled' /\ ErrorsAreLast' /\ AllObserve'
  BY <1>1, <1>2 DEF HooksIInv, NextIsCalled, ErrorsAreLast, AllObserve
<1>5. AllSeeTheLast' /\ ValueIsSeen' /\ HistoryIsThere'
  BY <1>1, <1>2 DEF HooksIInv, AllSeeTheLast, ValueIsSeen, HistoryIsThere
<1>6. ValueCarries'
  BY <1>1, <1>2 DEF HooksIInv, ValueCarries
<1>7. Hooked!NothingIsLost'
  BY <1>1 DEF HooksIInv, Hooked!NothingIsLost, Hooked!Leaves, Hooked!TakenForUnchanged
<1> QED
  BY <1>3, <1>4, <1>5, <1>6, <1>7 DEF HooksIInv

(* The instance has its own name for the operator of FiniteSets.           *)
LEMMA HookCardinality ==
  \A S : Hooked!Cardinality(S) = Cardinality(S)
BY DEF Hooked!Cardinality, Cardinality

(* The passes are what PluginHooks promises.                               *)
LEMMA HooksSafe ==
  ASSUME HooksIInv
  PROVE  Hooked!HooksCompose
<1>1. /\ Hooked!NothingIsLost /\ NothingBeforeBuild /\ CalledInOrder /\ ErrorsAreLast /\ AllObserve
      /\ AllSeeTheLast
  BY DEF HooksIInv
<1>2. HookCount \in Nat /\ Len(hksLog) \in Nat /\ DOMAIN hksLog = 1..Len(hksLog) /\ Hooked!Hooks = hksRegistry.hooks
  BY PassIs
<1>3. Hooked!EachSeesTheLast
  <2>1. ASSUME NEW i \in 1..Len(hksLog) PROVE Hooked!Outputs(i) = OutputsBefore(hksLog, hksPass.seam, i)
    BY DEF Hooked!Outputs, OutputsBefore, Hooked!KeepsOnNil
  <2>2. ASSUME NEW i \in 1..Len(hksLog)
        PROVE  \/ hksLog[i].given = IF Hooked!Outputs(i) = {} THEN Hooked!Start(hksPass.seam)
                                    ELSE hksLog[Hooked!Max(Hooked!Outputs(i))].returned
               \/ Hooked!NilPassedOn(i) /\ hksLog[i].given = None
    <3>1. CASE hksLog[i].given = SeenAt(hksLog, hksPass.seam, i)
      BY <2>1, <3>1 DEF SeenAt
    <3>2. CASE i = HookCount + 1 /\ LoneNil /\ hksLog[i].given = None
      <4>1. HookCount = 1 /\ hksRegistry.hooks[1] = "nil" /\ Len(hksRegistry.hooks) = 1
        BY <3>2 DEF LoneNil, HookCount
      <4>2. ~(i <= HookCount)
        BY <1>2, <3>2
      <4>3. hksLog[i].by = Hooked!User
        BY <1>1, <4>2 DEF CalledInOrder
      <4>4. hksRegistry.hooks # <<>>
        BY <4>1
      <4> QED
        BY <1>2, <3>2, <4>1, <4>3, <4>4 DEF Hooked!NilPassedOn, Hooked!Composed
    <3> QED
      BY <1>1, <3>1, <3>2 DEF AllSeeTheLast
  <2> QED
    BY <1>2, <2>2 DEF Hooked!EachSeesTheLast
<1>4. Hooked!ErrorsStop
  <2>1. hksRegistry.refused => hksLog = <<>>
    BY <1>1 DEF NothingBeforeBuild
  <2>2. ASSUME hksPass.seam # "after_run", NEW i \in 1..Len(hksLog), Hooked!IsError(hksLog[i].how)
        PROVE  i = Len(hksLog) /\ (hksPass.outcome = "used" => hksPass.seam = "after_tool_call")
    BY <1>1, <2>2 DEF ErrorsAreLast
  <2>3. ASSUME hksPass.seam = "after_run", hksPass.outcome # None
        PROVE  /\ Len(hksLog) = Len(Hooked!Hooks) + Hooked!Cardinality({hksRegistry.user} \ {None})
               /\ hksPass.errors = {hksLog[i].by : i \in {j \in 1..Len(hksLog) : hksLog[j].how = "fail"}}
    <3>1. Cardinality({hksRegistry.user} \ {None}) = (IF hksRegistry.user = None THEN 0 ELSE 1)
      <4>1. CASE hksRegistry.user = None
        <5>1. {hksRegistry.user} \ {None} = {}
          BY <4>1
        <5> QED
          BY <4>1, <5>1, FS_EmptySet
      <4>2. CASE hksRegistry.user # None
        <5>1. {hksRegistry.user} \ {None} = {hksRegistry.user}
          BY <4>2
        <5> QED
          BY <4>2, <5>1, FS_Singleton
      <4> QED
        BY <4>1, <4>2
    <3> QED
      BY <1>1, <1>2, <2>3, <3>1, HookCardinality DEF AllObserve, HookCount
  <2> QED
    BY <1>2, <2>1, <2>2, <2>3 DEF Hooked!ErrorsStop
<1> QED
  BY <1>1, <1>3, <1>4 DEF Hooked!HooksCompose

-----------------------------------------------------------------------------
(* The component that is consulted keeps its invariant (that of the history *)
(* is in SessionProofs).                                                   *)
LoopPartsIInv ==
  /\ machine = "rules" => RulesIInv
  /\ machine = "hooks" => HooksIInv
  /\ machine = "files" => FilesIInv
  /\ machine = "requests" => RequestsIInv

(* One component is consulted at a time, from where it begins.             *)
LEMMA LoopPartsInitially == LoopPartsInit => LoopPartsIInv
<1> SUFFICES ASSUME LoopPartsInit PROVE LoopPartsIInv
  OBVIOUS
<1>1. CASE machine = "history"
  BY <1>1 DEF LoopPartsIInv
<1>2. CASE machine = "rules"
  BY <1>2, RulesInit DEF LoopPartsInit, LoopPartsIInv
<1>3. CASE machine = "hooks"
  BY <1>3, HooksInit DEF LoopPartsInit, LoopPartsIInv
<1>4. CASE machine = "files"
  <2>1. Files!Init
    BY <1>4 DEF LoopPartsInit
  <2>2. FilesIInv
    BY <2>1, FilesAssumption, FilesInit
  <2> QED
    BY <1>4, <2>2 DEF LoopPartsIInv
<1>5. CASE machine = "requests"
  BY <1>5, RequestsInit DEF LoopPartsInit, LoopPartsIInv
<1> QED
  BY <1>1, <1>2, <1>3, <1>4, <1>5 DEF LoopPartsInit, LoopPartsIInv

(* No step of any component breaks it, and machine stays what it is.       *)
LEMMA LoopPartsStep ==
  ASSUME LoopPartsIInv, [LoopPartsNext]_<<machine, loopPartVars>>
  PROVE  LoopPartsIInv'
<1>1. machine' = machine
  BY DEF LoopPartsNext
<1>2. CASE machine \notin {"rules", "hooks", "files", "requests"}
  BY <1>1, <1>2 DEF LoopPartsIInv
<1>3. CASE machine = "rules"
  <2>1. RulesIInv
    BY <1>3 DEF LoopPartsIInv
  <2>2. CASE Rules!Next
    <3>1. RulesIInv'
      BY <2>1, <2>2, RulesStep
    <3> QED
      BY <1>1, <1>3, <3>1 DEF LoopPartsIInv
  <2>3. CASE UNCHANGED prmVars
    <3>1. RulesIInv'
      BY <2>1, <2>3 DEF prmVars, RulesIInv, ScanIInv, ScanKept, ScanTyped, ScanIsRight, ScanBounds,
         CheckIInv, CheckTyped, CheckIsRight, Rules!NoCheck
    <3> QED
      BY <1>1, <1>3, <3>1 DEF LoopPartsIInv
  <2> QED
    BY <1>3, <2>2, <2>3 DEF LoopPartsNext, loopPartVars
<1>4. CASE machine = "hooks"
  <2>1. HooksIInv
    BY <1>4 DEF LoopPartsIInv
  <2>2. CASE Hooked!Next
    <3>1. HooksIInv'
      BY <2>1, <2>2, HooksStep
    <3> QED
      BY <1>1, <1>4, <3>1 DEF LoopPartsIInv
  <2>3. CASE UNCHANGED hksVars
    <3>1. HooksIInv'
      BY <2>1, <2>3, HooksStay
    <3> QED
      BY <1>1, <1>4, <3>1 DEF LoopPartsIInv
  <2> QED
    BY <1>4, <2>2, <2>3 DEF LoopPartsNext, loopPartVars
<1>5. CASE machine = "files"
  <2>1. FilesIInv
    BY <1>5 DEF LoopPartsIInv
  <2>2. CASE Files!Next
    <3>1. FilesIInv'
      BY <2>1, <2>2, FilesAssumption, FilesStep
    <3> QED
      BY <1>1, <1>5, <3>1 DEF LoopPartsIInv
  <2>3. CASE UNCHANGED flsVars
    <3>1. UNCHANGED <<flsMode, flsBatch, flsBefore, flsFiles, flsCall>>
      BY <2>3 DEF flsVars
    <3>2. FilesIInv'
      BY <2>1, <3>1, FilesStay
    <3> QED
      BY <1>1, <1>5, <3>2 DEF LoopPartsIInv
  <2> QED
    BY <1>5, <2>2, <2>3 DEF LoopPartsNext, loopPartVars
<1>6. CASE machine = "requests"
  <2>1. RequestsIInv
    BY <1>6 DEF LoopPartsIInv
  <2>2. CASE Bodies!Next
    <3>1. RequestsIInv'
      BY <2>1, <2>2, RequestsStep
    <3> QED
      BY <1>1, <1>6, <3>1 DEF LoopPartsIInv
  <2>3. CASE UNCHANGED reqVars
    <3>1. RequestsIInv'
      BY <2>1, <2>3, RequestsStay
    <3> QED
      BY <1>1, <1>6, <3>1 DEF LoopPartsIInv
  <2> QED
    BY <1>6, <2>2, <2>3 DEF LoopPartsNext, loopPartVars
<1> QED
  BY <1>1, <1>2, <1>3, <1>4, <1>5, <1>6 DEF LoopPartsIInv

(* A check gives the answer of the last rule that covers a resource, where *)
(* a rule covers what its patterns mean and, of an action or resource with *)
(* a "*" in it, what the matcher takes (Evaluate, wildcardMatch,           *)
(* checkPermission).  A pass through the hooks gives what all of them      *)
(* wrote, but for the nil of the user's hook, the nil of a lone hook of a  *)
(* plugin, and a rewritten history of the same length (build, runTurn).    *)
(* Edits and patches that succeed, in sequence or on files of their own,   *)
(* do what they say, but for a patch that moves a file onto itself, and no *)
(* call changes a file that it was not checked for (EditTool.Execute,      *)
(* applyPatchSection).  Each tool call has its one result behind it in     *)
(* every request (ExpandToolMessages, body).  For any letters,             *)
(* configurations, calls, hooks, trees, patches and histories.             *)
THEOREM AnswersAreAlwaysRight == LoopPartsSpec => []AnswersAreRight
<1>1. LoopPartsIInv => AnswersAreRight
  <2> SUFFICES ASSUME LoopPartsIInv PROVE AnswersAreRight
    OBVIOUS
  <2>1. ASSUME machine = "rules" PROVE Rules!RulesDecide
    BY <2>1, RulesSafe DEF LoopPartsIInv
  <2>2. ASSUME machine = "hooks" PROVE Hooked!HooksCompose
    BY <2>2, HooksSafe DEF LoopPartsIInv
  <2>3. ASSUME machine = "files" PROVE Files!FilesAreWhole
    BY <2>3, FilesAssumption, FilesSafe DEF LoopPartsIInv
  <2>4. ASSUME machine = "requests" PROVE Bodies!CallsAreAnswered
    BY <2>4, RequestAssumption, RequestsSafe DEF LoopPartsIInv
  <2> QED
    BY <2>1, <2>2, <2>3, <2>4 DEF AnswersAreRight
<1>2. LoopPartsIInv /\ [LoopPartsNext]_<<machine, loopPartVars>> => LoopPartsIInv'
  BY LoopPartsStep
<1> QED
  BY <1>1, <1>2, LoopPartsInitially, PTL DEF LoopPartsSpec
=============================================================================
