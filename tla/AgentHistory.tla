---------------------------- MODULE AgentHistory ----------------------------
(***************************************************************************)
(* The message history of a session while it runs with the compaction      *)
(* plugin (agent/session/session.go, agent/run/run.go,                     *)
(* plugins/compaction/compaction.go).                                      *)
(*                                                                         *)
(* The loop keeps the history in memory, checkpoints each assistant        *)
(* message and emits events; a drain goroutine takes the events out and    *)
(* saves the messages it finds there, markers of the compaction among      *)
(* them.  Both take the positions of the saved messages from one counter.  *)
(* A summary is the set of the messages it tells of.                       *)
(***************************************************************************)
EXTENDS Integers, Sequences, FiniteSets, SequencesExt

CONSTANTS None,
          MinMessages, TriggerTokens, KeepRecent,   \* options of the plugin; a message is one token
          MaxMessages,                              \* bound: messages made
          MaxFailures                               \* bound: saves that the store refuses

VARIABLES history,    \* of the session; empty in a session that was just made
          messages,   \* of the runner
          loop,       \* the goroutine of the run
          events,     \* eventCh: messages emitted and not taken by the drain
          saving,     \* the message the drain is about to save
          stored,     \* the message rows: index -> message
          nextIdx,
          cancelled,  \* the context of the run
          reported,   \* a run of this session has ended with an error or was cut short
          made,       \* messages made
          failures    \* saves that were refused by the store

historyVars == <<history, messages, loop, events, saving, stored, nextIdx, cancelled,
                 reported, made, failures>>

Idle == [at |-> "idle", idx |-> None, failed |-> FALSE]

Init ==
  /\ history = <<>> /\ messages = <<>> /\ loop = Idle
  /\ events = <<>> /\ saving = None
  /\ stored = <<>> /\ nextIdx = 0
  /\ cancelled = FALSE /\ reported = FALSE
  /\ made = 0 /\ failures = 0

Message(id, role, tools, covers) == [id |-> id, role |-> role, tools |-> tools, covers |-> covers]
Ids(msgs) == {msgs[i].id : i \in DOMAIN msgs}
Markers(msgs) == {i \in DOMAIN msgs : msgs[i].role = "marker"}

-----------------------------------------------------------------------------
(* Compaction. *)

\* The position of the last marker, or 0.
findLatestMarker(msgs) == IF Markers(msgs) = {} THEN 0 ELSE Max(Markers(msgs))

\* What the model is shown: the last summary and what follows it.
modelFacingMessages(msgs) ==
  LET latest == findLatestMarker(msgs)
  IN IF latest = 0 THEN msgs ELSE SubSeq(msgs, latest, Len(msgs))

\* Not between a call of a tool and what follows it.
isSafeFirstKept(msgs, i) == i = 1 \/ i = Len(msgs) + 1 \/ ~msgs[i - 1].tools

safeTailStartAtOrAfter(msgs, candidate) ==
  CHOOSE i \in candidate..(Len(msgs) + 1) :
    /\ isSafeFirstKept(msgs, i)
    /\ \A j \in candidate..(i - 1) : ~isSafeFirstKept(msgs, j)

\* A budget of recent messages is kept, half the trigger if it is not below it.
findTailStart(msgs, minStart) ==
  LET half == TriggerTokens \div 2
      keep == IF KeepRecent < TriggerTokens THEN KeepRecent ELSE IF half < 1 THEN 1 ELSE half
      recent == Len(msgs) + 1 - keep
  IN safeTailStartAtOrAfter(msgs, IF recent < minStart THEN minStart ELSE recent)

\* collectMarkerState: the summaries of all the markers so far.
collectMarkerState(msgs) == UNION {msgs[i].covers : i \in Markers(msgs)}

CompactionOfHead(msgs, id) ==
  LET headStart == findLatestMarker(msgs) + 1
      tailStart == findTailStart(msgs, headStart)
  IN IF \/ Len(msgs) < MinMessages
        \/ Len(modelFacingMessages(msgs)) < TriggerTokens
        \/ tailStart <= headStart
     THEN <<>>
     ELSE <<[at |-> tailStart,
             marker |-> Message(id, "marker", FALSE, Ids(SubSeq(msgs, headStart, tailStart - 1)))]>>

\* The marker goes between the head it sums up and the tail that is kept;
\* <<>> when nothing is to be compacted.
Compaction(msgs, id) ==
  LET headStart == findLatestMarker(msgs) + 1
      tailStart == findTailStart(msgs, headStart)
      covers == collectMarkerState(SubSeq(msgs, 1, headStart - 1))
                  \cup Ids(SubSeq(msgs, headStart, tailStart - 1))
  IN IF \/ Len(msgs) < MinMessages
        \/ Len(modelFacingMessages(msgs)) < TriggerTokens
        \/ tailStart <= headStart
     THEN <<>>
     ELSE <<[at |-> tailStart, marker |-> Message(id, "marker", FALSE, covers)]>>

-----------------------------------------------------------------------------
(* The store. *)

\* SaveMessage: a row of its own index, or a later revision of the row.
Saved(idx, m) ==
  /\ idx \in DOMAIN stored => stored[idx].id = m.id
  /\ stored' = [i \in DOMAIN stored \cup {idx} |-> IF i = idx THEN m ELSE stored[i]]

IndexTaken(idx, m) == idx \in DOMAIN stored /\ stored[idx].id # m.id

StoreFails ==
  /\ failures < MaxFailures
  /\ failures' = failures + 1

\* The rows in the order of their index, and hydrate.
Rows ==
  LET upTo(idx) == Cardinality({j \in DOMAIN stored : j <= idx})
      row(i) == CHOOSE idx \in DOMAIN stored : upTo(idx) = i
  IN [i \in 1..Cardinality(DOMAIN stored) |-> stored[row(i)]]

Hydrated == IF history # <<>> THEN history ELSE Rows

-----------------------------------------------------------------------------
(* The run. *)

\* The first part of runWith: the user's message is appended to the history
\* and stays there even if it could not be saved; then nothing runs.
StartRun ==
  /\ loop.at = "idle" /\ made + 3 <= MaxMessages
  /\ LET m == Message(made + 1, "user", FALSE, {})
         idx == Len(Hydrated)
     IN /\ history' = Append(Hydrated, m)
        /\ made' = made + 1
        /\ cancelled' = FALSE
        /\ \/ /\ Saved(idx, m)
              /\ messages' = history' /\ nextIdx' = Len(history')
              /\ loop' = [Idle EXCEPT !.at = "turn"]
              /\ UNCHANGED <<failures, reported>>
           \/ /\ (IndexTaken(idx, m) /\ UNCHANGED failures) \/ StoreFails
              /\ reported' = TRUE
              /\ UNCHANGED <<stored, messages, nextIdx, loop>>
  /\ UNCHANGED <<events, saving>>

\* The top of an iteration: the context is looked at, then the history hook
\* runs.  A summary that fails ends the run.
BeginTurn ==
  /\ loop.at = "turn"
  /\ LET compaction == Compaction(messages, made + 1)
     IN \/ /\ cancelled
           /\ loop' = [loop EXCEPT !.at = "returning", !.failed = TRUE]
           /\ UNCHANGED <<messages, events, made>>
        \/ /\ ~cancelled /\ compaction = <<>>
           /\ loop' = [loop EXCEPT !.at = "checkpoint"]
           /\ UNCHANGED <<messages, events, made>>
        \/ /\ ~cancelled /\ compaction # <<>>
           /\ LET c == compaction[1]
              IN /\ messages' = InsertAt(messages, c.at, c.marker)
                 /\ events' = Append(events, c.marker)
           /\ made' = made + 1
           /\ loop' = [loop EXCEPT !.at = "checkpoint"]
        \/ /\ compaction # <<>>
           /\ loop' = [loop EXCEPT !.at = "returning", !.failed = TRUE]
           /\ UNCHANGED <<messages, events, made>>
  /\ UNCHANGED <<history, saving, stored, nextIdx, cancelled, reported, failures>>

\* sessionMessagePersistence.Save: an index for the assistant message of this
\* step, and then the save.
AssignIndex ==
  /\ loop.at = "checkpoint"
  /\ loop' = [loop EXCEPT !.at = "indexed", !.idx = nextIdx]
  /\ nextIdx' = nextIdx + 1
  /\ made' = made + 1
  /\ UNCHANGED <<history, messages, events, saving, stored, cancelled, reported, failures>>

Assistant(tools) == Message(made, "assistant", tools, {})

\* Nothing makes a message between a step's AssignIndex and its end, so that
\* the message of the step is the last one made.
Checkpoint ==
  /\ loop.at = "indexed" /\ ~cancelled
  /\ Saved(loop.idx, Assistant(FALSE))
  /\ loop' = [loop EXCEPT !.at = "streaming"]
  /\ UNCHANGED <<history, messages, events, saving, nextIdx, cancelled, reported, made, failures>>

\* retainFailedAssistant, after a checkpoint that failed or an answer that
\* broke off: saved without the context, if it can be.
RetainFailed ==
  /\ \/ loop.at = "indexed" /\ cancelled /\ UNCHANGED failures
     \/ loop.at = "indexed" /\ StoreFails
     \/ loop.at = "streaming" /\ UNCHANGED failures
  /\ \/ Saved(loop.idx, Assistant(FALSE))
     \/ failures' > failures /\ UNCHANGED stored
  /\ messages' = Append(messages, Assistant(FALSE))
  /\ loop' = [loop EXCEPT !.at = "returning", !.failed = TRUE]
  /\ UNCHANGED <<history, events, saving, nextIdx, cancelled, reported, made>>

\* The answer is complete: a run goes on while there are calls of tools.
FinishTurn ==
  \E tools \in BOOLEAN :
    /\ loop.at = "streaming" /\ ~cancelled
    /\ tools => made + 2 <= MaxMessages
    /\ Saved(loop.idx, Assistant(tools))
    /\ messages' = Append(messages, Assistant(tools))
    /\ events' = Append(events, Assistant(tools))
    /\ loop' = [loop EXCEPT !.at = IF tools THEN "turn" ELSE "returning"]
    /\ UNCHANGED <<history, saving, nextIdx, cancelled, reported, made, failures>>

\* Run waits for the drain; the session adopts the messages of the run.
Return ==
  /\ loop.at = "returning" /\ events = <<>> /\ saving = None
  /\ history' = messages
  /\ reported' = (reported \/ loop.failed)
  /\ loop' = Idle
  /\ UNCHANGED <<messages, events, saving, stored, nextIdx, cancelled, made, failures>>

\* The drain: indexForEvent knows the index of an assistant message.
TakeEvent ==
  /\ events # <<>> /\ saving = None
  /\ events' = Tail(events)
  /\ LET m == Head(events)
     IN IF m.role = "marker"
        THEN saving' = [message |-> m, idx |-> nextIdx] /\ nextIdx' = nextIdx + 1
        ELSE /\ saving' = [message |-> m, idx |-> CHOOSE i \in DOMAIN stored : stored[i].id = m.id]
             /\ UNCHANGED nextIdx
  /\ UNCHANGED <<history, messages, loop, stored, cancelled, reported, made, failures>>

\* A save that fails, as it does once the context is cancelled, becomes the
\* error of a run that has no other.
SaveEvent ==
  /\ saving # None
  /\ \/ /\ ~cancelled
        /\ Saved(saving.idx, saving.message)
        /\ UNCHANGED <<loop, failures>>
     \/ /\ (cancelled /\ UNCHANGED failures) \/ StoreFails
        /\ loop' = [loop EXCEPT !.failed = TRUE]
        /\ UNCHANGED stored
  /\ saving' = None
  /\ UNCHANGED <<history, messages, events, nextIdx, cancelled, reported, made>>

Cancel ==
  /\ loop.at # "idle" /\ ~cancelled
  /\ cancelled' = TRUE
  /\ UNCHANGED <<history, messages, loop, events, saving, stored, nextIdx, reported, made, failures>>

\* The session is built anew, as for each run of the daemon.
NewSession ==
  /\ loop.at = "idle" /\ history # <<>>
  /\ history' = <<>>
  /\ UNCHANGED <<messages, loop, events, saving, stored, nextIdx, cancelled, reported, made, failures>>

Crash ==
  /\ loop.at # "idle"
  /\ history' = <<>> /\ messages' = <<>> /\ loop' = Idle
  /\ events' = <<>> /\ saving' = None
  /\ reported' = TRUE
  /\ UNCHANGED <<stored, nextIdx, cancelled, made, failures>>

Next ==
  \/ StartRun \/ BeginTurn \/ AssignIndex \/ Checkpoint
  \/ RetainFailed \/ FinishTurn \/ Return
  \/ TakeEvent \/ SaveEvent
  \/ Cancel \/ NewSession \/ Crash

Spec == Init /\ [][Next]_historyVars

-----------------------------------------------------------------------------
(* Properties. *)

\* What the model is shown or told of: the messages after the last marker, and
\* those its summary covers.
InContext(msgs) ==
  LET facing == modelFacingMessages(msgs)
  IN {facing[i].id : i \in DOMAIN facing \ Markers(facing)} \cup collectMarkerState(facing)

\* The rows are the messages, and their order is the same but for markers.
SameMessages(rows, msgs) ==
  /\ Len(msgs) = Cardinality(DOMAIN rows)
  /\ \A i \in DOMAIN msgs : \E idx \in DOMAIN rows : rows[idx] = msgs[i]
  /\ \A i, j \in DOMAIN msgs \ Markers(msgs) : i < j =>
       \A x, y \in DOMAIN rows : rows[x] = msgs[i] /\ rows[y] = msgs[j] => x < y

\* As long as a run lasts, no compaction and no turn makes the model forget a
\* message it was shown or told of.  When the runs of a session have all ended
\* well, the rows have the indexes 0, 1, ... without a gap, so that the next run
\* finds its index free, and they are the messages in memory.  A marker may have
\* another place among them: what a later process hydrates has every message,
\* but the last marker may hide from the model some that it kept here.
KeepsHistory ==
  /\ loop.at # "idle" /\ loop'.at # "idle" => InContext(messages) \subseteq InContext(messages')
  /\ loop'.at = "idle" /\ ~reported' =>
       /\ DOMAIN stored' = 0..(Cardinality(DOMAIN stored') - 1)
       /\ history' # <<>> => SameMessages(stored', history')

HistoryIsKept == [][KeepsHistory]_historyVars

\* The comment on the marker's event (compaction.go:333-338): the transcript on
\* disk does not drift from the one in memory, once the marker is saved.
HydratesHistory == loop.at = "idle" /\ ~reported /\ history # <<>> => Rows = history
=============================================================================
