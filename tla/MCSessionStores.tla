-------------------------- MODULE MCSessionStores ---------------------------
(* Small instances of SessionStores.  All callers at once are too many to    *)
(* explore, so that each behaviour takes one mix of them: the messages and   *)
(* tool uses that an agent run records, its model calls, what clients        *)
(* command, how permission requests are answered, and a little of            *)
(* everything.  The ids of messages, model calls and tool uses are           *)
(* interchangeable.                                                          *)
EXTENDS SessionStores

VARIABLE mix

RepeatedLists == {<<"x">>, <<"x", "x">>}

\* An index of each role, and one index for both.
MCPlaces == {[idx |-> 0, role |-> "user"], [idx |-> 0, role |-> "assistant"],
             [idx |-> 1, role |-> "assistant"]}

MCAttempts == {<<1, 1>>, <<1, 2>>}

MCUsePlaces == {<<1, 0>>, <<1, 1>>}

\* Bound: events of the stream before the last call, in each mix.
Limit == [records |-> 7, calls |-> 7, commands |-> 5, grants |-> 8, all |-> 5]

Turn == Admit \/ Claim \/ Settle

RecordsMix == Admit \/ Checkpoint \/ RecordUse \/ RecoverUses

CallsMix == Turn \/ RecordCall \/ RecoverCalls

CommandsMix ==
  \/ \E c \in Clients : Read(c) \/ Rename(c) \/ Move(c) \/ Purge(c)
  \/ RemoveWorkspace \/ Turn

GrantsMix == Admit \/ Claim \/ Ask \/ Answer \/ Recover

AllMix ==
  LET c == CHOOSE c \in Clients : TRUE
  IN \/ Read(c) \/ Rename(c) \/ Purge(c)
     \/ RecordsMix \/ CallsMix \/ Ask \/ Answer \/ Recover

MCInit ==
  /\ mix \in DOMAIN Limit
  /\ Init
  /\ mix # "commands" => sql.tables.session.title = "t1" /\ sql.tables.session.workspace = None

MCNext ==
  /\ Len(sql.stream) < Limit[mix]
  /\ \/ mix = "records" /\ RecordsMix
     \/ mix = "calls" /\ CallsMix
     \/ mix = "commands" /\ CommandsMix
     \/ mix = "grants" /\ GrantsMix
     \/ mix = "all" /\ AllMix
     \/ Rebuild
  /\ UNCHANGED mix

MCSpec == MCInit /\ [][MCNext]_<<vars, mix>>

SameIds == Permutations(Messages) \cup Permutations(Calls) \cup Permutations(Uses)

=============================================================================
