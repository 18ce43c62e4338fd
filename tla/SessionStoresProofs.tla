------------------------ MODULE SessionStoresProofs -------------------------
(***************************************************************************)
(* Proofs about SessionStores, for every number of runs, messages, calls,  *)
(* tool uses, requests, clients and events: the stream of a session        *)
(* projects, the tables are its projection, no rename is lost, and the two *)
(* stores agree.                                                           *)
(***************************************************************************)
EXTENDS SessionStores, WellFoundedInduction, FiniteSetTheorems, TLAPS

-----------------------------------------------------------------------------
(* Induction over the positions of a sequence. *)

LEMMA LeastNat ==
  ASSUME NEW T, T \subseteq Nat, T # {}
  PROVE  \E x \in T : \A y \in T : x <= y
<1> DEFINE R == OpToRel(<, Nat)
<1>1. IsWellFoundedOn(R, Nat)
  BY NatLessThanWellFounded
<1>2. \E x \in T : \A y \in T : ~ (<<y, x>> \in R)
  <2> HIDE DEF R
  <2> QED BY <1>1, WFMin
<1>3. PICK x \in T : \A y \in T : ~ (<<y, x>> \in R)
  BY <1>2
<1>4. \A y \in T : ~ (y < x)
  <2> TAKE y \in T
  <2>1. <<y, x>> \notin R BY <1>3
  <2>2. <<y, x>> \in Nat \X Nat OBVIOUS
  <2> QED BY <2>1, <2>2 DEF OpToRel
<1>5. \A y \in T : x <= y
  BY <1>4
<1> QED BY <1>5

LEMMA IntervalInduction ==
  ASSUME NEW T, NEW n \in Nat, 0 \in T, \A i \in 1..n : i - 1 \in T => i \in T
  PROVE  \A i \in 0..n : i \in T
<1>1. SUFFICES ASSUME (0..n) \ T # {} PROVE FALSE
  OBVIOUS
<1>2. (0..n) \ T \subseteq Nat
  OBVIOUS
<1>3. PICK x \in (0..n) \ T : \A y \in (0..n) \ T : x <= y
  BY <1>1, <1>2, LeastNat
<1>4. x # 0 /\ x \in 1..n /\ x - 1 \in 0..n
  OBVIOUS
<1>5. x - 1 \in T
  BY <1>3, <1>4
<1> QED BY <1>4, <1>5

(* What a replay, a transaction and a call of the memory store compute,    *)
(* position by position.                                                   *)
Replays(after, events, n) ==
  after = [k \in 0..n |-> IF k = 0 THEN EmptyTables ELSE Apply(after[k - 1], events[k])]

LEMMA ReplayIs ==
  ASSUME NEW events, Len(events) \in Nat
  PROVE  Replays(Replay(events), events, Len(events))
<1> DEFINE G == {k \in 0..Len(events) : \E after : Replays(after, events, k)}
<1>1. 0 \in G
  <2>1. Replays([k \in 0..0 |-> EmptyTables], events, 0)
    BY DEF Replays
  <2> QED BY <2>1
<1>2. ASSUME NEW i \in 1..Len(events), i - 1 \in G PROVE i \in G
  <2>1. PICK g : Replays(g, events, i - 1)
    BY <1>2
  <2> DEFINE f == [k \in 0..i |-> IF k = i THEN Apply(g[i - 1], events[i]) ELSE g[k]]
  <2>2. Replays(f, events, i)
    BY <2>1 DEF Replays
  <2> QED BY <2>2
<1>3. Len(events) \in G
  <2> HIDE DEF G
  <2>1. \A i \in 0..Len(events) : i \in G
    BY <1>1, <1>2, IntervalInduction
  <2> QED BY <2>1
<1> QED BY <1>3 DEF Replay, Replays

Inserts(after, d, events, n) ==
  after = [k \in 0..n |->
    IF k = 0 THEN d
    ELSE IF Granted(after[k - 1], events[k]) THEN after[k - 1]
    ELSE appendAggregateEventTx(after[k - 1], events[k])]

LEMMA InsertEventsIs ==
  ASSUME NEW d, NEW events, Len(events) \in Nat
  PROVE  \E after : /\ Inserts(after, d, events, Len(events))
                    /\ insertEvents(d, events) = after[Len(events)]
<1> DEFINE G == {k \in 0..Len(events) : \E after : Inserts(after, d, events, k)}
<1>1. 0 \in G
  <2>1. Inserts([k \in 0..0 |-> d], d, events, 0)
    BY DEF Inserts
  <2> QED BY <2>1
<1>2. ASSUME NEW i \in 1..Len(events), i - 1 \in G PROVE i \in G
  <2>1. PICK g : Inserts(g, d, events, i - 1)
    BY <1>2
  <2> DEFINE last == IF Granted(g[i - 1], events[i]) THEN g[i - 1]
                     ELSE appendAggregateEventTx(g[i - 1], events[i])
             f == [k \in 0..i |-> IF k = i THEN last ELSE g[k]]
  <2>2. Inserts(f, d, events, i)
    BY <2>1 DEF Inserts
  <2> QED BY <2>2
<1>3. Len(events) \in G
  <2> HIDE DEF G
  <2>1. \A i \in 0..Len(events) : i \in G
    BY <1>1, <1>2, IntervalInduction
  <2> QED BY <2>1
<1>4. \E after : Inserts(after, d, events, Len(events))
  BY <1>3
<1> DEFINE a == CHOOSE after : Inserts(after, d, events, Len(events))
<1>5. Inserts(a, d, events, Len(events))
  BY <1>4
<1>6. insertEvents(d, events) = a[Len(events)]
  BY DEF insertEvents, Inserts
<1> QED BY <1>5, <1>6

MemInserts(after, d, events, n) ==
  after = [k \in 0..n |->
    IF k = 0 THEN d
    ELSE IF Granted(d, events[k]) THEN after[k - 1]
    ELSE memAppend(after[k - 1], events[k])]

LEMMA MemAppendEventsIs ==
  ASSUME NEW d, NEW events, Len(events) \in Nat
  PROVE  \E after : /\ MemInserts(after, d, events, Len(events))
                    /\ memAppendEvents(d, events) = after[Len(events)]
<1> DEFINE G == {k \in 0..Len(events) : \E after : MemInserts(after, d, events, k)}
<1>1. 0 \in G
  <2>1. MemInserts([k \in 0..0 |-> d], d, events, 0)
    BY DEF MemInserts
  <2> QED BY <2>1
<1>2. ASSUME NEW i \in 1..Len(events), i - 1 \in G PROVE i \in G
  <2>1. PICK g : MemInserts(g, d, events, i - 1)
    BY <1>2
  <2> DEFINE last == IF Granted(d, events[i]) THEN g[i - 1] ELSE memAppend(g[i - 1], events[i])
             f == [k \in 0..i |-> IF k = i THEN last ELSE g[k]]
  <2>2. MemInserts(f, d, events, i)
    BY <2>1 DEF MemInserts
  <2> QED BY <2>2
<1>3. Len(events) \in G
  <2> HIDE DEF G
  <2>1. \A i \in 0..Len(events) : i \in G
    BY <1>1, <1>2, IntervalInduction
  <2> QED BY <2>1
<1>4. \E after : MemInserts(after, d, events, Len(events))
  BY <1>3
<1> DEFINE a == CHOOSE after : MemInserts(after, d, events, Len(events))
<1>5. MemInserts(a, d, events, Len(events))
  BY <1>4
<1>6. memAppendEvents(d, events) = a[Len(events)]
  BY DEF memAppendEvents, MemInserts
<1> QED BY <1>5, <1>6

SessionAfter(after, events, n) ==
  after = [k \in 0..n |->
    IF k = 0 THEN None ELSE projectSessionEvent(after[k - 1], events[k])]

LEMMA ProjectSessionIs ==
  ASSUME NEW events, Len(events) \in Nat
  PROVE  \E after : /\ SessionAfter(after, events, Len(events))
                    /\ ProjectSession(events) = after[Len(events)]
<1> DEFINE G == {k \in 0..Len(events) : \E after : SessionAfter(after, events, k)}
<1>1. 0 \in G
  <2>1. SessionAfter([k \in 0..0 |-> None], events, 0)
    BY DEF SessionAfter
  <2> QED BY <2>1
<1>2. ASSUME NEW i \in 1..Len(events), i - 1 \in G PROVE i \in G
  <2>1. PICK g : SessionAfter(g, events, i - 1)
    BY <1>2
  <2> DEFINE f == [k \in 0..i |-> IF k = i THEN projectSessionEvent(g[i - 1], events[i])
                                  ELSE g[k]]
  <2>2. SessionAfter(f, events, i)
    BY <2>1 DEF SessionAfter
  <2> QED BY <2>2
<1>3. Len(events) \in G
  <2> HIDE DEF G
  <2>1. \A i \in 0..Len(events) : i \in G
    BY <1>1, <1>2, IntervalInduction
  <2> QED BY <2>1
<1>4. \E after : SessionAfter(after, events, Len(events))
  BY <1>3
<1> DEFINE a == CHOOSE after : SessionAfter(after, events, Len(events))
<1>5. SessionAfter(a, events, Len(events))
  BY <1>4
<1>6. ProjectSession(events) = a[Len(events)]
  BY DEF ProjectSession, SessionAfter
<1> QED BY <1>5, <1>6

-----------------------------------------------------------------------------
(* The tables and the events. *)

Row(keys, rows) == [keys -> rows \cup {None}]

(* a request has an answer when it is resolved, not before                 *)
AskedRow == {request \in RequestRow : request.status = "pending" => request.response = ""}

TablesType ==
  [session : SessionRow \cup {None}, runs : Row(Runs, RunRow),
   messages : Row(Messages, MessageRow), calls : Row(Calls, CallRow),
   uses : Row(Uses, UseRow), requests : Row(Requests, AskedRow),
   grants : SUBSET Resources]

CreatedEvents ==
  [type : {"session.created"}, id : {None},
   snapshot : [title : Titles, workspace : Workspaces \cup {None}]]
RenamedEvents == [type : {"session.renamed"}, id : {None}, snapshot : [title : Titles]]
MovedEvents ==
  [type : {"session.moved"}, id : {None}, snapshot : [workspace : Workspaces \cup {None}]]
RunEvents ==
  [type : {"session.run.admitted", "session.run.transition"}, id : Runs, snapshot : RunRow]
MessageEvents == [type : {"session.message.saved"}, id : Messages, snapshot : MessageRow]
CallEvents == [type : {"session.model_call.saved"}, id : Calls, snapshot : CallRow]
UseEvents == [type : {"session.tool_use.saved"}, id : Uses, snapshot : UseRow]
RequestEvents ==
  [type : {"session.permission.requested", "session.permission.resolved"},
   id : Requests, snapshot : AskedRow]
GrantEvents ==
  [type : {"session.permission_grant.created"}, id : Resources, snapshot : {None}]

(* the events that follow the first one                                    *)
LaterEvents ==
  RenamedEvents \cup MovedEvents \cup RunEvents \cup MessageEvents \cup CallEvents
    \cup UseEvents \cup RequestEvents \cup GrantEvents
Events == CreatedEvents \cup LaterEvents

Bumped(session) == [session EXCEPT !.version = @ + 1]

Database(session, runs, messages, calls, uses, requests, grants) ==
  [session |-> session, runs |-> runs, messages |-> messages, calls |-> calls,
   uses |-> uses, requests |-> requests, grants |-> grants]

LEMMA DatabaseTyped ==
  ASSUME NEW session \in SessionRow \cup {None}, NEW runs \in Row(Runs, RunRow),
         NEW messages \in Row(Messages, MessageRow), NEW calls \in Row(Calls, CallRow),
         NEW uses \in Row(Uses, UseRow), NEW requests \in Row(Requests, AskedRow),
         NEW grants \in SUBSET Resources
  PROVE  Database(session, runs, messages, calls, uses, requests, grants) \in TablesType
  BY DEF TablesType, Database

(* What an event does to each table. *)
LEMMA ApplyRun ==
  ASSUME NEW t \in TablesType, t.session \in SessionRow, NEW e \in RunEvents
  PROVE  Apply(t, e) =
           Database(Bumped(t.session), [t.runs EXCEPT ![e.id] = e.snapshot], t.messages,
             t.calls, t.uses, t.requests, t.grants)
<1>1. TableOf(e.type) = "runs" /\ projectSessionEvent(t.session, e) = Bumped(t.session)
  BY DEF TableOf, projectSessionEvent, Bumped, RunEvents
<1> QED BY <1>1 DEF Apply, Tables, TablesType, Database

LEMMA ApplyMessage ==
  ASSUME NEW t \in TablesType, t.session \in SessionRow, NEW e \in MessageEvents
  PROVE  Apply(t, e) =
           Database(Bumped(t.session), t.runs, [t.messages EXCEPT ![e.id] = e.snapshot],
             t.calls, t.uses, t.requests, t.grants)
<1>1. TableOf(e.type) = "messages" /\ projectSessionEvent(t.session, e) = Bumped(t.session)
  BY DEF TableOf, projectSessionEvent, Bumped, MessageEvents
<1> QED BY <1>1 DEF Apply, Tables, TablesType, Database

LEMMA ApplyCall ==
  ASSUME NEW t \in TablesType, t.session \in SessionRow, NEW e \in CallEvents
  PROVE  Apply(t, e) =
           Database(Bumped(t.session), t.runs, t.messages, [t.calls EXCEPT ![e.id] =
             e.snapshot], t.uses, t.requests, t.grants)
<1>1. TableOf(e.type) = "calls" /\ projectSessionEvent(t.session, e) = Bumped(t.session)
  BY DEF TableOf, projectSessionEvent, Bumped, CallEvents
<1> QED BY <1>1 DEF Apply, Tables, TablesType, Database

LEMMA ApplyUse ==
  ASSUME NEW t \in TablesType, t.session \in SessionRow, NEW e \in UseEvents
  PROVE  Apply(t, e) =
           Database(Bumped(t.session), t.runs, t.messages, t.calls, [t.uses EXCEPT
             ![e.id] = e.snapshot], t.requests, t.grants)
<1>1. TableOf(e.type) = "uses" /\ projectSessionEvent(t.session, e) = Bumped(t.session)
  BY DEF TableOf, projectSessionEvent, Bumped, UseEvents
<1> QED BY <1>1 DEF Apply, Tables, TablesType, Database

LEMMA ApplyRequest ==
  ASSUME NEW t \in TablesType, t.session \in SessionRow, NEW e \in RequestEvents
  PROVE  Apply(t, e) =
           Database(Bumped(t.session), t.runs, t.messages, t.calls, t.uses, [t.requests
             EXCEPT ![e.id] = e.snapshot], t.grants)
<1>1. TableOf(e.type) = "requests" /\ projectSessionEvent(t.session, e) = Bumped(t.session)
  BY DEF TableOf, projectSessionEvent, Bumped, RequestEvents
<1> QED BY <1>1 DEF Apply, Tables, TablesType, Database

LEMMA ApplyGrant ==
  ASSUME NEW t \in TablesType, t.session \in SessionRow, NEW e \in GrantEvents
  PROVE  Apply(t, e) =
           Database(Bumped(t.session), t.runs, t.messages, t.calls, t.uses, t.requests,
             t.grants \cup {e.id})
<1>1. TableOf(e.type) = "grants" /\ projectSessionEvent(t.session, e) = Bumped(t.session)
  BY DEF TableOf, projectSessionEvent, Bumped, GrantEvents
<1> QED BY <1>1 DEF Apply, Tables, TablesType, Database

LEMMA ApplyRename ==
  ASSUME NEW t \in TablesType, t.session \in SessionRow, NEW e \in RenamedEvents
  PROVE  Apply(t, e) =
           Database([Bumped(t.session) EXCEPT !.title = e.snapshot.title], t.runs,
             t.messages, t.calls, t.uses, t.requests, t.grants)
<1>1. /\ TableOf(e.type) = "session"
      /\ projectSessionEvent(t.session, e) = [Bumped(t.session) EXCEPT !.title = e.snapshot.title]
  BY DEF TableOf, projectSessionEvent, Bumped, RenamedEvents
<1> QED BY <1>1 DEF Apply, Tables, TablesType, Database

LEMMA ApplyMove ==
  ASSUME NEW t \in TablesType, t.session \in SessionRow, NEW e \in MovedEvents
  PROVE  Apply(t, e) =
           Database([Bumped(t.session) EXCEPT !.workspace = e.snapshot.workspace],
             t.runs, t.messages, t.calls, t.uses, t.requests, t.grants)
<1>1. /\ TableOf(e.type) = "session"
      /\ projectSessionEvent(t.session, e) = [Bumped(t.session) EXCEPT !.workspace = e.snapshot.workspace]
  BY DEF TableOf, projectSessionEvent, Bumped, MovedEvents
<1> QED BY <1>1 DEF Apply, Tables, TablesType, Database

(* The rows of the session without its own.                                *)
RowsOf(t) == [t EXCEPT !.session = None]

LEMMA ApplyTyped ==
  ASSUME NEW t \in TablesType, t.session \in SessionRow, NEW e \in LaterEvents
  PROVE  /\ Apply(t, e) \in TablesType
         /\ Apply(t, e).session \in SessionRow
         /\ Apply(t, e).session.version = t.session.version + 1
<1>1. Bumped(t.session) \in SessionRow /\ Bumped(t.session).version = t.session.version + 1
  BY DEF Bumped, SessionRow
<1>2. /\ t.runs \in Row(Runs, RunRow) /\ t.messages \in Row(Messages, MessageRow)
      /\ t.calls \in Row(Calls, CallRow) /\ t.uses \in Row(Uses, UseRow)
      /\ t.requests \in Row(Requests, AskedRow) /\ t.grants \in SUBSET Resources
  BY DEF TablesType
<1>3. CASE e \in RunEvents
  <2>1. [t.runs EXCEPT ![e.id] = e.snapshot] \in Row(Runs, RunRow)
    BY <1>2, <1>3 DEF RunEvents, Row
  <2>2. Apply(t, e) \in TablesType /\ Apply(t, e).session = Bumped(t.session)
    <3>1. Apply(t, e).session = Bumped(t.session)
      BY <1>3, ApplyRun DEF Database
    <3>2. Apply(t, e) \in TablesType
      BY <1>1, <1>2, <1>3, <2>1, ApplyRun, DatabaseTyped
    <3> QED BY <3>1, <3>2
  <2> QED BY <1>1, <2>2
<1>4. CASE e \in MessageEvents
  <2>1. [t.messages EXCEPT ![e.id] = e.snapshot] \in Row(Messages, MessageRow)
    BY <1>2, <1>4 DEF MessageEvents, Row
  <2>2. Apply(t, e) \in TablesType /\ Apply(t, e).session = Bumped(t.session)
    <3>1. Apply(t, e).session = Bumped(t.session)
      BY <1>4, ApplyMessage DEF Database
    <3>2. Apply(t, e) \in TablesType
      BY <1>1, <1>2, <1>4, <2>1, ApplyMessage, DatabaseTyped
    <3> QED BY <3>1, <3>2
  <2> QED BY <1>1, <2>2
<1>5. CASE e \in CallEvents
  <2>1. [t.calls EXCEPT ![e.id] = e.snapshot] \in Row(Calls, CallRow)
    BY <1>2, <1>5 DEF CallEvents, Row
  <2>2. Apply(t, e) \in TablesType /\ Apply(t, e).session = Bumped(t.session)
    <3>1. Apply(t, e).session = Bumped(t.session)
      BY <1>5, ApplyCall DEF Database
    <3>2. Apply(t, e) \in TablesType
      BY <1>1, <1>2, <1>5, <2>1, ApplyCall, DatabaseTyped
    <3> QED BY <3>1, <3>2
  <2> QED BY <1>1, <2>2
<1>6. CASE e \in UseEvents
  <2>1. [t.uses EXCEPT ![e.id] = e.snapshot] \in Row(Uses, UseRow)
    BY <1>2, <1>6 DEF UseEvents, Row
  <2>2. Apply(t, e) \in TablesType /\ Apply(t, e).session = Bumped(t.session)
    <3>1. Apply(t, e).session = Bumped(t.session)
      BY <1>6, ApplyUse DEF Database
    <3>2. Apply(t, e) \in TablesType
      BY <1>1, <1>2, <1>6, <2>1, ApplyUse, DatabaseTyped
    <3> QED BY <3>1, <3>2
  <2> QED BY <1>1, <2>2
<1>7. CASE e \in RequestEvents
  <2>1. [t.requests EXCEPT ![e.id] = e.snapshot] \in Row(Requests, AskedRow)
    BY <1>2, <1>7 DEF RequestEvents, Row
  <2>2. Apply(t, e) \in TablesType /\ Apply(t, e).session = Bumped(t.session)
    <3>1. Apply(t, e).session = Bumped(t.session)
      BY <1>7, ApplyRequest DEF Database
    <3>2. Apply(t, e) \in TablesType
      BY <1>1, <1>2, <1>7, <2>1, ApplyRequest, DatabaseTyped
    <3> QED BY <3>1, <3>2
  <2> QED BY <1>1, <2>2
<1>8. CASE e \in GrantEvents
  <2> DEFINE granted == t.grants \cup {e.id}
  <2>1. granted \in SUBSET Resources
    BY <1>2, <1>8 DEF GrantEvents
  <2>2. Apply(t, e) = Database(Bumped(t.session), t.runs, t.messages, t.calls, t.uses,
                               t.requests, granted)
    BY <1>8, ApplyGrant
  <2> HIDE DEF granted
  <2>3. Apply(t, e).session = Bumped(t.session)
    BY <2>2 DEF Database
  <2>4. Apply(t, e) \in TablesType
    BY <1>1, <1>2, <2>1, <2>2, DatabaseTyped
  <2> QED BY <1>1, <2>3, <2>4
<1>9. CASE e \in RenamedEvents
  <2>1. [Bumped(t.session) EXCEPT !.title = e.snapshot.title] \in SessionRow
    BY <1>1, <1>9 DEF SessionRow, RenamedEvents
  <2>2. [Bumped(t.session) EXCEPT !.title = e.snapshot.title].version = t.session.version + 1
    BY <1>1, <1>9 DEF SessionRow
  <2>3. Apply(t, e).session = [Bumped(t.session) EXCEPT !.title = e.snapshot.title]
    BY <1>9, ApplyRename DEF Database
  <2>4. Apply(t, e) \in TablesType
    BY <1>2, <1>9, <2>1, ApplyRename, DatabaseTyped
  <2> QED BY <2>1, <2>2, <2>3, <2>4
<1>10. CASE e \in MovedEvents
  <2>1. [Bumped(t.session) EXCEPT !.workspace = e.snapshot.workspace] \in SessionRow
    BY <1>1, <1>10 DEF SessionRow, MovedEvents
  <2>2. [Bumped(t.session) EXCEPT !.workspace = e.snapshot.workspace].version = t.session.version + 1
    BY <1>1, <1>10 DEF SessionRow
  <2>3. Apply(t, e).session = [Bumped(t.session) EXCEPT !.workspace = e.snapshot.workspace]
    BY <1>10, ApplyMove DEF Database
  <2>4. Apply(t, e) \in TablesType
    BY <1>2, <1>10, <2>1, ApplyMove, DatabaseTyped
  <2> QED BY <2>1, <2>2, <2>3, <2>4
<1> QED BY <1>3, <1>4, <1>5, <1>6, <1>7, <1>8, <1>9, <1>10 DEF LaterEvents

LEMMA RowsAreSame ==
  ASSUME NEW a \in TablesType, NEW b \in TablesType
  PROVE  RowsOf(a) = RowsOf(b) <=>
           /\ a.runs = b.runs /\ a.messages = b.messages /\ a.calls = b.calls
           /\ a.uses = b.uses /\ a.requests = b.requests /\ a.grants = b.grants
  BY DEF RowsOf, TablesType

LEMMA ApplySession ==
  ASSUME NEW t \in TablesType, t.session \in SessionRow, NEW e \in LaterEvents
  PROVE  Apply(t, e).session = projectSessionEvent(t.session, e)
<1>1. CASE e \in RunEvents \cup MessageEvents \cup CallEvents \cup UseEvents
              \cup RequestEvents \cup GrantEvents
  <2>1. projectSessionEvent(t.session, e) = Bumped(t.session)
    BY <1>1 DEF projectSessionEvent, Bumped, RunEvents, MessageEvents, CallEvents, UseEvents,
                RequestEvents, GrantEvents
  <2>2. Apply(t, e).session = Bumped(t.session)
    BY <1>1, ApplyRun, ApplyMessage, ApplyCall, ApplyUse, ApplyRequest, ApplyGrant DEF Database
  <2> QED BY <2>1, <2>2
<1>2. CASE e \in RenamedEvents
  <2>1. projectSessionEvent(t.session, e) = [Bumped(t.session) EXCEPT !.title = e.snapshot.title]
    BY <1>2 DEF projectSessionEvent, Bumped, RenamedEvents
  <2>2. Apply(t, e).session = [Bumped(t.session) EXCEPT !.title = e.snapshot.title]
    BY <1>2, ApplyRename DEF Database
  <2> QED BY <2>1, <2>2
<1>3. CASE e \in MovedEvents
  <2>1. projectSessionEvent(t.session, e)
          = [Bumped(t.session) EXCEPT !.workspace = e.snapshot.workspace]
    BY <1>3 DEF projectSessionEvent, Bumped, MovedEvents
  <2>2. Apply(t, e).session = [Bumped(t.session) EXCEPT !.workspace = e.snapshot.workspace]
    BY <1>3, ApplyMove DEF Database
  <2> QED BY <2>1, <2>2
<1> QED BY <1>1, <1>2, <1>3 DEF LaterEvents

(* Two copies of the rows stay the same under an event.                    *)
LEMMA ApplyRows ==
  ASSUME NEW a \in TablesType, a.session \in SessionRow,
         NEW b \in TablesType, b.session \in SessionRow,
         RowsOf(a) = RowsOf(b), NEW e \in LaterEvents
  PROVE  RowsOf(Apply(a, e)) = RowsOf(Apply(b, e))
<1>1. /\ a.runs = b.runs /\ a.messages = b.messages /\ a.calls = b.calls
      /\ a.uses = b.uses /\ a.requests = b.requests /\ a.grants = b.grants
  BY RowsAreSame
<1> DEFINE x == Apply(a, e)
           y == Apply(b, e)
<1>2. x \in TablesType /\ y \in TablesType
  BY ApplyTyped
<1>3. SUFFICES
        /\ x.runs = y.runs /\ x.messages = y.messages /\ x.calls = y.calls
        /\ x.uses = y.uses /\ x.requests = y.requests /\ x.grants = y.grants
  <2> HIDE DEF x, y
  <2>1. RowsOf(x) = RowsOf(y)
    BY <1>2, <1>3, RowsAreSame
  <2> QED BY <2>1 DEF x, y
<1>4. CASE e \in RunEvents
  BY <1>1, <1>4, ApplyRun DEF Database
<1>5. CASE e \in MessageEvents
  BY <1>1, <1>5, ApplyMessage DEF Database
<1>6. CASE e \in CallEvents
  BY <1>1, <1>6, ApplyCall DEF Database
<1>7. CASE e \in UseEvents
  BY <1>1, <1>7, ApplyUse DEF Database
<1>8. CASE e \in RequestEvents
  BY <1>1, <1>8, ApplyRequest DEF Database
<1>9. CASE e \in GrantEvents
  <2>1. /\ x = Database(Bumped(a.session), a.runs, a.messages,
               a.calls, a.uses, a.requests, a.grants \cup {e.id})
        /\ y = Database(Bumped(b.session), b.runs, b.messages,
               b.calls, b.uses, b.requests, b.grants \cup {e.id})
    BY <1>9, ApplyGrant
  <2> HIDE DEF x, y
  <2> QED BY <1>1, <2>1 DEF Database
<1>10. CASE e \in RenamedEvents
  BY <1>1, <1>10, ApplyRename DEF Database
<1>11. CASE e \in MovedEvents
  BY <1>1, <1>11, ApplyMove DEF Database
<1> QED BY <1>4, <1>5, <1>6, <1>7, <1>8, <1>9, <1>10, <1>11 DEF LaterEvents

(* So do two session rows that differ in the workspace.                    *)
LEMMA SessionsAgree ==
  ASSUME NEW s \in SessionRow, NEW r \in SessionRow, s.title = r.title,
         s.version = r.version, NEW e \in LaterEvents
  PROVE  LET x == projectSessionEvent(s, e)
             y == projectSessionEvent(r, e)
         IN /\ x.title = y.title /\ x.version = y.version
            /\ \/ x.workspace = y.workspace
               \/ x.workspace = s.workspace /\ y.workspace = r.workspace
<1>1. e.type # "session.created"
  BY DEF LaterEvents, RenamedEvents, MovedEvents, RunEvents, MessageEvents, CallEvents,
         UseEvents, RequestEvents, GrantEvents
<1>2. CASE e.type = "session.renamed"
  BY <1>2 DEF projectSessionEvent, SessionRow
<1>3. CASE e.type = "session.moved"
  BY <1>3 DEF projectSessionEvent, SessionRow
<1>4. CASE e.type \notin {"session.renamed", "session.moved"}
  BY <1>1, <1>4 DEF projectSessionEvent, SessionRow
<1> QED BY <1>2, <1>3, <1>4

(* An event that is no rename leaves the title as it is.                   *)
LEMMA TitleKept ==
  ASSUME NEW s \in SessionRow, NEW e \in LaterEvents \ RenamedEvents
  PROVE  projectSessionEvent(s, e).title = s.title
<1>1. e.type # "session.created" /\ e.type # "session.renamed"
  BY DEF LaterEvents, RenamedEvents, MovedEvents, RunEvents, MessageEvents, CallEvents,
         UseEvents, RequestEvents, GrantEvents
<1> QED BY <1>1 DEF projectSessionEvent, SessionRow

LEMMA AcceptsAgrees ==
  ASSUME NEW a \in TablesType, NEW b \in TablesType, RowsOf(a) = RowsOf(b),
         NEW e \in LaterEvents, NEW n, Accepts(a, e, n)
  PROVE  Accepts(b, e, n)
<1>1. /\ a.runs = b.runs /\ a.messages = b.messages /\ a.calls = b.calls
      /\ a.uses = b.uses /\ a.requests = b.requests /\ a.grants = b.grants
  BY RowsAreSame
<1> QED BY <1>1 DEF Accepts

LEMMA GrantsAgree ==
  ASSUME NEW a \in TablesType, NEW b \in TablesType, RowsOf(a) = RowsOf(b),
         ProjectSessionPermissionGrants(a)
  PROVE  ProjectSessionPermissionGrants(b)
  BY RowsAreSame DEF ProjectSessionPermissionGrants

-----------------------------------------------------------------------------
(* What a database knows of its session. *)

(* The rows are those of the stream, whether it projects or not.           *)
Recorded(d) ==
  /\ d \in [stream : Seq(Events), tables : TablesType]
  /\ d.stream # <<>>
  /\ d.tables.session \in SessionRow
  /\ ProjectSessionAggregate(d.stream) \in TablesType
  /\ ProjectSessionAggregate(d.stream).session \in SessionRow
  /\ RowsOf(d.tables) = RowsOf(ProjectSessionAggregate(d.stream))
  /\ ProjectSession(d.stream) = ProjectSessionAggregate(d.stream).session

(* The session row is that of the stream, but for a workspace not in ws.   *)
SameButWorkspace(s, r, ws) ==
  /\ s.title = r.title
  /\ s.version = r.version
  /\ s.workspace = r.workspace \/ (s.workspace = None /\ r.workspace \notin ws)

(* The stream projects, and the version of the session is its length.      *)
Sound(d, ws) ==
  /\ Recorded(d)
  /\ d.tables.session.version = Len(d.stream)
  /\ Projects(d.stream)
  /\ SameButWorkspace(d.tables.session, ProjectSessionAggregate(d.stream).session, ws)

LEMMA ReplayOfAppend ==
  ASSUME NEW s \in Seq(Events), NEW e \in Events
  PROVE  LET longer == Append(s, e)
         IN /\ \A i \in 0..Len(s) : Replay(longer)[i] = Replay(s)[i]
            /\ Replay(longer)[Len(s) + 1] = Apply(Replay(s)[Len(s)], e)
<1> DEFINE longer == Append(s, e)
<1>1. /\ Len(s) \in Nat /\ Len(longer) = Len(s) + 1
      /\ \A i \in 1..Len(s) : longer[i] = s[i]
      /\ longer[Len(s) + 1] = e
  OBVIOUS
<1>2. Replays(Replay(s), s, Len(s)) /\ Replays(Replay(longer), longer, Len(s) + 1)
  <2>1. Replays(Replay(s), s, Len(s))
    BY <1>1, ReplayIs
  <2> HIDE DEF longer
  <2>2. Len(longer) \in Nat
    BY <1>1
  <2>3. Replays(Replay(longer), longer, Len(longer))
    BY <2>2, ReplayIs
  <2> QED BY <1>1, <2>1, <2>3
<1> DEFINE G == {i \in 0..Len(s) : Replay(longer)[i] = Replay(s)[i]}
<1> HIDE DEF longer
<1>3. 0 \in G
  BY <1>1, <1>2 DEF Replays
<1>4. \A i \in 1..Len(s) : i - 1 \in G => i \in G
  BY <1>1, <1>2 DEF Replays
<1>5. \A i \in 0..Len(s) : i \in G
  <2> HIDE DEF G
  <2> QED BY <1>1, <1>3, <1>4, IntervalInduction
<1>6. Replay(longer)[Len(s) + 1] = Apply(Replay(longer)[Len(s)], e)
  BY <1>1, <1>2 DEF Replays
<1>7. Len(s) \in G
  BY <1>1, <1>5
<1> QED BY <1>1, <1>5, <1>6, <1>7 DEF longer

LEMMA ProjectOfAppend ==
  ASSUME NEW s \in Seq(Events), NEW e \in Events
  PROVE  ProjectSession(Append(s, e)) = projectSessionEvent(ProjectSession(s), e)
<1> DEFINE longer == Append(s, e)
<1>1. /\ Len(s) \in Nat /\ Len(longer) = Len(s) + 1
      /\ \A i \in 1..Len(s) : longer[i] = s[i]
      /\ longer[Len(s) + 1] = e
  OBVIOUS
<1>2. PICK a : SessionAfter(a, s, Len(s)) /\ ProjectSession(s) = a[Len(s)]
  BY <1>1, ProjectSessionIs
<1> HIDE DEF longer
<1>3. PICK b : SessionAfter(b, longer, Len(longer)) /\ ProjectSession(longer) = b[Len(longer)]
  <2>1. Len(longer) \in Nat
    BY <1>1
  <2> QED BY <2>1, ProjectSessionIs
<1> DEFINE G == {i \in 0..Len(s) : b[i] = a[i]}
<1>4. 0 \in G
  BY <1>1, <1>2, <1>3 DEF SessionAfter
<1>5. \A i \in 1..Len(s) : i - 1 \in G => i \in G
  BY <1>1, <1>2, <1>3 DEF SessionAfter
<1>6. \A i \in 0..Len(s) : i \in G
  <2> HIDE DEF G
  <2> QED BY <1>1, <1>4, <1>5, IntervalInduction
<1>7. Len(s) \in G
  BY <1>1, <1>6
<1>8. b[Len(s) + 1] = projectSessionEvent(b[Len(s)], e)
  BY <1>1, <1>3 DEF SessionAfter
<1> QED BY <1>1, <1>2, <1>3, <1>7, <1>8 DEF longer

(* One more event in the stream, with its row in the tables.               *)
Longer(d, e) == [stream |-> Append(d.stream, e), tables |-> Apply(d.tables, e)]

LEMMA LongerRecorded ==
  ASSUME NEW d, Recorded(d), NEW e \in LaterEvents
  PROVE  /\ Recorded(Longer(d, e))
         /\ ProjectSessionAggregate(Append(d.stream, e))
              = Apply(ProjectSessionAggregate(d.stream), e)
         /\ Longer(d, e).tables.session = projectSessionEvent(d.tables.session, e)
<1> DEFINE s == d.stream
           t == d.tables
           last == ProjectSessionAggregate(s)
           longer == Append(s, e)
           next == ProjectSessionAggregate(longer)
<1>1. /\ s \in Seq(Events) /\ t \in TablesType /\ t.session \in SessionRow
      /\ last \in TablesType /\ last.session \in SessionRow /\ RowsOf(t) = RowsOf(last)
      /\ ProjectSession(s) = last.session /\ e \in Events
  BY DEF Recorded, Events
<1>2. /\ longer \in Seq(Events) /\ longer # <<>> /\ Len(longer) = Len(s) + 1
      /\ Len(s) \in Nat
  BY <1>1
<1>3. next = Apply(last, e)
  BY <1>1, <1>2, ReplayOfAppend DEF ProjectSessionAggregate
<1>4. ProjectSession(longer) = projectSessionEvent(last.session, e)
  BY <1>1, ProjectOfAppend
<1> HIDE DEF s, t, last, longer, next
<1>5. /\ Apply(t, e) \in TablesType /\ Apply(t, e).session \in SessionRow
      /\ next \in TablesType /\ next.session \in SessionRow
  BY <1>1, <1>3, ApplyTyped
<1>6. RowsOf(Apply(t, e)) = RowsOf(next)
  BY <1>1, <1>3, ApplyRows
<1>7. next.session = projectSessionEvent(last.session, e)
  BY <1>1, <1>3, ApplySession
<1>8. Apply(t, e).session = projectSessionEvent(t.session, e)
  BY <1>1, ApplySession
<1>9. Longer(d, e) = [stream |-> longer, tables |-> Apply(t, e)]
  BY DEF Longer, longer, s, t
<1>10. Recorded(Longer(d, e))
  BY <1>2, <1>4, <1>5, <1>6, <1>7, <1>9 DEF Recorded, next
<1> QED BY <1>3, <1>8, <1>9, <1>10 DEF s, t, last, longer, next

LEMMA LongerSound ==
  ASSUME NEW d, NEW ws, Sound(d, ws), NEW e \in LaterEvents,
         Accepts(d.tables, e, Len(d.stream) + 1),
         ProjectSessionPermissionGrants(Apply(d.tables, e))
  PROVE  Sound(Longer(d, e), ws)
<1> DEFINE s == d.stream
           t == d.tables
           last == ProjectSessionAggregate(s)
           longer == Append(s, e)
           next == ProjectSessionAggregate(longer)
<1>1. /\ s \in Seq(Events) /\ t \in TablesType /\ t.session \in SessionRow /\ s # <<>>
      /\ t.session.version = Len(s) /\ Projects(s) /\ RowsOf(t) = RowsOf(last)
      /\ last \in TablesType /\ last.session \in SessionRow /\ e \in Events
      /\ SameButWorkspace(t.session, last.session, ws)
  BY DEF Sound, Recorded, Events
<1>2. /\ Recorded(Longer(d, e)) /\ next = Apply(last, e)
      /\ Longer(d, e).stream = longer /\ Longer(d, e).tables = Apply(t, e)
      /\ Apply(t, e).session = projectSessionEvent(t.session, e)
  BY LongerRecorded DEF Sound, Longer
<1>3. /\ Len(s) \in Nat /\ longer \in Seq(Events) /\ Len(longer) = Len(s) + 1
      /\ longer # <<>>
      /\ \A i \in 1..Len(s) : longer[i] = s[i]
      /\ longer[Len(s) + 1] = e
  BY <1>1
<1>4. /\ \A i \in 0..Len(s) : Replay(longer)[i] = Replay(s)[i]
      /\ last = Replay(s)[Len(s)]
      /\ next = Replay(longer)[Len(longer)]
  BY <1>1, <1>3, ReplayOfAppend DEF ProjectSessionAggregate
<1> HIDE DEF s, t, last, longer, next
<1>5. next \in TablesType /\ RowsOf(Apply(t, e)) = RowsOf(next)
  BY <1>2 DEF Recorded, next
<1>6. /\ Apply(t, e) \in TablesType /\ Apply(t, e).session.version = Len(s) + 1
  BY <1>1, ApplyTyped
<1>7. SameButWorkspace(Apply(t, e).session, next.session, ws)
  <2>1. next.session = projectSessionEvent(last.session, e)
    BY <1>1, <1>2, ApplySession
  <2> DEFINE x == projectSessionEvent(t.session, e)
             y == projectSessionEvent(last.session, e)
  <2>2. /\ x.title = y.title /\ x.version = y.version
        /\ \/ x.workspace = y.workspace
           \/ x.workspace = t.session.workspace /\ y.workspace = last.session.workspace
    BY <1>1, SessionsAgree DEF SameButWorkspace
  <2> QED BY <1>1, <1>2, <2>1, <2>2 DEF SameButWorkspace
<1>8. Projects(longer)
  <2>1. Created(longer)
    <3>1. Created(s) /\ Len(s) # 0
      BY <1>1, <1>3 DEF Projects
    <3>2. e.type # "session.created"
      BY DEF LaterEvents, RenamedEvents, MovedEvents, RunEvents, MessageEvents, CallEvents,
             UseEvents, RequestEvents, GrantEvents
    <3> QED BY <1>3, <3>1, <3>2 DEF Created
  <2>2. \A n \in 1..Len(s) : Accepts(Replay(longer)[n - 1], longer[n], n)
    <3>1. \A n \in 1..Len(s) : Accepts(Replay(s)[n - 1], s[n], n)
      BY <1>1 DEF Projects
    <3>2. \A n \in 1..Len(s) : n - 1 \in 0..Len(s)
      BY <1>3
    <3> QED BY <1>3, <1>4, <3>1, <3>2
  <2>3. Accepts(last, e, Len(s) + 1)
    BY <1>1, AcceptsAgrees DEF s, t
  <2>4. \A n \in 1..Len(longer) : Accepts(Replay(longer)[n - 1], longer[n], n)
    <3> TAKE n \in 1..Len(longer)
    <3>1. CASE n \in 1..Len(s)
      BY <2>2, <3>1
    <3>2. CASE n = Len(s) + 1
      <4>1. n - 1 = Len(s) /\ Len(s) \in 0..Len(s)
        BY <1>3, <3>2
      <4>2. Replay(longer)[n - 1] = last
        BY <1>4, <4>1
      <4> QED BY <1>3, <2>3, <3>2, <4>2
    <3> QED BY <1>3, <3>1, <3>2
  <2>5. ProjectSessionPermissionGrants(next)
    BY <1>5, <1>6, GrantsAgree DEF t
  <2> QED BY <1>3, <1>4, <2>1, <2>4, <2>5 DEF Projects
<1> QED BY <1>2, <1>3, <1>6, <1>7, <1>8 DEF Sound, next

(* No request of t is gone from u, nor asks for something else.            *)
KeepsRequests(t, u) ==
  \A q \in Requests : t.requests[q] # None =>
    u.requests[q] # None /\ u.requests[q].resources = t.requests[q].resources

(* An "always" that was answered asked for the resource.                   *)
Allowed(t, resource) ==
  \E q \in Requests : /\ t.requests[q] # None
                      /\ t.requests[q].response = "always"
                      /\ resource \in ResourcesOf(t.requests[q])

LEMMA RowsTyped ==
  ASSUME NEW t \in TablesType
  PROVE  /\ t.runs \in Row(Runs, RunRow) /\ t.messages \in Row(Messages, MessageRow)
         /\ t.calls \in Row(Calls, CallRow) /\ t.uses \in Row(Uses, UseRow)
         /\ t.requests \in Row(Requests, AskedRow) /\ t.grants \in SUBSET Resources
         /\ \A r \in Runs : t.runs[r] # None => t.runs[r] \in RunRow
         /\ \A m \in Messages : t.messages[m] # None => t.messages[m] \in MessageRow
         /\ \A c \in Calls : t.calls[c] # None => t.calls[c] \in CallRow
         /\ \A u \in Uses : t.uses[u] # None => t.uses[u] \in UseRow
         /\ \A q \in Requests : t.requests[q] # None =>
              /\ t.requests[q] \in RequestRow
              /\ t.requests[q].status = "pending" => t.requests[q].response = ""
<1>1. /\ t.runs \in Row(Runs, RunRow) /\ t.messages \in Row(Messages, MessageRow)
      /\ t.calls \in Row(Calls, CallRow) /\ t.uses \in Row(Uses, UseRow)
      /\ t.requests \in Row(Requests, AskedRow) /\ t.grants \in SUBSET Resources
  BY DEF TablesType
<1> QED BY <1>1 DEF Row, AskedRow

LEMMA EventTypes ==
  /\ \A e \in RunEvents : TableOf(e.type) = "runs"
  /\ \A e \in MessageEvents : TableOf(e.type) = "messages"
  /\ \A e \in CallEvents : TableOf(e.type) = "calls"
  /\ \A e \in UseEvents : TableOf(e.type) = "uses"
  /\ \A e \in RequestEvents : TableOf(e.type) = "requests"
  /\ \A e \in GrantEvents : TableOf(e.type) = "grants"
  /\ \A e \in RenamedEvents \cup MovedEvents : TableOf(e.type) = "session"
  BY DEF TableOf, RunEvents, MessageEvents, CallEvents, UseEvents, RequestEvents, GrantEvents,
         RenamedEvents, MovedEvents

LEMMA RequestsKept ==
  ASSUME NEW t \in TablesType, t.session \in SessionRow, NEW e \in LaterEvents, NEW n,
         e \in RequestEvents => Accepts(t, e, n)
  PROVE  KeepsRequests(t, Apply(t, e))
<1>1. CASE e \in RequestEvents
  <2>1. Apply(t, e).requests = [t.requests EXCEPT ![e.id] = e.snapshot]
    BY <1>1, ApplyRequest DEF Database
  <2>2. ProjectSessionPermissionRequests(t.requests, e)
    BY <1>1, EventTypes DEF Accepts
  <2>3. e.id \in Requests /\ e.snapshot \in RequestRow /\ t.requests \in Row(Requests, AskedRow)
    BY <1>1, RowsTyped DEF RequestEvents, AskedRow
  <2>4. e.snapshot # None
    BY <2>3, StoresAssumption
  <2> QED BY <2>1, <2>2, <2>3, <2>4 DEF KeepsRequests, ProjectSessionPermissionRequests, Row
<1>2. CASE e \notin RequestEvents
  <2>1. Apply(t, e).requests = t.requests
    BY <1>2, ApplyRun, ApplyMessage, ApplyCall, ApplyUse, ApplyGrant, ApplyRename, ApplyMove
       DEF LaterEvents, Database
  <2> QED BY <2>1 DEF KeepsRequests
<1> QED BY <1>1, <1>2

LEMMA GrantsKept ==
  ASSUME NEW t \in TablesType, t.session \in SessionRow, NEW e \in LaterEvents, NEW n,
         Accepts(t, e, n), e \in GrantEvents => Allowed(t, e.id),
         ProjectSessionPermissionGrants(t)
  PROVE  ProjectSessionPermissionGrants(Apply(t, e))
<1>1. CASE e \in RequestEvents
  <2>1. /\ Apply(t, e).requests = [t.requests EXCEPT ![e.id] = e.snapshot]
        /\ Apply(t, e).grants = t.grants
    BY <1>1, ApplyRequest DEF Database
  <2>2. ProjectSessionPermissionRequests(t.requests, e)
    BY <1>1, EventTypes DEF Accepts
  <2>3. e.id \in Requests /\ t.requests \in Row(Requests, AskedRow)
    BY <1>1, RowsTyped DEF RequestEvents
  <2>4. t.requests[e.id] # None => t.requests[e.id].response = ""
    BY <2>2, <2>3, RowsTyped DEF ProjectSessionPermissionRequests
  <2>5. \A q \in Requests : (t.requests[q] # None /\ t.requests[q].response = "always") =>
          Apply(t, e).requests[q] = t.requests[q]
    BY <2>1, <2>3, <2>4 DEF Row
  <2> QED BY <2>1, <2>5 DEF ProjectSessionPermissionGrants
<1>2. CASE e \in GrantEvents
  <2>1. Apply(t, e).requests = t.requests /\ Apply(t, e).grants = t.grants \cup {e.id}
    BY <1>2, ApplyGrant DEF Database
  <2> QED BY <1>2, <2>1 DEF ProjectSessionPermissionGrants, Allowed
<1>3. CASE e \notin RequestEvents \cup GrantEvents
  <2>1. Apply(t, e).requests = t.requests /\ Apply(t, e).grants = t.grants
    BY <1>3, ApplyRun, ApplyMessage, ApplyCall, ApplyUse, ApplyRename, ApplyMove
       DEF LaterEvents, Database
  <2> QED BY <2>1 DEF ProjectSessionPermissionGrants
<1> QED BY <1>1, <1>2, <1>3

LEMMA SoundTyped ==
  ASSUME NEW d, NEW ws, Sound(d, ws)
  PROVE  /\ d.stream \in Seq(Events) /\ d.stream # <<>> /\ Len(d.stream) \in Nat
         /\ d.tables \in TablesType /\ d.tables.session \in SessionRow
         /\ d.tables.session.version = Len(d.stream)
         /\ d.tables.session # None /\ HasSession(d)
         /\ ProjectSessionPermissionGrants(d.tables)
<1>1. /\ d.stream \in Seq(Events) /\ d.stream # <<>>
      /\ d.tables \in TablesType /\ d.tables.session \in SessionRow
      /\ ProjectSessionAggregate(d.stream) \in TablesType
      /\ RowsOf(d.tables) = RowsOf(ProjectSessionAggregate(d.stream))
      /\ Projects(d.stream) /\ d.tables.session.version = Len(d.stream)
  BY DEF Sound, Recorded
<1>2. d.tables.session # None
  BY <1>1, StoresAssumption
<1>3. ProjectSessionPermissionGrants(ProjectSessionAggregate(d.stream))
  BY <1>1 DEF Projects, ProjectSessionAggregate
<1>4. ProjectSessionPermissionGrants(d.tables)
  BY <1>1, <1>3, GrantsAgree
<1> QED BY <1>1, <1>2, <1>4 DEF HasSession

(* What a write may make of a sound database.                              *)
Fits(d, x, ws) ==
  /\ Sound(x, ws)
  /\ x.tables.session.title = d.tables.session.title
  /\ x.tables.session.version >= d.tables.session.version
  /\ KeepsRequests(d.tables, x.tables)

LEMMA FitsSelf ==
  ASSUME NEW d, NEW ws, Sound(d, ws)
  PROVE  Fits(d, d, ws)
<1>1. d.tables.session.version \in Nat
  BY SoundTyped
<1> QED BY <1>1 DEF Fits, KeepsRequests

LEMMA FitsFits ==
  ASSUME NEW d, NEW x, NEW y, NEW ws, Sound(d, ws), Fits(d, x, ws), Fits(x, y, ws)
  PROVE  Fits(d, y, ws)
<1>1. /\ d.tables.session.version \in Nat /\ x.tables.session.version \in Nat
      /\ y.tables.session.version \in Nat
  BY SoundTyped DEF Fits
<1> QED BY <1>1 DEF Fits, KeepsRequests

LEMMA AppendIs ==
  ASSUME NEW d, NEW ws, Sound(d, ws), NEW e
  PROVE  appendAggregateEventTx(d, e) = Longer(d, e)
  BY SoundTyped DEF appendAggregateEventTx, Longer

LEMMA AppendFits ==
  ASSUME NEW d, NEW ws, Sound(d, ws), NEW e \in LaterEvents,
         Accepts(d.tables, e, Len(d.stream) + 1),
         e \in GrantEvents => Allowed(d.tables, e.id)
  PROVE  /\ appendAggregateEventTx(d, e) = Longer(d, e)
         /\ Sound(Longer(d, e), ws)
         /\ Longer(d, e).tables.session.version = d.tables.session.version + 1
         /\ KeepsRequests(d.tables, Longer(d, e).tables)
         /\ e \notin RenamedEvents => Fits(d, Longer(d, e), ws)
<1>1. /\ d.tables \in TablesType /\ d.tables.session \in SessionRow
      /\ d.tables.session.version = Len(d.stream) /\ Len(d.stream) \in Nat
      /\ ProjectSessionPermissionGrants(d.tables)
  BY SoundTyped
<1>2. appendAggregateEventTx(d, e) = Longer(d, e)
  BY AppendIs
<1>3. Sound(Longer(d, e), ws)
  BY <1>1, GrantsKept, LongerSound
<1>4. Longer(d, e).tables = Apply(d.tables, e)
  BY DEF Longer
<1>5. Apply(d.tables, e).session.version = d.tables.session.version + 1
  BY <1>1, ApplyTyped
<1>6. KeepsRequests(d.tables, Apply(d.tables, e))
  BY <1>1, RequestsKept
<1>7. e \notin RenamedEvents => Apply(d.tables, e).session.title = d.tables.session.title
  BY <1>1, ApplySession, TitleKept
<1> QED BY <1>1, <1>2, <1>3, <1>4, <1>5, <1>6, <1>7 DEF Fits

-----------------------------------------------------------------------------
(* Every call of the SQLite store on a sound database. *)

LEMMA RenameIs ==
  ASSUME NEW d, NEW ws, Sound(d, ws), NEW t \in Titles, NEW expected
  PROVE  LET x == RenameSession(d, t, expected)
         IN \/ x = d
            \/ /\ x = Longer(d, NewSessionRenamedEvent(t))
               /\ Sound(x, ws)
               /\ x.tables.session.version = d.tables.session.version + 1
               /\ KeepsRequests(d.tables, x.tables)
               /\ d.tables.session.version = expected
<1> DEFINE e == NewSessionRenamedEvent(t)
<1>1. e \in RenamedEvents
  BY DEF NewSessionRenamedEvent, Event, RenamedEvents
<1>2. e \in LaterEvents /\ e \notin GrantEvents
  <2>1. \A g \in GrantEvents : g.type = "session.permission_grant.created"
    BY DEF GrantEvents
  <2>2. e.type = "session.renamed"
    BY DEF NewSessionRenamedEvent, Event
  <2> QED BY <1>1, <2>1, <2>2 DEF LaterEvents
<1>3. Accepts(d.tables, e, Len(d.stream) + 1)
  BY <1>1, EventTypes DEF Accepts
<1> HIDE DEF e
<1>4. /\ appendAggregateEventTx(d, e) = Longer(d, e)
      /\ Sound(Longer(d, e), ws)
      /\ Longer(d, e).tables.session.version = d.tables.session.version + 1
      /\ KeepsRequests(d.tables, Longer(d, e).tables)
  BY <1>2, <1>3, AppendFits
<1> QED BY <1>4 DEF RenameSession, applySessionMetadataEvent, e

LEMMA MoveFits ==
  ASSUME NEW d, NEW ws, Sound(d, ws), NEW w \in Workspaces \cup {None}, NEW expected
  PROVE  Fits(d, MoveSession(d, w, expected, ws), ws)
<1> DEFINE e == NewSessionMovedEvent(w)
<1>1. e \in MovedEvents /\ e.type = "session.moved"
  BY DEF NewSessionMovedEvent, Event, MovedEvents
<1>2. e \in LaterEvents /\ e \notin GrantEvents /\ e \notin RenamedEvents
  BY <1>1 DEF GrantEvents, RenamedEvents, LaterEvents
<1>3. Accepts(d.tables, e, Len(d.stream) + 1)
  BY <1>1, EventTypes DEF Accepts
<1> HIDE DEF e
<1>4. Fits(d, appendAggregateEventTx(d, e), ws)
  BY <1>2, <1>3, AppendFits
<1>5. Fits(d, d, ws)
  BY FitsSelf
<1> QED BY <1>4, <1>5 DEF MoveSession, applySessionMetadataEvent, e

LEMMA AdmittedSequence ==
  ASSUME NEW d
  PROVE  Cardinality({x \in Runs : HasRun(d, x)}) \in Nat
<1>1. IsFiniteSet({x \in Runs : HasRun(d, x)})
  BY StoresAssumption, FS_Subset
<1> QED BY <1>1, FS_CardinalityType

LEMMA AdmittedIsRun ==
  ASSUME NEW d, d.tables.session.version \in Nat, NEW r \in Runs
  PROVE  NewSessionRunAdmittedEvent(r,
           [status |-> "queued",
            sequence |-> 1 + Cardinality({x \in Runs : HasRun(d, x)}),
            admitted |-> d.tables.session.version + 1]) \in RunEvents
<1>1. 1 + Cardinality({x \in Runs : HasRun(d, x)}) \in Nat
  BY AdmittedSequence
<1> DEFINE row == [status |-> "queued",
                   sequence |-> 1 + Cardinality({x \in Runs : HasRun(d, x)}),
                   admitted |-> d.tables.session.version + 1]
<1>2. row \in RunRow
  BY <1>1 DEF RunRow
<1> HIDE DEF row
<1>3. NewSessionRunAdmittedEvent(r, row) \in RunEvents
  BY <1>2 DEF NewSessionRunAdmittedEvent, Event, RunEvents
<1> QED BY <1>3 DEF row

(* The events of a table are renames and grants of no other.               *)
LEMMA RowEvents ==
  ASSUME NEW e \in RunEvents \cup MessageEvents \cup CallEvents \cup UseEvents
                     \cup RequestEvents
  PROVE  e \in LaterEvents /\ e \notin GrantEvents /\ e \notin RenamedEvents
                           /\ e \notin MovedEvents
<1>1. e \in LaterEvents
  BY DEF LaterEvents
<1>2. e.type \notin {"session.permission_grant.created", "session.renamed", "session.moved"}
  BY DEF RunEvents, MessageEvents, CallEvents, UseEvents, RequestEvents
<1>3. e \notin GrantEvents /\ e \notin RenamedEvents /\ e \notin MovedEvents
  BY <1>2 DEF GrantEvents, RenamedEvents, MovedEvents
<1> QED BY <1>1, <1>3

LEMMA AdmitFits ==
  ASSUME NEW d, NEW ws, Sound(d, ws), NEW r \in Runs
  PROVE  Fits(d, AdmitSessionRun(d, r), ws)
<1> DEFINE run == [status |-> "queued",
                   sequence |-> 1 + Cardinality({x \in Runs : HasRun(d, x)}),
                   admitted |-> d.tables.session.version + 1]
           e == NewSessionRunAdmittedEvent(r, run)
<1>1. d.tables.session.version = Len(d.stream) /\ Len(d.stream) \in Nat
  BY SoundTyped
<1>2. e \in RunEvents
  BY <1>1, AdmittedIsRun
<1>3. ASSUME ~HasRun(d, r) PROVE Accepts(d.tables, e, Len(d.stream) + 1)
  <2>1. /\ e.type = "session.run.admitted" /\ e.id = r
        /\ e.snapshot.status = "queued" /\ e.snapshot.admitted = Len(d.stream) + 1
    BY <1>1 DEF NewSessionRunAdmittedEvent, Event
  <2> HIDE DEF e
  <2>2. TableOf(e.type) = "runs"
    BY <1>2, EventTypes
  <2> QED BY <1>3, <2>1, <2>2 DEF Accepts, ProjectSessionRuns, HasRun
<1> HIDE DEF e
<1>4. ~HasRun(d, r) => Fits(d, appendAggregateEventTx(d, e), ws)
  <2>1. e \in LaterEvents /\ e \notin GrantEvents /\ e \notin RenamedEvents
    BY <1>2, RowEvents
  <2> QED BY <1>3, <2>1, AppendFits
<1>5. Fits(d, d, ws)
  BY FitsSelf
<1> QED BY <1>4, <1>5 DEF AdmitSessionRun, e

LEMMA MovedRunIsRun ==
  ASSUME NEW d, d.tables \in TablesType, NEW r \in Runs, HasRun(d, r),
         NEW status \in RunTerminal \cup {"queued", "running"}
  PROVE  LET e == NewSessionRunTransitionEvent(r, [d.tables.runs[r] EXCEPT !.status = status])
         IN /\ e \in RunEvents
            /\ e.type = "session.run.transition" /\ e.id = r
            /\ e.snapshot.status = status
            /\ e.snapshot.sequence = d.tables.runs[r].sequence
            /\ e.snapshot.admitted = d.tables.runs[r].admitted
<1>1. d.tables.runs[r] \in RunRow
  BY RowsTyped DEF HasRun
<1>2. [d.tables.runs[r] EXCEPT !.status = status] \in RunRow
  BY <1>1 DEF RunRow
<1> QED BY <1>1, <1>2 DEF NewSessionRunTransitionEvent, Event, RunEvents, RunRow

LEMMA RunMovesFits ==
  ASSUME NEW d, NEW ws, Sound(d, ws), NEW r \in Runs, HasRun(d, r),
         NEW status \in RunTerminal \cup {"queued", "running"},
         legalProjectedRunTransition(d.tables.runs[r].status, status)
  PROVE  Fits(d, RunMoves(d, r, status), ws)
<1> DEFINE e == NewSessionRunTransitionEvent(r, [d.tables.runs[r] EXCEPT !.status = status])
<1>1. /\ e \in RunEvents /\ e.type = "session.run.transition" /\ e.id = r
      /\ e.snapshot.status = status
      /\ e.snapshot.sequence = d.tables.runs[r].sequence
      /\ e.snapshot.admitted = d.tables.runs[r].admitted
  BY SoundTyped, MovedRunIsRun
<1> HIDE DEF e
<1>2. Accepts(d.tables, e, Len(d.stream) + 1)
  BY <1>1, EventTypes DEF Accepts, ProjectSessionRuns, HasRun
<1>3. e \in LaterEvents /\ e \notin GrantEvents /\ e \notin RenamedEvents
  BY <1>1, RowEvents
<1>4. Fits(d, appendAggregateEventTx(d, e), ws)
  BY <1>2, <1>3, AppendFits
<1> QED BY <1>4 DEF RunMoves, e

LEMMA FirstOfQueue ==
  ASSUME NEW d, d.tables \in TablesType, NEW queued, queued \subseteq Runs, queued # {},
         \A r \in queued : HasRun(d, r)
  PROVE  \E r \in queued :
           \A x \in queued : d.tables.runs[r].sequence <= d.tables.runs[x].sequence
<1> DEFINE T == {d.tables.runs[r].sequence : r \in queued}
<1>1. \A r \in queued : d.tables.runs[r].sequence \in Nat
  BY RowsTyped DEF HasRun, RunRow
<1>2. T \subseteq Nat /\ T # {}
  BY <1>1
<1>3. \E n \in T : \A k \in T : n <= k
  <2> HIDE DEF T
  <2> QED BY <1>2, LeastNat
<1> QED BY <1>3

LEMMA ClaimFits ==
  ASSUME NEW d, NEW ws, Sound(d, ws)
  PROVE  Fits(d, ClaimNextSessionRun(d), ws)
<1> DEFINE queued == WithStatus(d, "queued")
           first == CHOOSE r \in queued :
                      \A x \in queued : d.tables.runs[r].sequence <= d.tables.runs[x].sequence
<1>1. ASSUME queued # {} PROVE Fits(d, RunMoves(d, first, "running"), ws)
  <2>1. queued \subseteq Runs /\ \A r \in queued : HasRun(d, r) /\ d.tables.runs[r].status = "queued"
    BY DEF WithStatus
  <2>2. d.tables \in TablesType
    BY SoundTyped
  <2> HIDE DEF queued
  <2>3. first \in queued
    BY <1>1, <2>1, <2>2, FirstOfQueue
  <2> HIDE DEF first
  <2>4. legalProjectedRunTransition(d.tables.runs[first].status, "running")
    BY <2>1, <2>3 DEF legalProjectedRunTransition
  <2> QED BY <2>1, <2>3, <2>4, RunMovesFits
<1>2. Fits(d, d, ws)
  BY FitsSelf
<1> QED BY <1>1, <1>2 DEF ClaimNextSessionRun

LEMMA SettleFits ==
  ASSUME NEW d, NEW ws, Sound(d, ws), NEW r \in Runs, NEW expected,
         NEW status \in RunTerminal
  PROVE  Fits(d, SettleSessionRun(d, r, expected, status), ws)
<1>1. ASSUME HasRun(d, r), d.tables.runs[r].status = expected,
             expected = "running" \/ (expected = "queued" /\ status = "aborted")
      PROVE  Fits(d, RunMoves(d, r, status), ws)
  <2>1. legalProjectedRunTransition(d.tables.runs[r].status, status)
    BY <1>1 DEF legalProjectedRunTransition
  <2> QED BY <1>1, <2>1, RunMovesFits
<1>2. Fits(d, d, ws)
  BY FitsSelf
<1> QED BY <1>1, <1>2 DEF SettleSessionRun

(* A revision that keeps the parts of the tool uses clears no reference.   *)
LEMMA NothingDropped ==
  ASSUME NEW d, NEW ws, Sound(d, ws), NEW m \in Messages, NEW message,
         d.tables.messages[m] # None, KeepsToolParts(d, m, message)
  PROVE  replaceMessageRevisionTx(d, m, message) = d
<1> DEFINE dropped == d.tables.messages[m].parts \ message.parts
           kept == [u \in Uses |-> IF d.tables.uses[u] # None /\ d.tables.uses[u].part \in dropped
                                   THEN [d.tables.uses[u] EXCEPT !.part = None]
                                   ELSE d.tables.uses[u]]
<1>1. \A u \in Uses : d.tables.uses[u] # None => d.tables.uses[u].part \notin dropped
  BY DEF KeepsToolParts
<1>2. /\ d.tables \in TablesType /\ d \in [stream : Seq(Events), tables : TablesType]
      /\ d.tables.uses \in Row(Uses, UseRow)
  BY SoundTyped, RowsTyped DEF Sound, Recorded
<1>3. kept = d.tables.uses
  BY <1>1, <1>2 DEF Row
<1> HIDE DEF dropped
<1>4. replaceMessageRevisionTx(d, m, message) = [d EXCEPT !.tables.uses = kept]
  BY DEF replaceMessageRevisionTx, dropped
<1>5. [d EXCEPT !.tables.uses = d.tables.uses] = d
  <2>1. [d.tables EXCEPT !.uses = d.tables.uses] = d.tables
    BY <1>2 DEF TablesType
  <2> QED BY <1>2, <2>1
<1> HIDE DEF kept
<1> QED BY <1>3, <1>4, <1>5

LEMMA SaveMessageFits ==
  ASSUME NEW d, NEW ws, Sound(d, ws), NEW m \in Messages, NEW message \in MessageRow,
         KeepsToolParts(d, m, message)
  PROVE  Fits(d, SaveMessage(d, m, message), ws)
<1> DEFINE e == NewSessionMessageSavedEvent(m, message)
<1>1. e \in MessageEvents /\ e.id = m /\ e.snapshot = message
  BY DEF NewSessionMessageSavedEvent, Event, MessageEvents
<1>2. e \in LaterEvents /\ e \notin GrantEvents /\ e \notin RenamedEvents
  BY <1>1, RowEvents
<1> HIDE DEF e
<1>3. ASSUME IF d.tables.messages[m] = None THEN IndexIsFree(d, m, message)
             ELSE /\ sameMessageIdentity(d.tables.messages[m], message)
                  /\ message.revision > d.tables.messages[m].revision
      PROVE  Fits(d, appendAggregateEventTx(d, e), ws)
  <2>1. Accepts(d.tables, e, Len(d.stream) + 1)
    BY <1>1, <1>3, EventTypes DEF Accepts, ProjectSessionMessages, IndexIsFree, StoredOthers,
       sameMessageIdentity
  <2> QED BY <1>2, <2>1, AppendFits
<1>4. Fits(d, d, ws)
  BY FitsSelf
<1>5. CASE d.tables.messages[m] = None
  BY <1>3, <1>4, <1>5 DEF SaveMessage, e
<1>6. CASE d.tables.messages[m] # None
  <2>1. replaceMessageRevisionTx(d, m, message) = d
    BY <1>6, NothingDropped
  <2> QED BY <1>3, <1>4, <1>6, <2>1 DEF SaveMessage, e
<1> QED BY <1>5, <1>6

LEMMA UpsertFits ==
  ASSUME NEW d, NEW ws, Sound(d, ws), NEW c \in Calls, NEW call \in CallRow
  PROVE  Fits(d, UpsertModelCall(d, c, call), ws)
<1> DEFINE kept == IF d.tables.calls[c] # None THEN [d.tables.calls[c] EXCEPT !.status = call.status]
                   ELSE call
           e == NewSessionModelCallSavedEvent(c, kept)
           taken == \E x \in Calls \ {c} : /\ d.tables.calls[x] # None
                                           /\ d.tables.calls[x].run = call.run
                                           /\ d.tables.calls[x].attempt = call.attempt
<1>1. d.tables.calls[c] # None => d.tables.calls[c] \in CallRow
  BY SoundTyped, RowsTyped
<1>2. kept \in CallRow
  BY <1>1 DEF CallRow
<1>3. d.tables.calls[c] # None => /\ kept.run = d.tables.calls[c].run
                                  /\ kept.attempt = d.tables.calls[c].attempt
  BY <1>1 DEF CallRow
<1>4. d.tables.calls[c] = None => kept = call
  OBVIOUS
<1> HIDE DEF kept
<1>5. e \in CallEvents /\ e.id = c /\ e.snapshot = kept
  BY <1>2 DEF NewSessionModelCallSavedEvent, Event, CallEvents
<1>6. e \in LaterEvents /\ e \notin GrantEvents /\ e \notin RenamedEvents
  BY <1>5, RowEvents
<1> HIDE DEF e
<1>7. ASSUME d.tables.calls[c] # None \/ ~taken
      PROVE  Fits(d, appendAggregateEventTx(d, e), ws)
  <2>1. Accepts(d.tables, e, Len(d.stream) + 1)
    BY <1>3, <1>4, <1>5, <1>7, EventTypes DEF Accepts, ProjectSessionModelCalls
  <2> QED BY <1>6, <2>1, AppendFits
<1>8. Fits(d, d, ws)
  BY FitsSelf
<1>9. CASE d.tables.calls[c] # None
  BY <1>7, <1>9 DEF UpsertModelCall, e, kept
<1>10. CASE d.tables.calls[c] = None
  <2>1. UpsertModelCall(d, c, call)
          = IF HasRun(d, call.run) /\ ~taken THEN appendAggregateEventTx(d, e) ELSE d
    BY <1>4, <1>10 DEF UpsertModelCall, e
  <2> QED BY <1>7, <1>8, <2>1
<1> QED BY <1>9, <1>10

LEMMA SaveUseFits ==
  ASSUME NEW d, NEW ws, Sound(d, ws), NEW u \in Uses, NEW use \in UseRow
  PROVE  Fits(d, SaveToolUse(d, u, use), ws)
<1> DEFINE e == NewSessionToolUseSavedEvent(u, use)
<1>1. e \in UseEvents /\ e.id = u /\ e.snapshot = use
  BY DEF NewSessionToolUseSavedEvent, Event, UseEvents
<1>2. e \in LaterEvents /\ e \notin GrantEvents /\ e \notin RenamedEvents
  BY <1>1, RowEvents
<1> HIDE DEF e
<1>3. ASSUME IF d.tables.uses[u] = None
             THEN use.status = "proposed" /\ ~PlaceIsTaken(d, use)
             ELSE /\ sameToolUseIdentity(d.tables.uses[u], use)
                  /\ legalToolUseTransition(d.tables.uses[u].status, use.status)
      PROVE  Fits(d, appendAggregateEventTx(d, e), ws)
  <2>1. Accepts(d.tables, e, Len(d.stream) + 1)
    BY <1>1, <1>3, EventTypes DEF Accepts, ProjectSessionToolUses, sameToolUseIdentity,
       PlaceIsTaken
  <2> QED BY <1>2, <2>1, AppendFits
<1>4. Fits(d, d, ws)
  BY FitsSelf
<1> QED BY <1>3, <1>4 DEF SaveToolUse, e

(* What CreatePermissionRequest appends.                                   *)
Requested(q, list) ==
  NewSessionPermissionRequestEvent(q,
    [status |-> "pending", response |-> "", resources |-> list])

LEMMA RequestedIsRequest ==
  ASSUME NEW q \in Requests, NEW list \in Seq(Resources)
  PROVE  LET e == Requested(q, list)
         IN /\ e \in RequestEvents /\ e.type = "session.permission.requested" /\ e.id = q
            /\ e.snapshot.status = "pending" /\ e.snapshot.resources = list
<1> DEFINE row == [status |-> "pending", response |-> "", resources |-> list]
<1>1. row \in AskedRow
  BY DEF AskedRow, RequestRow
<1>2. row.status = "pending" /\ row.resources = list
  OBVIOUS
<1> HIDE DEF row
<1>3. LET e == NewSessionPermissionRequestEvent(q, row)
      IN /\ e \in RequestEvents /\ e.type = "session.permission.requested" /\ e.id = q
         /\ e.snapshot = row
  BY <1>1 DEF NewSessionPermissionRequestEvent, Event, RequestEvents
<1> QED BY <1>2, <1>3 DEF row, Requested

LEMMA AskFits ==
  ASSUME NEW d, NEW ws, Sound(d, ws), NEW q \in Requests, NEW run, NEW list \in Seq(Resources)
  PROVE  Fits(d, CreatePermissionRequest(d, q, run, list), ws)
<1> DEFINE e == Requested(q, list)
<1>1. /\ e \in RequestEvents /\ e.type = "session.permission.requested" /\ e.id = q
      /\ e.snapshot.status = "pending"
  BY RequestedIsRequest
<1>2. e \in LaterEvents /\ e \notin GrantEvents /\ e \notin RenamedEvents
  BY <1>1, RowEvents
<1> HIDE DEF e
<1>3. ASSUME d.tables.requests[q] = None PROVE Fits(d, appendAggregateEventTx(d, e), ws)
  <2>1. Accepts(d.tables, e, Len(d.stream) + 1)
    BY <1>1, <1>3, EventTypes DEF Accepts, ProjectSessionPermissionRequests
  <2> QED BY <1>2, <2>1, AppendFits
<1>4. Fits(d, d, ws)
  BY FitsSelf
<1> QED BY <1>3, <1>4 DEF CreatePermissionRequest, Requested, e

LEMMA ResolutionIsRequest ==
  ASSUME NEW d, d.tables \in TablesType, NEW q \in Requests, IsPending(d, q), NEW status,
         NEW response, legalPermissionResolution(status, response)
  PROVE  LET e == Resolution(d, q, status, response)
         IN /\ e \in RequestEvents /\ e.type = "session.permission.resolved" /\ e.id = q
            /\ e.snapshot.status = status /\ e.snapshot.response = response
            /\ e.snapshot.resources = d.tables.requests[q].resources
            /\ e.snapshot # None
<1>1. d.tables.requests[q] \in RequestRow
  BY RowsTyped DEF IsPending
<1> DEFINE row == [d.tables.requests[q] EXCEPT !.status = status, !.response = response]
<1>2. /\ row \in AskedRow /\ row.status = status /\ row.response = response
      /\ row.resources = d.tables.requests[q].resources
  BY <1>1 DEF AskedRow, RequestRow, legalPermissionResolution
<1>3. row # None
  BY <1>2, StoresAssumption DEF AskedRow
<1> HIDE DEF row
<1>4. Resolution(d, q, status, response) = Event("session.permission.resolved", q, row)
  BY DEF Resolution, NewSessionPermissionResolutionEvent, row
<1> QED BY <1>2, <1>3, <1>4 DEF Event, RequestEvents

LEMMA ResolutionFits ==
  ASSUME NEW d, NEW ws, Sound(d, ws), NEW q \in Requests, IsPending(d, q), NEW status,
         NEW response, legalPermissionResolution(status, response)
  PROVE  LET e == Resolution(d, q, status, response)
         IN /\ appendAggregateEventTx(d, e) = Longer(d, e)
            /\ Fits(d, Longer(d, e), ws)
            /\ Longer(d, e).tables.grants = d.tables.grants
            /\ Longer(d, e).tables.requests = [d.tables.requests EXCEPT ![q] = e.snapshot]
<1> DEFINE e == Resolution(d, q, status, response)
<1>1. d.tables \in TablesType /\ d.tables.session \in SessionRow
  BY SoundTyped
<1>2. /\ e \in RequestEvents /\ e.type = "session.permission.resolved" /\ e.id = q
      /\ e.snapshot.status = status /\ e.snapshot.response = response
      /\ e.snapshot.resources = d.tables.requests[q].resources
  BY <1>1, ResolutionIsRequest
<1>3. e \in LaterEvents /\ e \notin GrantEvents /\ e \notin RenamedEvents
  BY <1>2, RowEvents
<1> HIDE DEF e
<1>4. Accepts(d.tables, e, Len(d.stream) + 1)
  BY <1>2, EventTypes DEF Accepts, ProjectSessionPermissionRequests, IsPending
<1>5. /\ appendAggregateEventTx(d, e) = Longer(d, e)
      /\ Fits(d, Longer(d, e), ws)
  BY <1>3, <1>4, AppendFits
<1>6. /\ Apply(d.tables, e).grants = d.tables.grants
      /\ Apply(d.tables, e).requests = [d.tables.requests EXCEPT ![q] = e.snapshot]
  BY <1>1, <1>2, ApplyRequest DEF Database
<1> QED BY <1>5, <1>6 DEF Longer, e

-----------------------------------------------------------------------------
(* The calls of the SQLite store that append several events. *)

LEMMA EventsOfLonger ==
  ASSUME NEW d, d.stream \in Seq(Events), NEW e \in Events
  PROVE  /\ EventsOf(Longer(d, e)) = EventsOf(d) \cup {e}
         /\ Len(Longer(d, e).stream) = Len(d.stream) + 1
<1>1. /\ Len(d.stream) \in Nat /\ Len(Append(d.stream, e)) = Len(d.stream) + 1
      /\ \A i \in 1..Len(d.stream) : Append(d.stream, e)[i] = d.stream[i]
      /\ Append(d.stream, e)[Len(d.stream) + 1] = e
  OBVIOUS
<1>2. Longer(d, e).stream = Append(d.stream, e)
  BY DEF Longer
<1>3. EventsOf(Longer(d, e)) \subseteq EventsOf(d) \cup {e}
  BY <1>1, <1>2 DEF EventsOf
<1>4. \A i \in 1..Len(d.stream) : i \in 1..(Len(d.stream) + 1)
  BY <1>1
<1>5. Len(d.stream) + 1 \in 1..(Len(d.stream) + 1)
  BY <1>1
<1>6. EventsOf(d) \cup {e} \subseteq EventsOf(Longer(d, e))
  BY <1>1, <1>2, <1>4, <1>5 DEF EventsOf
<1> QED BY <1>1, <1>2, <1>3, <1>6

(* The rows of one table are saved again, in the order of `events`.        *)
SavedTables == {"calls", "uses", "requests"}
SavedEvents == CallEvents \cup UseEvents \cup RequestEvents

LEMMA ApplySaved ==
  ASSUME NEW t \in TablesType, t.session \in SessionRow, NEW e \in SavedEvents,
         NEW table \in SavedTables, TableOf(e.type) = table
  PROVE  /\ Apply(t, e)[table] = [t[table] EXCEPT ![e.id] = e.snapshot]
         /\ e.id \in DOMAIN t[table]
         /\ Apply(t, e).session = Bumped(t.session)
         /\ \A other \in DOMAIN t : other \notin {table, "session"} => Apply(t, e)[other] = t[other]
<1>1. DOMAIN t = {"session", "runs", "messages", "calls", "uses", "requests", "grants"}
  BY DEF TablesType
<1>2. /\ DOMAIN t.calls = Calls /\ DOMAIN t.uses = Uses /\ DOMAIN t.requests = Requests
  BY RowsTyped DEF Row
<1>3. CASE e \in CallEvents
  <2>1. table = "calls" /\ e.id \in Calls
    BY <1>3, EventTypes DEF CallEvents
  <2> QED BY <1>1, <1>2, <1>3, <2>1, ApplyCall DEF Database
<1>4. CASE e \in UseEvents
  <2>1. table = "uses" /\ e.id \in Uses
    BY <1>4, EventTypes DEF UseEvents
  <2> QED BY <1>1, <1>2, <1>4, <2>1, ApplyUse DEF Database
<1>5. CASE e \in RequestEvents
  <2>1. table = "requests" /\ e.id \in Requests
    BY <1>5, EventTypes DEF RequestEvents
  <2> QED BY <1>1, <1>2, <1>5, <2>1, ApplyRequest DEF Database
<1> QED BY <1>3, <1>4, <1>5 DEF SavedEvents

Saved(d, x, table, events, k) ==
  /\ Len(x.stream) = Len(d.stream) + k
  /\ EventsOf(x) = EventsOf(d) \cup {events[i] : i \in 1..k}
  /\ DOMAIN x.tables[table] = DOMAIN d.tables[table]
  /\ \A i \in 1..k : x.tables[table][events[i].id] = events[i].snapshot
  /\ \A id \in DOMAIN d.tables[table] :
       (\A i \in 1..k : events[i].id # id) => x.tables[table][id] = d.tables[table][id]
  /\ x.tables.session = [d.tables.session EXCEPT !.version = @ + k]
  /\ \A other \in DOMAIN d.tables :
       other \notin {table, "session"} => x.tables[other] = d.tables[other]

(* The events of one table are for different rows, each as d left it.      *)
Saving(d, table, events) ==
  /\ table \in SavedTables
  /\ events \in Seq(SavedEvents)
  /\ \A i \in 1..Len(events) : TableOf(events[i].type) = table
  /\ \A i, j \in 1..Len(events) : events[i].id = events[j].id => i = j
  /\ \A i \in 1..Len(events) : \A t \in TablesType : \A n \in Nat :
       t[table][events[i].id] = d.tables[table][events[i].id] => Accepts(t, events[i], n)

LEMMA SavedBase ==
  ASSUME NEW d, NEW ws, Sound(d, ws), NEW table, NEW events
  PROVE  Saved(d, d, table, events, 0)
<1>1. d.tables.session \in SessionRow /\ Len(d.stream) \in Nat
  BY SoundTyped
<1>2. [d.tables.session EXCEPT !.version = @ + 0] = d.tables.session
  BY <1>1 DEF SessionRow
<1>3. {events[i] : i \in 1..0} = {}
  OBVIOUS
<1> QED BY <1>1, <1>2, <1>3 DEF Saved

LEMMA SavedStep ==
  ASSUME NEW d, NEW ws, Sound(d, ws), NEW table, NEW events, Saving(d, table, events),
         NEW k \in 1..Len(events), NEW x, Sound(x, ws), Saved(d, x, table, events, k - 1)
  PROVE  /\ appendAggregateEventTx(x, events[k]) = Longer(x, events[k])
         /\ Fits(x, Longer(x, events[k]), ws)
         /\ Saved(d, Longer(x, events[k]), table, events, k)
         /\ ~Granted(x, events[k])
<1> DEFINE e == events[k]
           y == Longer(x, e)
<1>1. /\ e \in SavedEvents /\ TableOf(e.type) = table /\ table \in SavedTables
      /\ k \in Nat /\ Len(events) \in Nat
  BY DEF Saving
<1>2. e \in LaterEvents /\ e \notin GrantEvents /\ e \notin RenamedEvents /\ e \in Events
  BY <1>1, RowEvents DEF SavedEvents, Events
<1>3. /\ x.tables \in TablesType /\ x.tables.session \in SessionRow
      /\ x.stream \in Seq(Events) /\ Len(x.stream) + 1 \in Nat /\ Len(x.stream) \in Nat
      /\ d.tables \in TablesType /\ d.tables.session \in SessionRow /\ Len(d.stream) \in Nat
  BY SoundTyped
<1> HIDE DEF e
<1>4. /\ Apply(x.tables, e)[table] = [x.tables[table] EXCEPT ![e.id] = e.snapshot]
      /\ e.id \in DOMAIN x.tables[table]
      /\ Apply(x.tables, e).session = Bumped(x.tables.session)
      /\ \A other \in DOMAIN x.tables :
           other \notin {table, "session"} => Apply(x.tables, e)[other] = x.tables[other]
  BY <1>1, <1>3, ApplySaved
<1>5. \A i \in 1..(k - 1) : events[i].id # e.id /\ i \in 1..Len(events)
  BY <1>1 DEF Saving, e
<1>6. x.tables[table][e.id] = d.tables[table][e.id]
  BY <1>4, <1>5 DEF Saved
<1>7. Accepts(x.tables, e, Len(x.stream) + 1)
  BY <1>3, <1>6 DEF Saving, e
<1>8. /\ appendAggregateEventTx(x, e) = y
      /\ Fits(x, y, ws)
  BY <1>2, <1>7, AppendFits
<1>9. y.tables = Apply(x.tables, e)
  BY DEF Longer
<1>10. ~Granted(x, e)
  BY <1>1 DEF Granted, SavedEvents, CallEvents, UseEvents, RequestEvents
<1>11. Saved(d, y, table, events, k)
  <2>1. Len(y.stream) = Len(d.stream) + k
    BY <1>1, <1>2, <1>3, EventsOfLonger DEF Saved
  <2>2. EventsOf(y) = EventsOf(d) \cup {events[i] : i \in 1..k}
    <3>1. EventsOf(y) = EventsOf(d) \cup {events[i] : i \in 1..(k - 1)} \cup {e}
      BY <1>2, <1>3, EventsOfLonger DEF Saved
    <3>2. 1..k = 1..(k - 1) \cup {k}
      BY <1>1
    <3> QED BY <3>1, <3>2 DEF e
  <2>3. DOMAIN y.tables[table] = DOMAIN d.tables[table]
    BY <1>4, <1>9 DEF Saved
  <2>4. ASSUME NEW i \in 1..k PROVE y.tables[table][events[i].id] = events[i].snapshot
    <3>1. CASE i = k
      BY <1>4, <1>9, <3>1 DEF e
    <3>2. CASE i # k
      <4>1. i \in 1..(k - 1)
        BY <1>1, <3>2
      <4>2. x.tables[table][events[i].id] = events[i].snapshot /\ events[i].id # e.id
        BY <1>5, <4>1 DEF Saved
      <4>3. events[i].id \in DOMAIN x.tables[table]
        <5>1. /\ events[i] \in SavedEvents /\ TableOf(events[i].type) = table
          BY <1>5, <4>1 DEF Saving
        <5> QED BY <1>1, <1>3, <5>1, ApplySaved
      <4> QED BY <1>4, <1>9, <4>2, <4>3
    <3> QED BY <3>1, <3>2
  <2>5. ASSUME NEW id \in DOMAIN d.tables[table], \A i \in 1..k : events[i].id # id
        PROVE  y.tables[table][id] = d.tables[table][id]
    <3>1. id # e.id /\ \A i \in 1..(k - 1) : events[i].id # id
      BY <1>1, <2>5 DEF e
    <3>2. x.tables[table][id] = d.tables[table][id] /\ id \in DOMAIN x.tables[table]
      BY <3>1 DEF Saved
    <3> QED BY <1>4, <1>9, <3>1, <3>2
  <2>6. y.tables.session = [d.tables.session EXCEPT !.version = @ + k]
    <3>1. x.tables.session = [d.tables.session EXCEPT !.version = @ + (k - 1)]
      BY DEF Saved
    <3>2. d.tables.session.version \in Nat
      BY <1>3 DEF SessionRow
    <3>3. y.tables.session = [x.tables.session EXCEPT !.version = @ + 1]
      BY <1>4, <1>9 DEF Bumped
    <3> DEFINE s == d.tables.session
               r == x.tables.session
               z == y.tables.session
    <3>4. /\ s \in SessionRow /\ r = [s EXCEPT !.version = s.version + (k - 1)]
          /\ z = [r EXCEPT !.version = r.version + 1]
      BY <1>3, <3>1, <3>3
    <3> HIDE DEF s, r, z
    <3>5. s.version \in Nat /\ s = [title |-> s.title, workspace |-> s.workspace,
                                  version |-> s.version]
      BY <3>4 DEF SessionRow
    <3>6. r = [title |-> s.title, workspace |-> s.workspace, version |-> s.version + (k - 1)]
      BY <3>4, <3>5
    <3>7. s.version + (k - 1) + 1 = s.version + k
      BY <1>1, <3>5
    <3>8. z = [title |-> s.title, workspace |-> s.workspace, version |-> s.version + k]
      BY <3>4, <3>6, <3>7
    <3>9. z = [s EXCEPT !.version = s.version + k]
      BY <3>5, <3>8
    <3> QED BY <3>9 DEF s, z
  <2>7. ASSUME NEW other \in DOMAIN d.tables, other \notin {table, "session"}
        PROVE  y.tables[other] = d.tables[other]
    <3>1. other \in DOMAIN x.tables
      BY <1>3 DEF TablesType
    <3>2. x.tables[other] = d.tables[other]
      BY <2>7 DEF Saved
    <3> QED BY <1>4, <1>9, <2>7, <3>1, <3>2
  <2> HIDE DEF y
  <2> QED BY <2>1, <2>2, <2>3, <2>4, <2>5, <2>6, <2>7 DEF Saved
<1> QED BY <1>8, <1>10, <1>11 DEF e

LEMMA SavesFit ==
  ASSUME NEW d, NEW ws, Sound(d, ws), NEW table, NEW events, Saving(d, table, events)
  PROVE  LET x == insertEvents(d, events)
         IN Fits(d, x, ws) /\ Saved(d, x, table, events, Len(events))
<1>1. Len(events) \in Nat
  BY DEF Saving
<1>2. PICK after : /\ Inserts(after, d, events, Len(events))
                   /\ insertEvents(d, events) = after[Len(events)]
  BY <1>1, InsertEventsIs
<1> DEFINE G == {k \in 0..Len(events) :
                   Fits(d, after[k], ws) /\ Saved(d, after[k], table, events, k)}
<1>3. 0 \in G
  BY <1>1, <1>2, FitsSelf, SavedBase DEF Inserts
<1>4. ASSUME NEW k \in 1..Len(events), k - 1 \in G PROVE k \in G
  <2>1. /\ Fits(d, after[k - 1], ws) /\ Sound(after[k - 1], ws)
        /\ Saved(d, after[k - 1], table, events, k - 1)
    BY <1>4 DEF Fits
  <2>2. /\ appendAggregateEventTx(after[k - 1], events[k]) = Longer(after[k - 1], events[k])
        /\ Fits(after[k - 1], Longer(after[k - 1], events[k]), ws)
        /\ Saved(d, Longer(after[k - 1], events[k]), table, events, k)
        /\ ~Granted(after[k - 1], events[k])
    BY <2>1, SavedStep
  <2>3. k \in 0..Len(events) /\ k # 0
    BY <1>1
  <2>4. after[k] = Longer(after[k - 1], events[k])
    BY <1>2, <2>2, <2>3 DEF Inserts
  <2>5. Fits(d, after[k], ws)
    BY <2>1, <2>2, <2>4, FitsFits
  <2> QED BY <2>2, <2>3, <2>4, <2>5
<1>5. Len(events) \in G
  <2> HIDE DEF G
  <2>1. \A k \in 0..Len(events) : k \in G
    BY <1>1, <1>3, <1>4, IntervalInduction
  <2> QED BY <1>1, <2>1
<1> QED BY <1>2, <1>5

(* The rows that start-up interrupts. *)
Interrupted(d, uses) ==
  [i \in 1..Len(uses) |-> NewSessionToolUseSavedEvent(uses[i],
     [d.tables.uses[uses[i]] EXCEPT !.status = "interrupted"])]
Aborted(d, calls) ==
  [i \in 1..Len(calls) |-> NewSessionModelCallSavedEvent(calls[i],
     [d.tables.calls[calls[i]] EXCEPT !.status = "aborted"])]
Dismissed(d, pending) ==
  [i \in 1..Len(pending) |-> Resolution(d, pending[i], "interrupted", "")]

PendingRequests(d) == {q \in Requests : IsPending(d, q)}

(* A list of a finite set names each of its elements once.                 *)
LEMMA ListOf ==
  ASSUME NEW S, IsFiniteSet(S), NEW list \in SetToSeqs(S)
  PROVE  /\ Len(list) = Cardinality(S) /\ Len(list) \in Nat
         /\ \A i \in 1..Len(list) : list[i] \in S
         /\ \A i, j \in 1..Len(list) : list[i] = list[j] => i = j
         /\ \A x \in S : \E i \in 1..Len(list) : list[i] = x
<1>1. PICK n \in Nat : n = Cardinality(S)
  BY FS_CardinalityType
<1>2. list \in [1..n -> S] /\ \A i, j \in 1..n : i # j => list[i] # list[j]
  BY <1>1 DEF SetToSeqs
<1>3. Len(list) = n
  BY <1>2
<1>4. list \in Surjection(1..n, S)
  <2>1. IsFiniteSet(1..n) /\ Cardinality(1..n) = n
    BY FS_Interval
  <2>2. list \in Injection(1..n, S)
    BY <1>2 DEF Injection, IsInjective
  <2> QED BY <1>1, <2>1, <2>2, FS_Injection
<1> QED BY <1>1, <1>2, <1>3, <1>4 DEF Surjection

LEMMA ActiveFinite ==
  ASSUME NEW d
  PROVE  /\ IsFiniteSet(ActiveUses(d)) /\ ActiveUses(d) \subseteq Uses
         /\ \A run : IsFiniteSet(ActiveCalls(d, run)) /\ ActiveCalls(d, run) \subseteq Calls
         /\ IsFiniteSet(PendingRequests(d))
  BY StoresAssumption, FS_Subset DEF ActiveUses, ActiveCalls, PendingRequests

LEMMA InterruptedSaving ==
  ASSUME NEW d, d.tables \in TablesType, NEW uses \in SetToSeqs(ActiveUses(d))
  PROVE  /\ Saving(d, "uses", Interrupted(d, uses))
         /\ Len(Interrupted(d, uses)) = Len(uses)
<1> DEFINE events == Interrupted(d, uses)
<1>1. /\ Len(uses) \in Nat
      /\ \A i \in 1..Len(uses) : uses[i] \in ActiveUses(d)
      /\ \A i, j \in 1..Len(uses) : uses[i] = uses[j] => i = j
  BY ActiveFinite, ListOf
<1>2. ASSUME NEW i \in 1..Len(uses)
      PROVE  /\ events[i] \in UseEvents /\ events[i].id = uses[i]
             /\ d.tables.uses[uses[i]] # None
             /\ events[i].snapshot.status = "interrupted"
             /\ events[i].snapshot.run = d.tables.uses[uses[i]].run
             /\ events[i].snapshot.part = d.tables.uses[uses[i]].part
             /\ events[i].snapshot.place = d.tables.uses[uses[i]].place
             /\ d.tables.uses[uses[i]].status \in {"proposed", "authorized", "started"}
  <2> DEFINE row == [d.tables.uses[uses[i]] EXCEPT !.status = "interrupted"]
  <2>1. /\ uses[i] \in Uses /\ d.tables.uses[uses[i]] # None
        /\ d.tables.uses[uses[i]].status \notin UseTerminal
    BY <1>1 DEF ActiveUses
  <2>2. d.tables.uses[uses[i]] \in UseRow
    BY <2>1, RowsTyped
  <2>3. row \in UseRow /\ row.run = d.tables.uses[uses[i]].run
        /\ row.part = d.tables.uses[uses[i]].part /\ row.status = "interrupted"
        /\ row.place = d.tables.uses[uses[i]].place
    BY <2>2 DEF UseRow, UseTerminal
  <2>4. events[i] = Event("session.tool_use.saved", uses[i], row)
    BY DEF Interrupted, NewSessionToolUseSavedEvent
  <2>5. d.tables.uses[uses[i]].status \in {"proposed", "authorized", "started"}
    BY <2>1, <2>2 DEF UseRow
  <2> HIDE DEF row, events
  <2> QED BY <2>1, <2>3, <2>4, <2>5 DEF Event, UseEvents
<1>3. Len(events) = Len(uses) /\ events = [i \in 1..Len(uses) |-> events[i]]
  BY <1>1 DEF Interrupted
<1> HIDE DEF events
<1>4. \A i \in 1..Len(uses) : events[i] \in SavedEvents /\ TableOf(events[i].type) = "uses"
  BY <1>2, EventTypes DEF SavedEvents
<1>5. events \in Seq(SavedEvents)
  BY <1>1, <1>3, <1>4
<1>6. ASSUME NEW i \in 1..Len(uses), NEW t \in TablesType, NEW n \in Nat,
             t.uses[events[i].id] = d.tables.uses[events[i].id]
      PROVE  Accepts(t, events[i], n)
  BY <1>2, <1>4, <1>6 DEF Accepts, ProjectSessionToolUses, legalToolUseTransition
<1>7. \A i, j \in 1..Len(uses) : events[i].id = events[j].id => i = j
  BY <1>1, <1>2
<1>8. Saving(d, "uses", events)
  BY <1>3, <1>4, <1>5, <1>6, <1>7 DEF Saving, SavedTables
<1> QED BY <1>3, <1>8 DEF events

LEMMA AbortedSaving ==
  ASSUME NEW d, d.tables \in TablesType, NEW run, NEW calls \in SetToSeqs(ActiveCalls(d, run))
  PROVE  /\ Saving(d, "calls", Aborted(d, calls))
         /\ Len(Aborted(d, calls)) = Len(calls)
<1> DEFINE events == Aborted(d, calls)
<1>1. /\ Len(calls) \in Nat
      /\ \A i \in 1..Len(calls) : calls[i] \in ActiveCalls(d, run)
      /\ \A i, j \in 1..Len(calls) : calls[i] = calls[j] => i = j
  BY ActiveFinite, ListOf
<1>2. ASSUME NEW i \in 1..Len(calls)
      PROVE  /\ events[i] \in CallEvents /\ events[i].id = calls[i]
             /\ d.tables.calls[calls[i]] # None
             /\ events[i].snapshot.run = d.tables.calls[calls[i]].run
             /\ events[i].snapshot.attempt = d.tables.calls[calls[i]].attempt
  <2> DEFINE row == [d.tables.calls[calls[i]] EXCEPT !.status = "aborted"]
  <2>1. calls[i] \in Calls /\ d.tables.calls[calls[i]] # None
    BY <1>1 DEF ActiveCalls
  <2>2. d.tables.calls[calls[i]] \in CallRow
    BY <2>1, RowsTyped
  <2>3. row \in CallRow /\ row.run = d.tables.calls[calls[i]].run
        /\ row.attempt = d.tables.calls[calls[i]].attempt
    BY <2>2 DEF CallRow
  <2>4. events[i] = Event("session.model_call.saved", calls[i], row)
    BY DEF Aborted, NewSessionModelCallSavedEvent
  <2> HIDE DEF row, events
  <2> QED BY <2>1, <2>3, <2>4 DEF Event, CallEvents
<1>3. Len(events) = Len(calls) /\ events = [i \in 1..Len(calls) |-> events[i]]
  BY <1>1 DEF Aborted
<1> HIDE DEF events
<1>4. \A i \in 1..Len(calls) : events[i] \in SavedEvents /\ TableOf(events[i].type) = "calls"
  BY <1>2, EventTypes DEF SavedEvents
<1>5. events \in Seq(SavedEvents)
  BY <1>1, <1>3, <1>4
<1>6. ASSUME NEW i \in 1..Len(calls), NEW t \in TablesType, NEW n \in Nat,
             t.calls[events[i].id] = d.tables.calls[events[i].id]
      PROVE  Accepts(t, events[i], n)
  BY <1>2, <1>4, <1>6 DEF Accepts, ProjectSessionModelCalls
<1>7. \A i, j \in 1..Len(calls) : events[i].id = events[j].id => i = j
  BY <1>1, <1>2
<1>8. Saving(d, "calls", events)
  BY <1>3, <1>4, <1>5, <1>6, <1>7 DEF Saving, SavedTables
<1> QED BY <1>3, <1>8 DEF events

LEMMA DismissedSaving ==
  ASSUME NEW d, d.tables \in TablesType,
         NEW pending \in SetToSeqs(PendingRequests(d))
  PROVE  /\ Saving(d, "requests", Dismissed(d, pending))
         /\ Len(Dismissed(d, pending)) = Len(pending)
<1> DEFINE events == Dismissed(d, pending)
<1>1. /\ Len(pending) \in Nat
      /\ \A i \in 1..Len(pending) : pending[i] \in PendingRequests(d)
      /\ \A i, j \in 1..Len(pending) : pending[i] = pending[j] => i = j
  BY ActiveFinite, ListOf
<1>2. ASSUME NEW i \in 1..Len(pending)
      PROVE  /\ events[i] \in RequestEvents /\ events[i].id = pending[i]
             /\ events[i].type = "session.permission.resolved"
             /\ legalPermissionResolution(events[i].snapshot.status, events[i].snapshot.response)
             /\ events[i].snapshot.resources = d.tables.requests[pending[i]].resources
             /\ d.tables.requests[pending[i]] # None
             /\ d.tables.requests[pending[i]].status = "pending"
  <2>1. pending[i] \in Requests /\ IsPending(d, pending[i])
    BY <1>1 DEF PendingRequests
  <2>2. PICK status, response : status = "interrupted" /\ response = ""
    OBVIOUS
  <2>3. legalPermissionResolution(status, response)
    BY <2>2 DEF legalPermissionResolution
  <2> DEFINE e == Resolution(d, pending[i], status, response)
  <2>4. /\ e \in RequestEvents /\ e.type = "session.permission.resolved"
        /\ e.id = pending[i]
        /\ e.snapshot.status = status /\ e.snapshot.response = response
        /\ e.snapshot.resources = d.tables.requests[pending[i]].resources
    BY <2>1, <2>3, ResolutionIsRequest
  <2>5. events[i] = e
    BY <2>2 DEF Dismissed
  <2> HIDE DEF events, e
  <2> QED BY <2>1, <2>3, <2>4, <2>5 DEF IsPending
<1>3. Len(events) = Len(pending) /\ events = [i \in 1..Len(pending) |-> events[i]]
  BY <1>1 DEF Dismissed
<1> HIDE DEF events
<1>4. \A i \in 1..Len(pending) :
        events[i] \in SavedEvents /\ TableOf(events[i].type) = "requests"
  BY <1>2, EventTypes DEF SavedEvents
<1>5. events \in Seq(SavedEvents)
  BY <1>1, <1>3, <1>4
<1>6. ASSUME NEW i \in 1..Len(pending), NEW t \in TablesType, NEW n \in Nat,
             t.requests[events[i].id] = d.tables.requests[events[i].id]
      PROVE  Accepts(t, events[i], n)
  BY <1>2, <1>4, <1>6
     DEF Accepts, ProjectSessionPermissionRequests
<1>7. \A i, j \in 1..Len(pending) : events[i].id = events[j].id => i = j
  BY <1>1, <1>2
<1>8. Saving(d, "requests", events)
  BY <1>3, <1>4, <1>5, <1>6, <1>7 DEF Saving, SavedTables
<1> QED BY <1>3, <1>8 DEF events

LEMMA InterruptUsesIs ==
  ASSUME NEW d, NEW ws, Sound(d, ws), NEW uses \in SetToSeqs(ActiveUses(d))
  PROVE  LET x == InterruptActiveToolUses(d, uses)
         IN Fits(d, x, ws) /\ Saved(d, x, "uses", Interrupted(d, uses), Len(uses))
<1>1. Saving(d, "uses", Interrupted(d, uses)) /\ Len(Interrupted(d, uses)) = Len(uses)
  BY SoundTyped, InterruptedSaving
<1>2. InterruptActiveToolUses(d, uses) = insertEvents(d, Interrupted(d, uses))
  BY DEF InterruptActiveToolUses, Interrupted
<1> QED BY <1>1, <1>2, SavesFit

LEMMA InterruptCallsIs ==
  ASSUME NEW d, NEW ws, Sound(d, ws), NEW run, NEW calls \in SetToSeqs(ActiveCalls(d, run))
  PROVE  LET x == InterruptActiveModelCalls(d, calls)
         IN Fits(d, x, ws) /\ Saved(d, x, "calls", Aborted(d, calls), Len(calls))
<1>1. Saving(d, "calls", Aborted(d, calls)) /\ Len(Aborted(d, calls)) = Len(calls)
  BY SoundTyped, AbortedSaving
<1>2. InterruptActiveModelCalls(d, calls) = insertEvents(d, Aborted(d, calls))
  BY DEF InterruptActiveModelCalls, Aborted
<1> QED BY <1>1, <1>2, SavesFit

LEMMA InterruptRequestsIs ==
  ASSUME NEW d, NEW ws, Sound(d, ws), NEW pending \in SetToSeqs(PendingRequests(d))
  PROVE  LET x == InterruptPendingPermissionRequests(d, pending)
         IN Fits(d, x, ws) /\ Saved(d, x, "requests", Dismissed(d, pending), Len(pending))
<1>1. Saving(d, "requests", Dismissed(d, pending)) /\ Len(Dismissed(d, pending)) = Len(pending)
  BY SoundTyped, DismissedSaving
<1>2. InterruptPendingPermissionRequests(d, pending) = insertEvents(d, Dismissed(d, pending))
  BY DEF InterruptPendingPermissionRequests, Dismissed
<1> QED BY <1>1, <1>2, SavesFit

(* The grants of an "always", one for each resource that is new.           *)
LEMMA GrantIsEvent ==
  ASSUME NEW resource \in Resources
  PROVE  LET e == NewSessionPermissionGrantCreatedEvent(resource)
         IN /\ e \in GrantEvents /\ e.id = resource
            /\ e.type = "session.permission_grant.created"
            /\ e \in LaterEvents /\ e \notin RenamedEvents
<1> DEFINE e == NewSessionPermissionGrantCreatedEvent(resource)
<1>1. e \in GrantEvents /\ e.id = resource /\ e.type = "session.permission_grant.created"
  BY DEF NewSessionPermissionGrantCreatedEvent, Event, GrantEvents
<1> HIDE DEF e
<1>2. e \in LaterEvents /\ e \notin RenamedEvents
  BY <1>1 DEF LaterEvents, RenamedEvents
<1> QED BY <1>1, <1>2 DEF e

LEMMA GrantFits ==
  ASSUME NEW d, NEW ws, Sound(d, ws), NEW resource \in Resources, Allowed(d.tables, resource)
  PROVE  LET e == NewSessionPermissionGrantCreatedEvent(resource)
         IN /\ Granted(d, e) <=> resource \in d.tables.grants
            /\ ~Granted(d, e) =>
                 /\ appendAggregateEventTx(d, e) = Longer(d, e)
                 /\ Fits(d, Longer(d, e), ws)
                 /\ Longer(d, e).tables.requests = d.tables.requests
                 /\ Longer(d, e).tables.grants = d.tables.grants \cup {resource}
<1> DEFINE e == NewSessionPermissionGrantCreatedEvent(resource)
<1>1. /\ e \in GrantEvents /\ e.id = resource
      /\ e.type = "session.permission_grant.created"
      /\ e \in LaterEvents /\ e \notin RenamedEvents
  BY GrantIsEvent
<1> HIDE DEF e
<1>2. Granted(d, e) <=> resource \in d.tables.grants
  BY <1>1 DEF Granted
<1>3. ASSUME ~Granted(d, e)
      PROVE  /\ appendAggregateEventTx(d, e) = Longer(d, e)
             /\ Fits(d, Longer(d, e), ws)
  <2>1. Accepts(d.tables, e, Len(d.stream) + 1)
    BY <1>1, <1>2, <1>3, EventTypes DEF Accepts
  <2> QED BY <1>1, <2>1, AppendFits
<1>4. d.tables \in TablesType /\ d.tables.session \in SessionRow
  BY SoundTyped
<1>5. /\ Apply(d.tables, e).requests = d.tables.requests
      /\ Apply(d.tables, e).grants = d.tables.grants \cup {resource}
  BY <1>1, <1>4, ApplyGrant DEF Database
<1> QED BY <1>2, <1>3, <1>5 DEF Longer, e

GrantsFor(list) == [i \in 1..Len(list) |-> NewSessionPermissionGrantCreatedEvent(list[i])]

LEMMA GrantsFit ==
  ASSUME NEW d, NEW ws, Sound(d, ws), NEW list \in Seq(Resources),
         \A i \in 1..Len(list) : Allowed(d.tables, list[i]),
         NEW after, Inserts(after, d, GrantsFor(list), Len(list))
  PROVE  \A k \in 0..Len(list) :
           /\ Fits(d, after[k], ws)
           /\ after[k].tables.requests = d.tables.requests
           /\ after[k].tables.grants = d.tables.grants \cup {list[i] : i \in 1..k}
<1>1. Len(list) \in Nat /\ \A i \in 1..Len(list) : list[i] \in Resources
  OBVIOUS
<1> DEFINE G == {k \in 0..Len(list) :
                   /\ Fits(d, after[k], ws)
                   /\ after[k].tables.requests = d.tables.requests
                   /\ after[k].tables.grants = d.tables.grants \cup {list[i] : i \in 1..k}}
<1>2. 0 \in G
  <2>1. after[0] = d /\ {list[i] : i \in 1..0} = {}
    BY <1>1 DEF Inserts
  <2> QED BY <1>1, <2>1, FitsSelf
<1>3. ASSUME NEW k \in 1..Len(list), k - 1 \in G PROVE k \in G
  <2> DEFINE x == after[k - 1]
             e == NewSessionPermissionGrantCreatedEvent(list[k])
  <2>1. /\ Fits(d, x, ws) /\ Sound(x, ws) /\ x.tables.requests = d.tables.requests
        /\ x.tables.grants = d.tables.grants \cup {list[i] : i \in 1..(k - 1)}
    BY <1>3 DEF Fits
  <2>2. k \in 0..Len(list) /\ k # 0 /\ 1..k = 1..(k - 1) \cup {k} /\ list[k] \in Resources
    BY <1>1
  <2>3. {list[i] : i \in 1..k} = {list[i] : i \in 1..(k - 1)} \cup {list[k]}
    BY <2>2
  <2>4. after[k] = IF Granted(x, e) THEN x ELSE appendAggregateEventTx(x, e)
    BY <1>1, <2>2 DEF Inserts, GrantsFor
  <2>5. Allowed(x.tables, list[k])
    BY <2>1 DEF Allowed
  <2> HIDE DEF x
  <2>6. /\ Granted(x, e) <=> list[k] \in x.tables.grants
        /\ ~Granted(x, e) =>
             /\ appendAggregateEventTx(x, e) = Longer(x, e)
             /\ Fits(x, Longer(x, e), ws)
             /\ Longer(x, e).tables.requests = x.tables.requests
             /\ Longer(x, e).tables.grants = x.tables.grants \cup {list[k]}
    BY <2>1, <2>2, <2>5, GrantFits
  <2> HIDE DEF e
  <2>7. CASE Granted(x, e)
    <3>1. after[k] = x /\ list[k] \in x.tables.grants
      BY <2>4, <2>6, <2>7
    <3>2. x.tables.grants = d.tables.grants \cup {list[i] : i \in 1..k}
      BY <2>1, <2>3, <3>1
    <3> QED BY <2>1, <2>2, <3>1, <3>2
  <2>8. CASE ~Granted(x, e)
    <3>1. after[k] = Longer(x, e)
      BY <2>4, <2>6, <2>8
    <3>2. Fits(d, after[k], ws)
      BY <2>1, <2>6, <2>8, <3>1, FitsFits
    <3>3. after[k].tables.grants = d.tables.grants \cup {list[i] : i \in 1..k}
      BY <2>1, <2>3, <2>6, <2>8, <3>1
    <3>4. after[k].tables.requests = d.tables.requests
      BY <2>1, <2>6, <2>8, <3>1
    <3> QED BY <2>2, <3>2, <3>3, <3>4
  <2> QED BY <2>7, <2>8
<1> HIDE DEF G
<1>4. \A k \in 0..Len(list) : k \in G
  BY <1>1, <1>2, <1>3, IntervalInduction
<1> QED BY <1>4 DEF G

(* An "always" leaves a request that allows each of its resources.         *)
LEMMA AnsweredAllows ==
  ASSUME NEW d, NEW ws, Sound(d, ws), NEW q \in Requests, IsPending(d, q), NEW status,
         NEW response, response = "always", legalPermissionResolution(status, response)
  PROVE  LET x == Longer(d, Resolution(d, q, status, response))
             list == d.tables.requests[q].resources
         IN /\ list \in Seq(Resources) /\ Len(list) \in Nat
            /\ \A i \in 1..Len(list) : Allowed(x.tables, list[i])
<1> DEFINE e == Resolution(d, q, status, response)
           x == Longer(d, e)
           list == d.tables.requests[q].resources
<1>1. d.tables \in TablesType
  BY SoundTyped
<1>2. /\ d.tables.requests[q] \in RequestRow /\ d.tables.requests \in Row(Requests, AskedRow)
  BY <1>1, RowsTyped DEF IsPending
<1>3. list \in Seq(Resources) /\ Len(list) \in Nat
  <2> DEFINE request == d.tables.requests[q]
  <2>1. request \in RequestRow
    BY <1>2
  <2> HIDE DEF request
  <2>2. request.resources \in Seq(Resources)
    BY <2>1 DEF RequestRow
  <2> QED BY <2>2 DEF request
<1>4. x.tables.requests = [d.tables.requests EXCEPT ![q] = e.snapshot]
  BY ResolutionFits
<1>5. /\ e.snapshot.response = response /\ e.snapshot.resources = list /\ e.snapshot # None
  BY <1>1, ResolutionIsRequest
<1> HIDE DEF e, x, list
<1>6. x.tables.requests[q] = e.snapshot
  BY <1>2, <1>4 DEF Row
<1>7. \A i \in 1..Len(list) : Allowed(x.tables, list[i])
  BY <1>5, <1>6 DEF Allowed, ResourcesOf
<1> QED BY <1>3, <1>7 DEF x, e, list

LEMMA ResolveFits ==
  ASSUME NEW d, NEW ws, Sound(d, ws), NEW q \in Requests, NEW status, NEW response
  PROVE  Fits(d, ResolvePermissionRequest(d, q, status, response), ws)
<1>1. CASE ~IsPending(d, q) \/ ~legalPermissionResolution(status, response)
  BY <1>1, FitsSelf DEF ResolvePermissionRequest
<1>2. ASSUME IsPending(d, q), legalPermissionResolution(status, response)
      PROVE  Fits(d, ResolvePermissionRequest(d, q, status, response), ws)
  <2> DEFINE x == Longer(d, Resolution(d, q, status, response))
             list == d.tables.requests[q].resources
  <2>1. appendAggregateEventTx(d, Resolution(d, q, status, response)) = x /\ Fits(d, x, ws)
    <3> DEFINE e == Resolution(d, q, status, response)
    <3>1. Fits(d, Longer(d, e), ws)
      BY <1>2, ResolutionFits
    <3>2. appendAggregateEventTx(d, e) = Longer(d, e)
      BY AppendIs
    <3> QED BY <3>1, <3>2
  <2>2. CASE response # "always"
    BY <1>2, <2>1, <2>2 DEF ResolvePermissionRequest
  <2>3. CASE response = "always"
    <3>1. /\ list \in Seq(Resources) /\ Len(list) \in Nat
          /\ \A i \in 1..Len(list) : Allowed(x.tables, list[i])
      BY <1>2, <2>3, AnsweredAllows
    <3>2. ResolvePermissionRequest(d, q, status, response) = insertEvents(x, GrantsFor(list))
      BY <1>2, <2>1, <2>3 DEF ResolvePermissionRequest, GrantsOf, GrantsFor
    <3> HIDE DEF x, list
    <3>3. Len(GrantsFor(list)) = Len(list)
      BY <3>1 DEF GrantsFor
    <3>4. PICK after : /\ Inserts(after, x, GrantsFor(list), Len(list))
                       /\ insertEvents(x, GrantsFor(list)) = after[Len(list)]
      BY <3>1, <3>3, InsertEventsIs
    <3>5. Sound(x, ws)
      BY <2>1 DEF Fits
    <3>6. Fits(x, after[Len(list)], ws)
      BY <3>1, <3>4, <3>5, GrantsFit
    <3> QED BY <2>1, <3>2, <3>4, <3>6, FitsFits
  <2> QED BY <2>2, <2>3
<1> QED BY <1>1, <1>2

LEMMA RebuildFits ==
  ASSUME NEW d, NEW ws, Sound(d, ws)
  PROVE  Fits(d, RebuildSessionProjections(d, ws), ws)
<1> DEFINE last == ProjectSessionAggregate(d.stream)
           x == [d EXCEPT !.tables = last]
<1>1. /\ Recorded(d) /\ Projects(d.stream) /\ d.tables.session.version = Len(d.stream)
      /\ SameButWorkspace(d.tables.session, last.session, ws)
  BY DEF Sound
<1>2. /\ d \in [stream : Seq(Events), tables : TablesType] /\ d.stream # <<>>
      /\ last \in TablesType /\ last.session \in SessionRow
      /\ RowsOf(d.tables) = RowsOf(last)
      /\ ProjectSession(d.stream) = last.session
      /\ d.tables.session.version \in Nat
  BY <1>1 DEF Recorded, SessionRow
<1>3. x.stream = d.stream /\ x.tables = last /\ x \in [stream : Seq(Events), tables : TablesType]
  BY <1>2
<1> HIDE DEF x
<1>4. Recorded(x)
  BY <1>2, <1>3 DEF Recorded
<1>5. Sound(x, ws)
  BY <1>1, <1>3, <1>4 DEF Sound, SameButWorkspace
<1>6. KeepsRequests(d.tables, x.tables)
  BY <1>2, <1>3, RowsAreSame DEF KeepsRequests
<1>7. Fits(d, x, ws)
  BY <1>1, <1>2, <1>3, <1>5, <1>6 DEF Fits, SameButWorkspace
<1>8. Fits(d, d, ws)
  BY FitsSelf
<1> QED BY <1>7, <1>8 DEF RebuildSessionProjections, x

LEMMA DeleteFits ==
  ASSUME NEW d, NEW ws, Sound(d, ws), NEW w \in Workspaces
  PROVE  Fits(d, DeleteWorkspace(d, w), ws \ {w})
<1> DEFINE x == DeleteWorkspace(d, w)
           last == ProjectSessionAggregate(d.stream)
           row == IF d.tables.session.workspace = w
                  THEN [d.tables.session EXCEPT !.workspace = None] ELSE d.tables.session
<1>1. /\ Recorded(d) /\ Projects(d.stream) /\ d.tables.session.version = Len(d.stream)
      /\ SameButWorkspace(d.tables.session, last.session, ws)
      /\ HasSession(d)
  BY SoundTyped DEF Sound
<1>2. /\ d \in [stream : Seq(Events), tables : TablesType] /\ d.stream # <<>>
      /\ d.tables.session \in SessionRow
      /\ last \in TablesType /\ last.session \in SessionRow
      /\ RowsOf(d.tables) = RowsOf(last)
      /\ ProjectSession(d.stream) = last.session
      /\ d.tables.session.version \in Nat
  BY <1>1 DEF Recorded, SessionRow
<1>3. row \in SessionRow /\ row.title = d.tables.session.title
      /\ row.version = d.tables.session.version
  BY <1>2 DEF SessionRow
<1>4. x = [d EXCEPT !.tables.session = row]
  BY <1>1, <1>2 DEF DeleteWorkspace, TablesType
<1>5. SameButWorkspace(row, last.session, ws \ {w})
  <2>1. None # w
    BY StoresAssumption
  <2> QED BY <1>1, <1>2, <1>3, <2>1 DEF SameButWorkspace, SessionRow
<1> HIDE DEF x, row, last
<1>6. /\ x.stream = d.stream /\ x.tables = [d.tables EXCEPT !.session = row]
      /\ x \in [stream : Seq(Events), tables : TablesType]
  BY <1>2, <1>3, <1>4 DEF TablesType
<1>7. x.tables.session = row /\ RowsOf(x.tables) = RowsOf(d.tables)
      /\ x.tables.requests = d.tables.requests
  BY <1>2, <1>6 DEF RowsOf, TablesType
<1>8. Recorded(x)
  BY <1>2, <1>3, <1>6, <1>7 DEF Recorded, last
<1>9. Sound(x, ws \ {w})
  BY <1>1, <1>3, <1>5, <1>6, <1>7, <1>8 DEF Sound, last
<1>10. KeepsRequests(d.tables, x.tables)
  BY <1>7 DEF KeepsRequests
<1> QED BY <1>2, <1>3, <1>7, <1>9, <1>10 DEF Fits, x

-----------------------------------------------------------------------------
(* The session that is created, and what is left of it after a purge.      *)

LEMMA EmptyTyped ==
  /\ EmptyTables \in TablesType /\ EmptyTables.session = None
  /\ NewDatabase.tables = EmptyTables /\ NewDatabase.stream = <<>>
  /\ ~HasSession(NewDatabase) /\ \A r \in Runs : ~HasRun(NewDatabase, r)
<1>1. EmptyTables \in TablesType
  BY DEF EmptyTables, TablesType, NewRow, Row
<1>2. EmptyTables.session = None /\ \A r \in Runs : EmptyTables.runs[r] = None
  BY DEF EmptyTables, NewRow
<1> QED BY <1>1, <1>2 DEF NewDatabase, HasSession, HasRun

LEMMA CreateSound ==
  ASSUME NEW t \in Titles, NEW w \in Workspaces \cup {None}
  PROVE  LET x == CreateSession(NewDatabase, t, w, Workspaces)
         IN Sound(x, Workspaces) /\ x.tables.requests = EmptyTables.requests
<1> DEFINE e == NewSessionCreatedEvent(t, w)
           row == [title |-> t, workspace |-> w, version |-> 1]
           x == CreateSession(NewDatabase, t, w, Workspaces)
           none == <<>>
           s == Append(none, e)
           last == [EmptyTables EXCEPT !.session = row]
<1>1. /\ e \in CreatedEvents /\ e \in Events /\ e.type = "session.created"
      /\ e.snapshot.title = t /\ e.snapshot.workspace = w
  BY DEF NewSessionCreatedEvent, Event, CreatedEvents, Events
<1>2. row \in SessionRow
  BY DEF SessionRow
<1>3. last \in TablesType /\ last.session = row /\ last.requests = EmptyTables.requests
      /\ last.grants = {}
  BY <1>2 DEF TablesType, EmptyTables, NewRow, Row
<1>4. \A a : projectSessionEvent(a, e) = row
  BY <1>1 DEF projectSessionEvent
<1>5. Apply(EmptyTables, e) = last
  <2>1. TableOf(e.type) = "session"
    BY <1>1 DEF TableOf
  <2> QED BY <1>4, <2>1 DEF Apply, Tables, EmptyTables
<1>6. x = [stream |-> s, tables |-> last]
  BY <1>5, EmptyTyped DEF CreateSession, appendAggregateEventTx
<1>7. /\ s \in Seq(Events) /\ Len(s) = 1 /\ s[1] = e /\ s # <<>>
      /\ none \in Seq(Events) /\ Len(none) = 0
  BY <1>1
<1> HIDE DEF e, row, x, last, none
<1>8. /\ Replay(s)[0] = EmptyTables /\ Replay(s)[1] = last
  <2>1. Replays(Replay(none), none, 0)
    BY <1>7, ReplayIs
  <2>2. Replay(none)[0] = EmptyTables
    BY <2>1 DEF Replays
  <2>3. /\ \A i \in 0..Len(none) : Replay(s)[i] = Replay(none)[i]
        /\ Replay(s)[Len(none) + 1] = Apply(Replay(none)[Len(none)], e)
    BY <1>1, <1>7, ReplayOfAppend
  <2> QED BY <1>5, <1>7, <2>2, <2>3
<1>9. ProjectSession(s) = row
  <2>1. ProjectSession(s) = projectSessionEvent(ProjectSession(none), e)
    BY <1>1, <1>7, ProjectOfAppend
  <2> QED BY <1>4, <2>1
<1>10. ProjectSessionAggregate(s) = last
  BY <1>7, <1>8 DEF ProjectSessionAggregate
<1>11. Recorded(x)
  BY <1>2, <1>3, <1>6, <1>7, <1>9, <1>10 DEF Recorded
<1>12. Projects(s)
  <2>1. Created(s)
    BY <1>1, <1>7 DEF Created
  <2>2. \A n \in 1..Len(s) : Accepts(Replay(s)[n - 1], s[n], n)
    <3>1. TableOf(e.type) = "session"
      BY <1>1 DEF TableOf
    <3>2. Accepts(Replay(s)[0], s[1], 1)
      BY <1>7, <3>1 DEF Accepts
    <3> QED BY <1>7, <3>2
  <2>3. ProjectSessionPermissionGrants(Replay(s)[Len(s)])
    BY <1>3, <1>7, <1>8 DEF ProjectSessionPermissionGrants
  <2> QED BY <1>7, <2>1, <2>2, <2>3 DEF Projects
<1>13. Sound(x, Workspaces)
  <2>1. x.tables.session = row /\ x.stream = s /\ row.version = 1
    BY <1>3, <1>6 DEF row
  <2> QED BY <1>3, <1>7, <1>10, <1>11, <1>12, <2>1 DEF Sound, SameButWorkspace
<1> QED BY <1>3, <1>6, <1>13 DEF x

(* Nothing is written for a session that is gone.                          *)
LEMMA NothingToInterrupt ==
  /\ ActiveUses(NewDatabase) = {}
  /\ \A run : ActiveCalls(NewDatabase, run) = {}
  /\ PendingRequests(NewDatabase) = {}
  /\ \A q \in Requests : ~IsPending(NewDatabase, q)
<1>1. /\ \A u \in Uses : NewDatabase.tables.uses[u] = None
      /\ \A c \in Calls : NewDatabase.tables.calls[c] = None
      /\ \A q \in Requests : NewDatabase.tables.requests[q] = None
  BY DEF NewDatabase, EmptyTables, NewRow
<1> QED BY <1>1 DEF ActiveUses, ActiveCalls, PendingRequests, IsPending

LEMMA NothingInserted ==
  ASSUME NEW d, NEW events, Len(events) = 0
  PROVE  insertEvents(d, events) = d /\ memAppendEvents(d, events) = d
<1>1. PICK after : /\ Inserts(after, d, events, Len(events))
                   /\ insertEvents(d, events) = after[Len(events)]
  BY InsertEventsIs
<1>2. PICK memAfter : /\ MemInserts(memAfter, d, events, Len(events))
                      /\ memAppendEvents(d, events) = memAfter[Len(events)]
  BY MemAppendEventsIs
<1> QED BY <1>1, <1>2 DEF Inserts, MemInserts

LEMMA NoneToList ==
  ASSUME NEW list \in SetToSeqs({})
  PROVE  Len(list) = 0
  BY ListOf, FS_EmptySet

-----------------------------------------------------------------------------
(* The invariant of the SQLite store: its session is gone or sound, and a  *)
(* client that read the present version read the present title.            *)
SqlInv ==
  /\ workspaces \subseteq Workspaces
  /\ sql = NewDatabase \/ Sound(sql, workspaces)
  /\ seen \in [Clients -> SessionRow \cup {None}]
  /\ HasSession(sql) =>
       \A c \in Clients : seen[c] # None =>
         /\ seen[c].version <= sql.tables.session.version
         /\ seen[c].version = sql.tables.session.version =>
              seen[c].title = sql.tables.session.title

(* A call that renames nothing.                                            *)
Writes ==
  /\ UNCHANGED <<workspaces, seen>>
  /\ sql = NewDatabase => sql' = NewDatabase
  /\ Sound(sql, workspaces) => Fits(sql, sql', workspaces)

LEMMA MoveWrites ==
  ASSUME SqlInv, NEW c \in Clients, Move(c)
  PROVE  Writes
<1>1. PICK w \in Workspaces \cup {None} :
        /\ sql' = MoveSession(sql, w, seen[c].version, workspaces)
        /\ UNCHANGED <<workspaces, seen>>
  BY DEF Move, Write, Call, Stores, sql
<1>2. sql = NewDatabase => sql' = NewDatabase
  BY <1>1, EmptyTyped DEF MoveSession, applySessionMetadataEvent
<1>3. Sound(sql, workspaces) => Fits(sql, sql', workspaces)
  BY <1>1, MoveFits
<1> QED BY <1>1, <1>2, <1>3 DEF Writes

LEMMA AdmitWrites ==
  ASSUME SqlInv, Admit
  PROVE  Writes
<1>1. PICK r \in Runs : sql' = AdmitSessionRun(sql, r) /\ UNCHANGED <<workspaces, seen>>
  BY DEF Admit, Write, Call, Stores, sql
<1>2. sql = NewDatabase => sql' = NewDatabase
  BY <1>1, EmptyTyped DEF AdmitSessionRun
<1>3. Sound(sql, workspaces) => Fits(sql, sql', workspaces)
  BY <1>1, AdmitFits
<1> QED BY <1>1, <1>2, <1>3 DEF Writes

LEMMA ClaimWrites ==
  ASSUME SqlInv, Claim
  PROVE  Writes
<1>1. sql' = ClaimNextSessionRun(sql) /\ UNCHANGED <<workspaces, seen>>
  BY DEF Claim, Write, Call, Stores, sql
<1>2. sql = NewDatabase => sql' = NewDatabase
  <2>1. WithStatus(NewDatabase, "queued") = {}
    BY EmptyTyped DEF WithStatus
  <2> QED BY <1>1, <2>1 DEF ClaimNextSessionRun
<1>3. Sound(sql, workspaces) => Fits(sql, sql', workspaces)
  BY <1>1, ClaimFits
<1> QED BY <1>1, <1>2, <1>3 DEF Writes

LEMMA SettleWrites ==
  ASSUME SqlInv, Settle
  PROVE  Writes
<1>1. PICK r \in Runs, from \in {"queued", "running"}, to \in RunTerminal :
        sql' = SettleSessionRun(sql, r, from, to) /\ UNCHANGED <<workspaces, seen>>
  BY DEF Settle, Write, Call, Stores, sql
<1>2. sql = NewDatabase => sql' = NewDatabase
  BY <1>1, EmptyTyped DEF SettleSessionRun
<1>3. Sound(sql, workspaces) => Fits(sql, sql', workspaces)
  BY <1>1, SettleFits
<1> QED BY <1>1, <1>2, <1>3 DEF Writes

LEMMA CheckpointWrites ==
  ASSUME SqlInv, Checkpoint
  PROVE  Writes
<1>1. PICK m \in Messages, r \in Runs, place \in Places, n \in 1..MaxRevision,
           ps \in SUBSET Parts :
        LET message == MessageSnapshot(r, place, n, ps)
        IN /\ KeepsToolParts(sql, m, message) /\ PartsAreFree(sql, m, message)
           /\ sql' = SaveMessage(sql, m, message)
           /\ UNCHANGED <<workspaces, seen>>
  BY DEF Checkpoint, Write, Call, Stores, sql
<1>2. sql = NewDatabase => sql' = NewDatabase
  BY <1>1, EmptyTyped DEF SaveMessage
<1>3. MessageSnapshot(r, place, n, ps) \in MessageRow
  BY StoresAssumption DEF MessageRow, MessageSnapshot
<1>4. Sound(sql, workspaces) => Fits(sql, sql', workspaces)
  BY <1>1, <1>3, SaveMessageFits
<1> QED BY <1>1, <1>2, <1>4 DEF Writes

LEMMA RecordCallWrites ==
  ASSUME SqlInv, RecordCall
  PROVE  Writes
<1>1. PICK c \in Calls, r \in Runs, n \in Attempts, s \in {"started", "completed", "failed"} :
        /\ sql' = UpsertModelCall(sql, c, [run |-> r, attempt |-> n, status |-> s])
        /\ UNCHANGED <<workspaces, seen>>
  BY DEF RecordCall, Write, Call, Stores, sql
<1>2. sql = NewDatabase => sql' = NewDatabase
  <2>1. NewDatabase.tables.calls[c] = None
    BY DEF NewDatabase, EmptyTables, NewRow
  <2> QED BY <1>1, <2>1, EmptyTyped DEF UpsertModelCall
<1>3. [run |-> r, attempt |-> n, status |-> s] \in CallRow
  BY StoresAssumption DEF CallRow
<1>4. Sound(sql, workspaces) => Fits(sql, sql', workspaces)
  BY <1>1, <1>3, UpsertFits
<1> QED BY <1>1, <1>2, <1>4 DEF Writes

(* The parts of the stored messages, and nothing else, are parts.          *)
LEMMA StoredPartsTyped ==
  ASSUME NEW t \in TablesType
  PROVE  StoredParts(t) \subseteq Parts
<1>1. \A m \in Messages : t.messages[m] # None => t.messages[m].parts \subseteq Parts
  BY RowsTyped DEF MessageRow
<1> QED BY <1>1 DEF StoredParts

LEMMA RecordUseWrites ==
  ASSUME SqlInv, RecordUse
  PROVE  Writes
<1>1. PICK u \in Uses, r \in Runs, place \in UsePlaces, p \in StoredParts(sql.tables),
           s \in UseTerminal \cup {"proposed", "authorized", "started"} :
        /\ sql' = SaveToolUse(sql, u, [run |-> r, place |-> place, part |-> p, status |-> s])
        /\ UNCHANGED <<workspaces, seen>>
  BY DEF RecordUse, Write, Call, Stores, sql
<1>2. sql = NewDatabase => sql' = NewDatabase
  <2>1. NewDatabase.tables.uses[u] = None
    BY DEF NewDatabase, EmptyTables, NewRow
  <2> QED BY <1>1, <2>1, EmptyTyped DEF SaveToolUse
<1>3. ASSUME Sound(sql, workspaces) PROVE Fits(sql, sql', workspaces)
  <2>1. p \in Parts
    BY <1>3, SoundTyped, StoredPartsTyped
  <2>2. [run |-> r, place |-> place, part |-> p, status |-> s] \in UseRow
    BY <2>1 DEF UseRow
  <2> QED BY <1>1, <1>3, <2>2, SaveUseFits
<1> QED BY <1>1, <1>2, <1>3 DEF Writes

LEMMA AskWrites ==
  ASSUME SqlInv, Ask
  PROVE  Writes
<1>1. PICK q \in Requests, r \in Runs, list \in ResourceLists :
        /\ sql' = CreatePermissionRequest(sql, q, r, list)
        /\ UNCHANGED <<workspaces, seen>>
  BY DEF Ask, Write, Call, Stores, sql
<1>2. sql = NewDatabase => sql' = NewDatabase
  BY <1>1, EmptyTyped DEF CreatePermissionRequest
<1>3. list \in Seq(Resources)
  BY StoresAssumption
<1>4. Sound(sql, workspaces) => Fits(sql, sql', workspaces)
  BY <1>1, <1>3, AskFits
<1> QED BY <1>1, <1>2, <1>4 DEF Writes

LEMMA AnswerWrites ==
  ASSUME SqlInv, Answer
  PROVE  Writes
<1>1. PICK q \in Requests, s \in {"approved", "rejected", "timed_out"},
           response \in {"once", "always", "reject", ""} :
        /\ sql' = ResolvePermissionRequest(sql, q, s, response)
        /\ UNCHANGED <<workspaces, seen>>
  BY DEF Answer, Write, Call, Stores, sql
<1>2. sql = NewDatabase => sql' = NewDatabase
  BY <1>1, NothingToInterrupt DEF ResolvePermissionRequest
<1>3. Sound(sql, workspaces) => Fits(sql, sql', workspaces)
  BY <1>1, ResolveFits
<1> QED BY <1>1, <1>2, <1>3 DEF Writes

LEMMA RecoverWrites ==
  ASSUME SqlInv, Recover
  PROVE  Writes
<1>1. CASE RecoverUses
  <2>1. PICK uses \in SetToSeqs(ActiveUses(sql)) :
          sql' = InterruptActiveToolUses(sql, uses) /\ UNCHANGED <<workspaces, seen>>
    BY <1>1 DEF RecoverUses, Write, Call, Stores, sql
  <2>2. ASSUME sql = NewDatabase PROVE sql' = NewDatabase
    <3>1. Len(uses) = 0
      BY <2>2, NothingToInterrupt, NoneToList
    <3>2. Len(Interrupted(sql, uses)) = 0
      BY <3>1 DEF Interrupted
    <3>3. sql' = insertEvents(sql, Interrupted(sql, uses))
      BY <2>1 DEF InterruptActiveToolUses, Interrupted
    <3> QED BY <2>2, <3>2, <3>3, NothingInserted
  <2>3. Sound(sql, workspaces) => Fits(sql, sql', workspaces)
    BY <2>1, InterruptUsesIs
  <2> QED BY <2>1, <2>2, <2>3 DEF Writes
<1>2. CASE RecoverCalls
  <2>1. PICK r \in Runs : \E calls \in SetToSeqs(ActiveCalls(sql, r)) :
          sql' = InterruptActiveModelCalls(sql, calls) /\ UNCHANGED <<workspaces, seen>>
    BY <1>2 DEF RecoverCalls, Write, Call, Stores, sql
  <2>2. PICK calls \in SetToSeqs(ActiveCalls(sql, r)) :
          sql' = InterruptActiveModelCalls(sql, calls) /\ UNCHANGED <<workspaces, seen>>
    BY <2>1
  <2>3. ASSUME sql = NewDatabase PROVE sql' = NewDatabase
    <3>1. Len(calls) = 0
      BY <2>3, NothingToInterrupt, NoneToList
    <3>2. Len(Aborted(sql, calls)) = 0
      BY <3>1 DEF Aborted
    <3>3. sql' = insertEvents(sql, Aborted(sql, calls))
      BY <2>2 DEF InterruptActiveModelCalls, Aborted
    <3> QED BY <2>3, <3>2, <3>3, NothingInserted
  <2>4. Sound(sql, workspaces) => Fits(sql, sql', workspaces)
    BY <2>2, InterruptCallsIs
  <2> QED BY <2>2, <2>3, <2>4 DEF Writes
<1>3. CASE RecoverRequests
  <2>1. PICK pending \in SetToSeqs(PendingRequests(sql)) :
          sql' = InterruptPendingPermissionRequests(sql, pending) /\ UNCHANGED <<workspaces, seen>>
    BY <1>3 DEF RecoverRequests, PendingLists, PendingRequests, Write, Call, Stores, sql
  <2>2. ASSUME sql = NewDatabase PROVE sql' = NewDatabase
    <3>1. Len(pending) = 0
      BY <2>2, NothingToInterrupt, NoneToList
    <3>2. Len(Dismissed(sql, pending)) = 0
      BY <3>1 DEF Dismissed
    <3>3. sql' = insertEvents(sql, Dismissed(sql, pending))
      BY <2>1 DEF InterruptPendingPermissionRequests, Dismissed
    <3> QED BY <2>2, <3>2, <3>3, NothingInserted
  <2>3. Sound(sql, workspaces) => Fits(sql, sql', workspaces)
    BY <2>1, InterruptRequestsIs
  <2> QED BY <2>1, <2>2, <2>3 DEF Writes
<1> QED BY <1>1, <1>2, <1>3 DEF Recover

LEMMA RebuildWrites ==
  ASSUME SqlInv, Rebuild
  PROVE  Writes
<1>1. sql' = RebuildSessionProjections(sql, workspaces) /\ UNCHANGED <<workspaces, seen>>
  BY DEF Rebuild, Write, Call, Stores, sql
<1>2. sql = NewDatabase => sql' = NewDatabase
  BY <1>1, EmptyTyped DEF RebuildSessionProjections, Projects
<1>3. Sound(sql, workspaces) => Fits(sql, sql', workspaces)
  BY <1>1, RebuildFits
<1> QED BY <1>1, <1>2, <1>3 DEF Writes

LEMMA WritesKeepSql ==
  ASSUME SqlInv, Writes
  PROVE  /\ SqlInv'
         /\ (HasSession(sql) /\ HasSession(sql')) =>
              sql'.tables.session.title = sql.tables.session.title
<1>1. CASE sql = NewDatabase
  <2>1. sql' = NewDatabase /\ UNCHANGED <<workspaces, seen>>
    BY <1>1 DEF Writes
  <2> QED BY <2>1, EmptyTyped DEF SqlInv
<1>2. CASE Sound(sql, workspaces)
  <2>1. /\ Sound(sql', workspaces)
        /\ sql'.tables.session.title = sql.tables.session.title
        /\ sql'.tables.session.version >= sql.tables.session.version
        /\ UNCHANGED <<workspaces, seen>>
    BY <1>2 DEF Writes, Fits
  <2>2. /\ sql.tables.session.version \in Nat /\ HasSession(sql)
        /\ sql'.tables.session.version \in Nat
    BY <1>2, <2>1, SoundTyped
  <2>3. \A c \in Clients : seen[c] # None => seen[c].version \in Nat
    BY DEF SqlInv, SessionRow
  <2>4. \A c \in Clients : seen[c] # None =>
          /\ seen[c].version <= sql'.tables.session.version
          /\ seen[c].version = sql'.tables.session.version =>
               seen[c].title = sql'.tables.session.title
    BY <2>1, <2>2, <2>3 DEF SqlInv
  <2> QED BY <2>1, <2>4 DEF SqlInv
<1> QED BY <1>1, <1>2 DEF SqlInv

(* A rename is a write but for the title, and only by a client that read   *)
(* the title that it replaces.                                             *)
Unseen ==
  (sql.tables.session # None /\ sql'.tables.session # None
     /\ sql'.tables.session.title # sql.tables.session.title) =>
    \E c \in Clients : /\ seen[c] # None
                       /\ seen[c].title = sql.tables.session.title
                       /\ seen[c].version = sql.tables.session.version

LEMMA RenameKeepsSql ==
  ASSUME SqlInv, NEW c \in Clients, Rename(c)
  PROVE  SqlInv' /\ Unseen
<1>1. PICK t \in Titles :
        /\ sql' = RenameSession(sql, t, seen[c].version)
        /\ seen[c] # None
        /\ UNCHANGED <<workspaces, seen>>
  BY DEF Rename, Write, Call, Stores, sql
<1>2. CASE sql = NewDatabase
  <2>1. sql' = NewDatabase
    BY <1>1, <1>2, EmptyTyped DEF RenameSession, applySessionMetadataEvent
  <2> QED BY <1>1, <1>2, <2>1, EmptyTyped DEF SqlInv, Unseen, HasSession
<1>3. CASE Sound(sql, workspaces)
  <2>1. CASE sql' = sql
    BY <1>1, <2>1 DEF SqlInv, Unseen
  <2>2. CASE /\ Sound(sql', workspaces)
             /\ sql'.tables.session.version = sql.tables.session.version + 1
             /\ sql.tables.session.version = seen[c].version
    <3>1. /\ sql.tables.session.version \in Nat /\ HasSession(sql)
      BY <1>3, SoundTyped
    <3>2. \A k \in Clients : seen[k] # None => seen[k].version \in Nat
      BY DEF SqlInv, SessionRow
    <3>3. \A k \in Clients : seen[k] # None =>
            /\ seen[k].version <= sql'.tables.session.version
            /\ seen[k].version # sql'.tables.session.version
      BY <2>2, <3>1, <3>2 DEF SqlInv
    <3>4. SqlInv'
      BY <1>1, <2>2, <3>3 DEF SqlInv
    <3>5. seen[c].title = sql.tables.session.title
      BY <1>1, <2>2, <3>1 DEF SqlInv
    <3> QED BY <1>1, <2>2, <3>4, <3>5 DEF Unseen
  <2> QED BY <1>1, <1>3, <2>1, <2>2, RenameIs
<1> QED BY <1>2, <1>3 DEF SqlInv

LEMMA PurgeKeepsSql ==
  ASSUME SqlInv, NEW c \in Clients, Purge(c)
  PROVE  SqlInv' /\ Unseen
<1>1. /\ sql' = PurgeSession(sql, seen[c].version)
      /\ UNCHANGED <<workspaces, seen>>
  BY DEF Purge, Write, Call, Stores, sql
<1>2. CASE sql' = NewDatabase
  BY <1>1, <1>2, EmptyTyped DEF SqlInv, Unseen, HasSession
<1>3. CASE sql' = sql
  BY <1>1, <1>3 DEF SqlInv, Unseen
<1> QED BY <1>1, <1>2, <1>3 DEF PurgeSession

LEMMA RemoveKeepsSql ==
  ASSUME SqlInv, RemoveWorkspace
  PROVE  SqlInv' /\ Unseen
<1>1. PICK w \in workspaces :
        /\ sql' = DeleteWorkspace(sql, w)
        /\ workspaces' = workspaces \ {w} /\ UNCHANGED seen
  BY DEF RemoveWorkspace, Stores, sql
<1>2. w \in Workspaces /\ workspaces' \subseteq Workspaces
  BY <1>1 DEF SqlInv
<1>3. CASE sql = NewDatabase
  <2>1. sql' = NewDatabase
    BY <1>1, <1>3, EmptyTyped DEF DeleteWorkspace
  <2> QED BY <1>1, <1>2, <1>3, <2>1, EmptyTyped DEF SqlInv, Unseen, HasSession
<1>4. CASE Sound(sql, workspaces)
  <2>1. Fits(sql, sql', workspaces')
    BY <1>1, <1>2, <1>4, DeleteFits
  <2>2. /\ Sound(sql', workspaces')
        /\ sql'.tables.session.title = sql.tables.session.title
        /\ sql'.tables.session.version >= sql.tables.session.version
    BY <2>1 DEF Fits
  <2>3. /\ sql.tables.session.version \in Nat /\ HasSession(sql)
        /\ sql'.tables.session.version \in Nat
    BY <1>4, <2>2, SoundTyped
  <2>4. \A c \in Clients : seen[c] # None => seen[c].version \in Nat
    BY DEF SqlInv, SessionRow
  <2>5. \A c \in Clients : seen[c] # None =>
          /\ seen[c].version <= sql'.tables.session.version
          /\ seen[c].version = sql'.tables.session.version =>
               seen[c].title = sql'.tables.session.title
    BY <2>2, <2>3, <2>4 DEF SqlInv
  <2> QED BY <1>1, <1>2, <2>2, <2>5 DEF SqlInv, Unseen
<1> QED BY <1>3, <1>4 DEF SqlInv

LEMMA ReadKeepsSql ==
  ASSUME SqlInv, NEW c \in Clients, Read(c)
  PROVE  SqlInv' /\ Unseen
<1>1. /\ HasSession(sql) /\ sql' = sql /\ workspaces' = workspaces
      /\ seen' = [seen EXCEPT ![c] = sql.tables.session]
  BY DEF Read, sql
<1>2. Sound(sql, workspaces) /\ sql.tables.session \in SessionRow
      /\ sql.tables.session.version \in Nat
  BY <1>1, EmptyTyped, SoundTyped DEF SqlInv
<1>3. seen' \in [Clients -> SessionRow \cup {None}]
  BY <1>1, <1>2 DEF SqlInv
<1>4. \A k \in Clients : seen'[k] # None =>
        /\ seen'[k].version <= sql.tables.session.version
        /\ seen'[k].version = sql.tables.session.version =>
             seen'[k].title = sql.tables.session.title
  <2> TAKE k \in Clients
  <2>1. CASE k = c
    <3>1. seen'[k] = sql.tables.session
      BY <1>1, <2>1 DEF SqlInv
    <3> QED BY <1>2, <3>1
  <2>2. CASE k # c
    <3>1. seen'[k] = seen[k]
      BY <1>1, <2>2 DEF SqlInv
    <3> QED BY <1>1, <3>1 DEF SqlInv
  <2> QED BY <2>1, <2>2
<1> QED BY <1>1, <1>2, <1>3, <1>4 DEF SqlInv, Unseen

LEMMA SqlInitial ==
  ASSUME Init
  PROVE  SqlInv
<1>1. PICK t \in Titles, w \in Workspaces \cup {None} :
        sql = CreateSession(NewDatabase, t, w, Workspaces)
  BY DEF Init, Stores, sql
<1>2. Sound(sql, Workspaces)
  BY <1>1, CreateSound
<1> QED BY <1>2 DEF Init, SqlInv

LEMMA SqlStep ==
  ASSUME SqlInv, [Next]_vars
  PROVE  SqlInv' /\ Unseen
<1>1. ASSUME Writes PROVE SqlInv' /\ Unseen
  BY <1>1, WritesKeepSql DEF Unseen, HasSession
<1>2. ASSUME NEW c \in Clients, Read(c) \/ Rename(c) \/ Move(c) \/ Purge(c)
      PROVE  SqlInv' /\ Unseen
  BY <1>1, <1>2, ReadKeepsSql, RenameKeepsSql, MoveWrites, PurgeKeepsSql
<1>3. CASE RemoveWorkspace
  BY <1>3, RemoveKeepsSql
<1>4. CASE Admit \/ Claim \/ Settle
  BY <1>1, <1>4, AdmitWrites, ClaimWrites, SettleWrites
<1>5. CASE Checkpoint \/ RecordCall \/ RecordUse
  BY <1>1, <1>5, CheckpointWrites, RecordCallWrites, RecordUseWrites
<1>6. CASE Ask \/ Answer
  BY <1>1, <1>6, AskWrites, AnswerWrites
<1>7. CASE Recover \/ Rebuild
  BY <1>1, <1>7, RecoverWrites, RebuildWrites
<1>8. CASE UNCHANGED vars
  BY <1>8 DEF vars, SqlInv, Unseen, sql
<1> QED BY <1>2, <1>3, <1>4, <1>5, <1>6, <1>7, <1>8 DEF Next

THEOREM SqlInvariant == Spec => []SqlInv
<1>1. Init => SqlInv
  BY SqlInitial
<1>2. SqlInv /\ [Next]_vars => SqlInv'
  BY SqlStep
<1> QED BY <1>1, <1>2, PTL DEF Spec

(* NewSQLiteStore projects the stream of every session when the daemon     *)
(* starts: no order of the calls of handlers, workers and recovery leaves  *)
(* one that it refuses.                                                    *)
THEOREM StreamsReplay == Spec => []StreamReplays
<1>1. SqlInv => StreamReplays
  BY EmptyTyped DEF SqlInv, StreamReplays, Sound
<1> QED BY <1>1, SqlInvariant, PTL

(* The rows of the SQLite tables are those of the stream, but for the      *)
(* workspace that a foreign key cleared; a purged session has neither.     *)
THEOREM TablesFollowStream == Spec => []TablesMatchStream
<1>1. ASSUME Sound(sql, workspaces) PROVE TablesMatchStream
  <2> DEFINE last == ProjectSessionAggregate(sql.stream)
             t == sql.tables
  <2>1. /\ t \in TablesType /\ last \in TablesType /\ RowsOf(t) = RowsOf(last)
        /\ t.session \in SessionRow /\ last.session \in SessionRow
        /\ SameButWorkspace(t.session, last.session, workspaces)
    BY <1>1 DEF Sound, Recorded
  <2> HIDE DEF last, t
  <2>2. /\ t.runs = last.runs /\ t.messages = last.messages /\ t.calls = last.calls
        /\ t.uses = last.uses /\ t.requests = last.requests /\ t.grants = last.grants
    BY <2>1, RowsAreSame
  <2>3. CASE t.session.workspace = last.session.workspace
    <3>1. t.session = last.session
      BY <2>1, <2>3 DEF SameButWorkspace, SessionRow
    <3>2. t = last
      BY <2>1, <2>2, <3>1 DEF TablesType
    <3> QED BY <1>1, <3>2, SoundTyped DEF TablesMatchStream, t, last
  <2>4. CASE t.session.workspace = None /\ last.session.workspace \notin workspaces
    <3>1. t.session = [last.session EXCEPT !.workspace = None]
      BY <2>1, <2>4 DEF SameButWorkspace, SessionRow
    <3>2. t = [last EXCEPT !.session.workspace = None]
      BY <2>1, <2>2, <3>1 DEF TablesType
    <3> QED BY <1>1, <2>4, <3>2, SoundTyped DEF TablesMatchStream, t, last
  <2> QED BY <2>1, <2>3, <2>4 DEF SameButWorkspace
<1>2. SqlInv => TablesMatchStream
  BY <1>1, EmptyTyped DEF SqlInv, TablesMatchStream
<1> QED BY <1>2, SqlInvariant, PTL

(* RenameSession refuses a client whose version is not the present one, and *)
(* every event moves the version: no title is overwritten unseen.          *)
THEOREM NoRenameIsLost == Spec => NoLostRename
<1>1. SqlInv /\ [Next]_vars =>
        [(sql.tables.session # None /\ sql'.tables.session # None
            /\ sql'.tables.session.title # sql.tables.session.title) =>
           \E c \in Clients : seen[c] # None
                              /\ seen[c].title = sql.tables.session.title
                              /\ seen[c].version = sql.tables.session.version]_vars
  BY SqlStep DEF Unseen
<1> QED BY <1>1, SqlInvariant, PTL DEF Spec, NoLostRename

-----------------------------------------------------------------------------
(* The calls of the memory store on a database that only knows its rows:   *)
(* no request is forgotten.                                                *)
Recalls(d, x) == Recorded(x) /\ KeepsRequests(d.tables, x.tables)

(* A request event asks for what the request asked for before.             *)
SameAsk(t, e) ==
  e \in RequestEvents => \/ t.requests[e.id] = None
                         \/ e.snapshot.resources = t.requests[e.id].resources

LEMMA RecalledSelf ==
  ASSUME NEW d, Recorded(d)
  PROVE  Recalls(d, d)
  BY DEF Recalls, KeepsRequests

LEMMA RecallsRecalls ==
  ASSUME NEW d, NEW x, NEW y, Recalls(d, x), Recalls(x, y)
  PROVE  Recalls(d, y)
  BY DEF Recalls, KeepsRequests

LEMMA SameAskKept ==
  ASSUME NEW t \in TablesType, t.session \in SessionRow, NEW e \in LaterEvents, SameAsk(t, e)
  PROVE  KeepsRequests(t, Apply(t, e))
<1>1. CASE e \in RequestEvents
  <2>1. Apply(t, e).requests = [t.requests EXCEPT ![e.id] = e.snapshot]
    BY <1>1, ApplyRequest DEF Database
  <2>2. e.id \in Requests /\ e.snapshot \in RequestRow /\ t.requests \in Row(Requests, AskedRow)
    BY <1>1, RowsTyped DEF RequestEvents, AskedRow
  <2>3. e.snapshot # None
    BY <2>2, StoresAssumption
  <2> QED BY <1>1, <2>1, <2>2, <2>3 DEF KeepsRequests, SameAsk, Row
<1>2. CASE e \notin RequestEvents
  BY <1>2, RequestsKept
<1> QED BY <1>1, <1>2

LEMMA LongerRecalls ==
  ASSUME NEW d, Recorded(d), NEW e \in LaterEvents, SameAsk(d.tables, e)
  PROVE  Recalls(d, Longer(d, e))
<1>1. Recorded(Longer(d, e))
  BY LongerRecorded
<1>2. d.tables \in TablesType /\ d.tables.session \in SessionRow
  BY DEF Recorded
<1>3. Longer(d, e).tables = Apply(d.tables, e)
  BY DEF Longer
<1> QED BY <1>1, <1>2, <1>3, SameAskKept DEF Recalls

LEMMA MemAppendRecalls ==
  ASSUME NEW d, Recorded(d), NEW e \in LaterEvents, SameAsk(d.tables, e)
  PROVE  Recalls(d, memAppend(d, e))
<1> DEFINE longer == Append(d.stream, e)
           t == Apply(d.tables, e)
           row == ProjectSession(longer)
           x == [stream |-> longer, tables |-> [t EXCEPT !.session = row]]
<1>1. Recorded(Longer(d, e)) /\ KeepsRequests(d.tables, t)
  BY LongerRecalls DEF Recalls, Longer
<1>2. Longer(d, e).stream = longer /\ Longer(d, e).tables = t
  BY DEF Longer
<1>3. /\ longer \in Seq(Events) /\ longer # <<>> /\ t \in TablesType
      /\ ProjectSessionAggregate(longer) \in TablesType
      /\ ProjectSessionAggregate(longer).session \in SessionRow
      /\ RowsOf(t) = RowsOf(ProjectSessionAggregate(longer))
      /\ row = ProjectSessionAggregate(longer).session
  BY <1>1, <1>2 DEF Recorded
<1>4. memAppend(d, e) = IF Created(longer) THEN x ELSE d
  BY DEF memAppend
<1> HIDE DEF longer, t, row
<1>5. [t EXCEPT !.session = row] \in TablesType /\ [t EXCEPT !.session = row].session = row
      /\ [t EXCEPT !.session = row].requests = t.requests
      /\ RowsOf([t EXCEPT !.session = row]) = RowsOf(t)
  BY <1>3 DEF TablesType, RowsOf
<1>6. /\ x.stream = longer /\ x.tables = [t EXCEPT !.session = row]
      /\ x \in [stream : Seq(Events), tables : TablesType]
  BY <1>3, <1>5
<1> HIDE DEF x
<1>7. Recorded(x)
  BY <1>3, <1>5, <1>6 DEF Recorded, row
<1>8. KeepsRequests(d.tables, x.tables)
  BY <1>1, <1>5, <1>6 DEF KeepsRequests
<1> QED BY <1>4, <1>7, <1>8, RecalledSelf DEF Recalls

LEMMA MemEventsRecall ==
  ASSUME NEW d, Recorded(d), NEW events, Len(events) \in Nat,
         \A i \in 1..Len(events) : /\ events[i] \in LaterEvents
                                   /\ events[i] \in RequestEvents =>
                                        /\ d.tables.requests[events[i].id] # None
                                        /\ SameAsk(d.tables, events[i])
  PROVE  Recalls(d, memAppendEvents(d, events))
<1>1. PICK after : /\ MemInserts(after, d, events, Len(events))
                   /\ memAppendEvents(d, events) = after[Len(events)]
  BY MemAppendEventsIs
<1> DEFINE G == {k \in 0..Len(events) : Recalls(d, after[k])}
<1>2. 0 \in G
  <2>1. after[0] = d
    BY <1>1 DEF MemInserts
  <2> QED BY <2>1, RecalledSelf
<1>3. ASSUME NEW k \in 1..Len(events), k - 1 \in G PROVE k \in G
  <2> DEFINE x == after[k - 1]
             e == events[k]
  <2>1. Recalls(d, x) /\ Recorded(x) /\ KeepsRequests(d.tables, x.tables)
    BY <1>3 DEF Recalls
  <2>2. k \in 0..Len(events) /\ k # 0
    OBVIOUS
  <2>3. after[k] = IF Granted(d, e) THEN x ELSE memAppend(x, e)
    BY <1>1, <2>2 DEF MemInserts
  <2> HIDE DEF x
  <2>4. e \in LaterEvents /\ SameAsk(x.tables, e)
    <3>1. e \in RequestEvents => e.id \in Requests
      BY DEF RequestEvents
    <3> QED BY <2>1, <3>1 DEF SameAsk, KeepsRequests
  <2> HIDE DEF e
  <2>5. Recalls(d, memAppend(x, e))
    BY <2>1, <2>4, MemAppendRecalls, RecallsRecalls
  <2> QED BY <2>1, <2>2, <2>3, <2>5
<1> HIDE DEF G
<1>4. \A k \in 0..Len(events) : k \in G
  BY <1>2, <1>3, IntervalInduction
<1> QED BY <1>1, <1>4 DEF G

-----------------------------------------------------------------------------
(* On a sound database the memory store does what the SQLite store does.   *)

(* Every workspace is there: the tables are the projection.                *)
LEMMA SoundExact ==
  ASSUME NEW d, Sound(d, Workspaces)
  PROVE  /\ d.tables = ProjectSessionAggregate(d.stream)
         /\ ProjectSession(d.stream) = d.tables.session
<1> DEFINE last == ProjectSessionAggregate(d.stream)
           t == d.tables
<1>1. /\ t \in TablesType /\ last \in TablesType /\ RowsOf(t) = RowsOf(last)
      /\ t.session \in SessionRow /\ last.session \in SessionRow
      /\ SameButWorkspace(t.session, last.session, Workspaces)
      /\ ProjectSession(d.stream) = last.session
  BY DEF Sound, Recorded
<1> HIDE DEF t, last
<1>2. /\ t.runs = last.runs /\ t.messages = last.messages /\ t.calls = last.calls
      /\ t.uses = last.uses /\ t.requests = last.requests /\ t.grants = last.grants
  BY <1>1, RowsAreSame
<1>3. t.session.workspace = last.session.workspace
  <2>1. last.session.workspace \in Workspaces \cup {None}
    BY <1>1 DEF SessionRow
  <2> QED BY <1>1, <2>1 DEF SameButWorkspace
<1>4. t.session = last.session
  BY <1>1, <1>3 DEF SameButWorkspace, SessionRow
<1>5. t = last
  BY <1>1, <1>2, <1>4 DEF TablesType
<1> QED BY <1>1, <1>4, <1>5 DEF t, last

LEMMA MemAppendIs ==
  ASSUME NEW d, Sound(d, Workspaces), NEW e \in LaterEvents
  PROVE  memAppend(d, e) = Longer(d, e)
<1> DEFINE longer == Append(d.stream, e)
           t == Apply(d.tables, e)
<1>1. /\ d.stream \in Seq(Events) /\ d.stream # <<>> /\ Created(d.stream)
      /\ d.tables \in TablesType /\ d.tables.session \in SessionRow /\ e \in Events
  BY SoundTyped DEF Sound, Projects, Events
<1>2. Created(longer)
  <2>1. /\ Len(d.stream) \in Nat /\ Len(d.stream) # 0 /\ Len(longer) = Len(d.stream) + 1
        /\ \A i \in 1..Len(d.stream) : longer[i] = d.stream[i]
        /\ longer[Len(d.stream) + 1] = e
    BY <1>1
  <2>2. e.type # "session.created"
    BY DEF LaterEvents, RenamedEvents, MovedEvents, RunEvents, MessageEvents, CallEvents,
           UseEvents, RequestEvents, GrantEvents
  <2> HIDE DEF longer
  <2> QED BY <1>1, <2>1, <2>2 DEF Created
<1>3. ProjectSession(longer) = projectSessionEvent(d.tables.session, e)
  BY <1>1, SoundExact, ProjectOfAppend
<1>4. t.session = projectSessionEvent(d.tables.session, e) /\ t \in TablesType
  BY <1>1, ApplySession, ApplyTyped
<1>5. [t EXCEPT !.session = ProjectSession(longer)] = t
  BY <1>3, <1>4 DEF TablesType
<1> HIDE DEF longer, t
<1>6. memAppend(d, e) = [stream |-> longer, tables |-> t]
  BY <1>2, <1>5 DEF memAppend, longer, t
<1> QED BY <1>6 DEF Longer, longer, t

(* The same rows, as many events, and the same ones.                       *)
Same(a, b) ==
  /\ a.tables = b.tables
  /\ Len(a.stream) = Len(b.stream)
  /\ EventsOf(a) = EventsOf(b)

LEMMA SameLonger ==
  ASSUME NEW a, NEW b, a.stream \in Seq(Events), b.stream \in Seq(Events), Same(a, b),
         NEW e \in Events
  PROVE  Same(Longer(a, e), Longer(b, e))
<1>1. Longer(a, e).tables = Longer(b, e).tables
  BY DEF Longer, Same
<1>2. /\ EventsOf(Longer(a, e)) = EventsOf(a) \cup {e}
      /\ Len(Longer(a, e).stream) = Len(a.stream) + 1
  BY EventsOfLonger
<1>3. /\ EventsOf(Longer(b, e)) = EventsOf(b) \cup {e}
      /\ Len(Longer(b, e).stream) = Len(b.stream) + 1
  BY EventsOfLonger
<1> QED BY <1>1, <1>2, <1>3 DEF Same

LEMMA SameAppend ==
  ASSUME NEW a, NEW b, NEW ws, Sound(a, ws), Sound(b, ws), Same(a, b), NEW e \in Events
  PROVE  Same(appendAggregateEventTx(a, e), appendAggregateEventTx(b, e))
  BY SoundTyped, AppendIs, SameLonger

(* The rows of a table are saved again in two orders.                      *)
LEMMA SameSaved ==
  ASSUME NEW a, NEW b, NEW x, NEW y, NEW ws, Sound(a, ws), Sound(b, ws), Same(a, b),
         Sound(x, ws), Sound(y, ws), NEW table \in SavedTables,
         NEW es, NEW fs, NEW n, Saved(a, x, table, es, n), Saved(b, y, table, fs, n),
         \A i \in 1..n : \E j \in 1..n : fs[j] = es[i],
         \A i \in 1..n : \E j \in 1..n : es[j] = fs[i],
         \A i \in 1..n : es[i].id \in DOMAIN a.tables[table]
  PROVE  Same(x, y)
<1>1. Len(x.stream) = Len(y.stream)
  BY DEF Saved, Same
<1>2. EventsOf(x) = EventsOf(y)
  <2>1. {es[i] : i \in 1..n} = {fs[i] : i \in 1..n}
    OBVIOUS
  <2> QED BY <2>1 DEF Saved, Same
<1>3. /\ a.tables \in TablesType /\ x.tables \in TablesType /\ y.tables \in TablesType
      /\ a.tables = b.tables
  BY SoundTyped DEF Same
<1>4. \A id \in DOMAIN a.tables[table] : x.tables[table][id] = y.tables[table][id]
  <2> TAKE id \in DOMAIN a.tables[table]
  <2>1. CASE \E i \in 1..n : es[i].id = id
    <3>1. PICK i \in 1..n : es[i].id = id
      BY <2>1
    <3>2. PICK j \in 1..n : fs[j] = es[i]
      OBVIOUS
    <3>3. x.tables[table][id] = es[i].snapshot /\ y.tables[table][id] = fs[j].snapshot
      BY <3>1, <3>2 DEF Saved
    <3> QED BY <3>2, <3>3
  <2>2. CASE \A i \in 1..n : es[i].id # id
    <3>1. \A i \in 1..n : fs[i].id # id
      BY <2>2
    <3>2. x.tables[table][id] = a.tables[table][id] /\ y.tables[table][id] = b.tables[table][id]
      BY <1>3, <2>2, <3>1 DEF Saved
    <3> QED BY <1>3, <3>2
  <2> QED BY <2>1, <2>2
<1>5. x.tables[table] = y.tables[table]
  <2> DEFINE f == x.tables[table]
             g == y.tables[table]
             D == DOMAIN a.tables[table]
  <2>1. DOMAIN f = D /\ DOMAIN g = D
    BY <1>3 DEF Saved
  <2>2. f = [id \in DOMAIN f |-> f[id]] /\ g = [id \in DOMAIN g |-> g[id]]
    <3>1. /\ x.tables.calls \in Row(Calls, CallRow) /\ y.tables.calls \in Row(Calls, CallRow)
          /\ x.tables.uses \in Row(Uses, UseRow) /\ y.tables.uses \in Row(Uses, UseRow)
          /\ x.tables.requests \in Row(Requests, AskedRow)
          /\ y.tables.requests \in Row(Requests, AskedRow)
      BY <1>3, RowsTyped
    <3>2. CASE table = "calls"
      BY <3>1, <3>2 DEF Row
    <3>3. CASE table = "uses"
      BY <3>1, <3>3 DEF Row
    <3>4. CASE table = "requests"
      BY <3>1, <3>4 DEF Row
    <3> QED BY <3>2, <3>3, <3>4 DEF SavedTables
  <2>3. \A id \in D : f[id] = g[id]
    BY <1>4
  <2> HIDE DEF f, g, D
  <2>4. f = g
    BY <2>1, <2>2, <2>3
  <2> QED BY <2>4 DEF f, g
<1>6. x.tables.session = y.tables.session
  BY <1>3 DEF Saved
<1>7. \A other \in DOMAIN a.tables : other \notin {table, "session"} =>
        x.tables[other] = y.tables[other]
  BY <1>3 DEF Saved
<1>8. x.tables = y.tables
  <2>1. DOMAIN a.tables = {"session", "runs", "messages", "calls", "uses", "requests", "grants"}
    BY <1>3 DEF TablesType
  <2>2. \A other \in DOMAIN a.tables : x.tables[other] = y.tables[other]
    BY <1>5, <1>6, <1>7
  <2> QED BY <1>3, <2>1, <2>2 DEF TablesType
<1> QED BY <1>1, <1>2, <1>8 DEF Same

(* The memory store saves the rows of a table as the SQLite store does.    *)
LEMMA MemSavesSame ==
  ASSUME NEW d, Sound(d, Workspaces), NEW table, NEW events, Saving(d, table, events)
  PROVE  memAppendEvents(d, events) = insertEvents(d, events)
<1>1. Len(events) \in Nat
  BY DEF Saving
<1>2. PICK after : /\ Inserts(after, d, events, Len(events))
                   /\ insertEvents(d, events) = after[Len(events)]
  BY <1>1, InsertEventsIs
<1>3. PICK memAfter : /\ MemInserts(memAfter, d, events, Len(events))
                      /\ memAppendEvents(d, events) = memAfter[Len(events)]
  BY <1>1, MemAppendEventsIs
<1> DEFINE G == {k \in 0..Len(events) : /\ Sound(after[k], Workspaces)
                                        /\ Saved(d, after[k], table, events, k)
                                        /\ memAfter[k] = after[k]}
<1>4. 0 \in G
  BY <1>1, <1>2, <1>3, SavedBase DEF Inserts, MemInserts
<1>5. ASSUME NEW k \in 1..Len(events), k - 1 \in G PROVE k \in G
  <2> DEFINE x == after[k - 1]
             e == events[k]
  <2>1. Sound(x, Workspaces) /\ Saved(d, x, table, events, k - 1) /\ memAfter[k - 1] = x
    BY <1>5
  <2>2. /\ appendAggregateEventTx(x, e) = Longer(x, e)
        /\ Sound(Longer(x, e), Workspaces)
        /\ Saved(d, Longer(x, e), table, events, k)
        /\ ~Granted(x, e)
    BY <2>1, SavedStep DEF Fits
  <2>3. k \in 0..Len(events) /\ k # 0
    BY <1>1
  <2>4. e \in LaterEvents /\ ~Granted(d, e)
    <3>1. e \in SavedEvents
      BY DEF Saving
    <3> QED BY <3>1 DEF SavedEvents, LaterEvents, Granted, CallEvents, UseEvents, RequestEvents
  <2>5. after[k] = Longer(x, e)
    BY <1>2, <2>2, <2>3 DEF Inserts
  <2>6. memAfter[k] = memAppend(x, e)
    BY <1>3, <2>1, <2>3, <2>4 DEF MemInserts
  <2>7. memAppend(x, e) = Longer(x, e)
    BY <2>1, <2>4, MemAppendIs
  <2> HIDE DEF x
  <2> QED BY <2>2, <2>3, <2>5, <2>6, <2>7
<1> HIDE DEF G
<1>6. \A k \in 0..Len(events) : k \in G
  BY <1>1, <1>4, <1>5, IntervalInduction
<1>7. Len(events) \in 0..Len(events)
  BY <1>1
<1>8. memAfter[Len(events)] = after[Len(events)]
  BY <1>6, <1>7 DEF G
<1> QED BY <1>2, <1>3, <1>8

-----------------------------------------------------------------------------
(* Call by call: what the memory store makes of a database that knows its  *)
(* rows, and that two stores in step stay so.                              *)

(* The databases of the two stores before and after a call.                *)
InStep(a, b) == Sound(a, Workspaces) /\ Sound(b, Workspaces) /\ Same(a, b)

LEMMA InStepAppend ==
  ASSUME NEW a, NEW b, InStep(a, b), NEW e \in LaterEvents
  PROVE  /\ Same(appendAggregateEventTx(a, e), memAppend(b, e))
         /\ memAppend(b, e) = appendAggregateEventTx(b, e)
<1>1. memAppend(b, e) = appendAggregateEventTx(b, e)
  BY MemAppendIs, AppendIs DEF InStep
<1>2. e \in Events
  BY DEF Events
<1> QED BY <1>1, <1>2, SameAppend DEF InStep

LEMMA InStepTyped ==
  ASSUME NEW a, NEW b, InStep(a, b)
  PROVE  /\ Same(a, b) /\ a.tables = b.tables /\ b.tables \in TablesType
         /\ b.tables.session \in SessionRow /\ HasSession(a) /\ HasSession(b)
         /\ \A r \in Runs : HasRun(a, r) <=> HasRun(b, r)
  BY SoundTyped DEF InStep, Same, HasRun

LEMMA RenameEvent ==
  ASSUME NEW t \in Titles
  PROVE  LET e == NewSessionRenamedEvent(t)
         IN e \in RenamedEvents /\ e \in LaterEvents /\ e \notin RequestEvents
<1> DEFINE e == NewSessionRenamedEvent(t)
<1>1. e \in RenamedEvents /\ e.type = "session.renamed"
  BY DEF NewSessionRenamedEvent, Event, RenamedEvents
<1> HIDE DEF e
<1>2. e \in LaterEvents /\ e \notin RequestEvents
  BY <1>1 DEF LaterEvents, RequestEvents
<1> QED BY <1>1, <1>2 DEF e

LEMMA MoveEvent ==
  ASSUME NEW w \in Workspaces \cup {None}
  PROVE  LET e == NewSessionMovedEvent(w)
         IN e \in MovedEvents /\ e \in LaterEvents /\ e \notin RequestEvents
<1> DEFINE e == NewSessionMovedEvent(w)
<1>1. e \in MovedEvents /\ e.type = "session.moved"
  BY DEF NewSessionMovedEvent, Event, MovedEvents
<1> HIDE DEF e
<1>2. e \in LaterEvents /\ e \notin RequestEvents
  BY <1>1 DEF LaterEvents, RequestEvents
<1> QED BY <1>1, <1>2 DEF e

LEMMA MemRename ==
  ASSUME NEW a, NEW b, NEW t \in Titles, NEW expected
  PROVE  LET x == RenameSession(a, t, expected)
             y == memRenameSession(b, t, expected)
         IN /\ Recorded(b) => Recalls(b, y)
            /\ InStep(a, b) => Same(x, y) /\ y = RenameSession(b, t, expected)
<1> DEFINE e == NewSessionRenamedEvent(t)
           y == memRenameSession(b, t, expected)
<1>1. e \in RenamedEvents /\ e \in LaterEvents /\ e \notin RequestEvents
      /\ e.type = "session.renamed" /\ e.snapshot.title = t
  BY RenameEvent DEF NewSessionRenamedEvent, Event
<1> HIDE DEF e
<1>2. y = b \/ y = memAppend(b, e)
  BY DEF memRenameSession, memApplySessionMetadataEvent, e
<1>3. Recorded(b) => Recalls(b, y)
  BY <1>1, <1>2, RecalledSelf, MemAppendRecalls DEF SameAsk
<1>4. ASSUME InStep(a, b)
      PROVE  Same(RenameSession(a, t, expected), y) /\ y = RenameSession(b, t, expected)
  <2>1. /\ Same(a, b) /\ Same(appendAggregateEventTx(a, e), memAppend(b, e))
        /\ memAppend(b, e) = appendAggregateEventTx(b, e)
    BY <1>1, <1>4, InStepAppend, InStepTyped
  <2>2. memAppend(b, e).tables.session.title = t
    <3>1. memAppend(b, e).tables.session = projectSessionEvent(b.tables.session, e)
      BY <1>1, <1>4, InStepTyped, MemAppendIs, ApplySession DEF InStep, Longer
    <3>2. b.tables.session \in SessionRow
      BY <1>4, InStepTyped
    <3> QED BY <1>1, <3>1, <3>2 DEF projectSessionEvent, SessionRow
  <2>3. a.tables = b.tables /\ HasSession(a) /\ HasSession(b)
    BY <1>4, InStepTyped
  <2> QED BY <2>1, <2>2, <2>3
       DEF memRenameSession, memApplySessionMetadataEvent, RenameSession,
           applySessionMetadataEvent, e
<1> QED BY <1>3, <1>4

LEMMA MemMove ==
  ASSUME NEW a, NEW b, NEW w \in Workspaces \cup {None}, NEW expected
  PROVE  LET x == MoveSession(a, w, expected, Workspaces)
             y == memMoveSession(b, w, expected, Workspaces)
         IN /\ Recorded(b) => Recalls(b, y)
            /\ InStep(a, b) => Same(x, y) /\ y = MoveSession(b, w, expected, Workspaces)
<1> DEFINE e == NewSessionMovedEvent(w)
           y == memMoveSession(b, w, expected, Workspaces)
<1>1. e \in MovedEvents /\ e \in LaterEvents /\ e \notin RequestEvents
      /\ e.type = "session.moved" /\ e.snapshot.workspace = w
  BY MoveEvent DEF NewSessionMovedEvent, Event
<1> HIDE DEF e
<1>2. y = b \/ y = memAppend(b, e)
  BY DEF memMoveSession, memApplySessionMetadataEvent, e
<1>3. Recorded(b) => Recalls(b, y)
  BY <1>1, <1>2, RecalledSelf, MemAppendRecalls DEF SameAsk
<1>4. ASSUME InStep(a, b)
      PROVE  /\ Same(MoveSession(a, w, expected, Workspaces), y)
             /\ y = MoveSession(b, w, expected, Workspaces)
  <2>1. /\ Same(a, b) /\ Same(appendAggregateEventTx(a, e), memAppend(b, e))
        /\ memAppend(b, e) = appendAggregateEventTx(b, e)
    BY <1>1, <1>4, InStepAppend, InStepTyped
  <2>2. memAppend(b, e).tables.session.workspace = w
    <3>1. memAppend(b, e).tables.session = projectSessionEvent(b.tables.session, e)
      BY <1>1, <1>4, InStepTyped, MemAppendIs, ApplySession DEF InStep, Longer
    <3>2. b.tables.session \in SessionRow
      BY <1>4, InStepTyped
    <3> QED BY <1>1, <3>1, <3>2 DEF projectSessionEvent, SessionRow
  <2>3. a.tables = b.tables /\ HasSession(a) /\ HasSession(b)
    BY <1>4, InStepTyped
  <2> QED BY <2>1, <2>2, <2>3
       DEF memMoveSession, memApplySessionMetadataEvent, MoveSession,
           applySessionMetadataEvent, e
<1> QED BY <1>3, <1>4

LEMMA MemAdmit ==
  ASSUME NEW a, NEW b, NEW r \in Runs
  PROVE  LET x == AdmitSessionRun(a, r)
             y == memAdmitSessionRun(b, r)
         IN /\ Recorded(b) => Recalls(b, y)
            /\ InStep(a, b) => Same(x, y) /\ y = AdmitSessionRun(b, r)
<1> DEFINE run(d) == [status |-> "queued",
                      sequence |-> 1 + Cardinality({z \in Runs : HasRun(d, z)}),
                      admitted |-> d.tables.session.version + 1]
           e(d) == NewSessionRunAdmittedEvent(r, run(d))
           y == memAdmitSessionRun(b, r)
<1>1. y = IF HasSession(b) /\ ~HasRun(b, r) THEN Longer(b, e(b)) ELSE b
  BY DEF memAdmitSessionRun, Longer
<1>2. ASSUME b.tables.session.version \in Nat
      PROVE  e(b) \in RunEvents /\ e(b) \in LaterEvents /\ e(b) \notin RequestEvents
             /\ e(b) \in Events
  <2> DEFINE ev == e(b)
  <2>1. ev \in RunEvents
    BY <1>2, AdmittedIsRun
  <2> HIDE DEF ev
  <2>2. ev \in LaterEvents /\ ev \notin RequestEvents /\ ev \in Events
    <3>1. ev.type # "session.permission.requested" /\ ev.type # "session.permission.resolved"
      BY <2>1 DEF RunEvents
    <3> QED BY <2>1, <3>1 DEF LaterEvents, Events, RequestEvents
  <2> QED BY <2>1, <2>2 DEF ev
<1>3. ASSUME Recorded(b) PROVE Recalls(b, y)
  <2>1. b.tables.session.version \in Nat
    BY <1>3 DEF Recorded, SessionRow
  <2> DEFINE ev == e(b)
  <2>2. ev \in LaterEvents /\ ev \notin RequestEvents
    BY <1>2, <2>1
  <2>3. y = Longer(b, ev) \/ y = b
    BY <1>1
  <2> HIDE DEF ev, y
  <2> QED BY <1>3, <2>2, <2>3, RecalledSelf, LongerRecalls DEF SameAsk
<1>4. ASSUME InStep(a, b) PROVE Same(AdmitSessionRun(a, r), y) /\ y = AdmitSessionRun(b, r)
  <2>1. /\ a.tables = b.tables /\ HasSession(a) /\ HasSession(b) /\ Same(a, b)
        /\ HasRun(a, r) <=> HasRun(b, r)
        /\ b.tables.session.version \in Nat
    BY <1>4, InStepTyped DEF SessionRow
  <2>2. e(a) = e(b)
    BY <2>1 DEF HasRun
  <2> DEFINE ev == e(b)
  <2>3. ev \in Events
    BY <1>2, <2>1
  <2>4. AdmitSessionRun(a, r) = IF ~HasRun(a, r) THEN appendAggregateEventTx(a, ev) ELSE a
    BY <2>1, <2>2 DEF AdmitSessionRun
  <2>7. AdmitSessionRun(b, r) = IF ~HasRun(b, r) THEN appendAggregateEventTx(b, ev) ELSE b
    BY <2>1 DEF AdmitSessionRun
  <2>5. y = IF ~HasRun(b, r) THEN Longer(b, ev) ELSE b
    BY <1>1, <2>1
  <2> HIDE DEF ev, y, e
  <2>6. /\ Same(appendAggregateEventTx(a, ev), Longer(b, ev))
        /\ Longer(b, ev) = appendAggregateEventTx(b, ev)
    <3>1. Longer(b, ev) = appendAggregateEventTx(b, ev)
      BY <1>4, AppendIs DEF InStep
    <3> QED BY <1>4, <2>3, <3>1, SameAppend DEF InStep
  <2> QED BY <2>1, <2>4, <2>5, <2>6, <2>7
<1> QED BY <1>3, <1>4

LEMMA MemRunMoves ==
  ASSUME NEW a, NEW b, NEW r \in Runs, HasRun(b, r),
         NEW status \in RunTerminal \cup {"queued", "running"}
  PROVE  LET x == RunMoves(a, r, status)
             y == memRunMoves(b, r, status)
         IN /\ Recorded(b) => Recalls(b, y)
            /\ InStep(a, b) => Same(x, y) /\ y = RunMoves(b, r, status)
<1> DEFINE e == NewSessionRunTransitionEvent(r, [b.tables.runs[r] EXCEPT !.status = status])
<1>1. ASSUME b.tables \in TablesType PROVE e \in LaterEvents /\ e \notin RequestEvents
  <2>1. e \in RunEvents
    BY <1>1, MovedRunIsRun
  <2> HIDE DEF e
  <2>2. e.type # "session.permission.requested" /\ e.type # "session.permission.resolved"
    BY <2>1 DEF RunEvents
  <2> QED BY <2>1, <2>2 DEF LaterEvents, RequestEvents
<1>2. memRunMoves(b, r, status) = memAppend(b, e)
  BY DEF memRunMoves
<1>3. /\ a.tables = b.tables => RunMoves(a, r, status) = appendAggregateEventTx(a, e)
      /\ RunMoves(b, r, status) = appendAggregateEventTx(b, e)
  BY DEF RunMoves
<1> HIDE DEF e
<1>4. ASSUME Recorded(b) PROVE Recalls(b, memAppend(b, e))
  <2>1. b.tables \in TablesType
    BY <1>4 DEF Recorded
  <2> QED BY <1>1, <1>4, <2>1, MemAppendRecalls DEF SameAsk
<1>5. InStep(a, b) => /\ Same(appendAggregateEventTx(a, e), memAppend(b, e))
                      /\ memAppend(b, e) = appendAggregateEventTx(b, e)
  BY <1>1, InStepTyped, InStepAppend
<1> QED BY <1>2, <1>3, <1>4, <1>5, InStepTyped

LEMMA MemClaim ==
  ASSUME NEW a, NEW b
  PROVE  LET x == ClaimNextSessionRun(a)
             y == memClaimNextSessionRun(b)
         IN /\ Recorded(b) => Recalls(b, y)
            /\ InStep(a, b) => Same(x, y) /\ y = ClaimNextSessionRun(b)
<1> DEFINE queued == WithStatus(b, "queued")
           first == CHOOSE r \in queued :
                      \A z \in queued : b.tables.runs[r].sequence <= b.tables.runs[z].sequence
           y == memClaimNextSessionRun(b)
<1>1. y = IF queued # {} /\ WithStatus(b, "running") = {}
          THEN memRunMoves(b, first, "running") ELSE b
  BY DEF memClaimNextSessionRun
<1>2. ASSUME NEW d, d.tables = b.tables
      PROVE  ClaimNextSessionRun(d) = IF queued # {} /\ WithStatus(b, "running") = {}
                                      THEN RunMoves(d, first, "running") ELSE d
  BY <1>2 DEF ClaimNextSessionRun, WithStatus, HasRun
<1>3. queued \subseteq Runs /\ \A r \in queued : HasRun(b, r)
  BY DEF WithStatus
<1> HIDE DEF queued
<1>4. ASSUME b.tables \in TablesType, queued # {} PROVE first \in Runs /\ HasRun(b, first)
  <2>1. first \in queued
    BY <1>3, <1>4, FirstOfQueue
  <2> QED BY <1>3, <2>1
<1> HIDE DEF first, y
<1>5. ASSUME Recorded(b) PROVE Recalls(b, y)
  <2>1. b.tables \in TablesType
    BY <1>5 DEF Recorded
  <2> QED BY <1>1, <1>4, <1>5, <2>1, MemRunMoves, RecalledSelf
<1>6. ASSUME InStep(a, b) PROVE Same(ClaimNextSessionRun(a), y) /\ y = ClaimNextSessionRun(b)
  <2>1. a.tables = b.tables /\ b.tables \in TablesType /\ Same(a, b)
    BY <1>6, InStepTyped
  <2>2. /\ ClaimNextSessionRun(a) = IF queued # {} /\ WithStatus(b, "running") = {}
                                    THEN RunMoves(a, first, "running") ELSE a
        /\ ClaimNextSessionRun(b) = IF queued # {} /\ WithStatus(b, "running") = {}
                                    THEN RunMoves(b, first, "running") ELSE b
    BY <1>2, <2>1
  <2> QED BY <1>1, <1>4, <1>6, <2>1, <2>2, MemRunMoves
<1> QED BY <1>5, <1>6 DEF y

LEMMA MemSettle ==
  ASSUME NEW a, NEW b, NEW r \in Runs, NEW expected, NEW status \in RunTerminal
  PROVE  LET x == SettleSessionRun(a, r, expected, status)
             y == memSettleSessionRun(b, r, expected, status)
         IN /\ Recorded(b) => Recalls(b, y)
            /\ InStep(a, b) => Same(x, y) /\ y = SettleSessionRun(b, r, expected, status)
<1> DEFINE y == memSettleSessionRun(b, r, expected, status)
           settles == /\ HasRun(b, r)
                      /\ b.tables.runs[r].status = expected
                      /\ \/ expected = "running"
                         \/ expected = "queued" /\ status = "aborted"
<1>1. y = IF settles THEN memRunMoves(b, r, status) ELSE b
  BY DEF memSettleSessionRun
<1>2. ASSUME NEW d, d.tables = b.tables
      PROVE  SettleSessionRun(d, r, expected, status) =
               IF settles THEN RunMoves(d, r, status) ELSE d
  BY <1>2 DEF SettleSessionRun, HasRun
<1>3. settles => HasRun(b, r)
  OBVIOUS
<1> HIDE DEF settles, y
<1>4. Recorded(b) => Recalls(b, y)
  BY <1>1, <1>3, MemRunMoves, RecalledSelf
<1>5. ASSUME InStep(a, b)
      PROVE  /\ Same(SettleSessionRun(a, r, expected, status), y)
             /\ y = SettleSessionRun(b, r, expected, status)
  <2>1. a.tables = b.tables /\ Same(a, b)
    BY <1>5, InStepTyped
  <2>2. /\ SettleSessionRun(a, r, expected, status) = IF settles THEN RunMoves(a, r, status) ELSE a
        /\ SettleSessionRun(b, r, expected, status) = IF settles THEN RunMoves(b, r, status) ELSE b
    BY <1>2, <2>1
  <2> QED BY <1>1, <1>3, <1>5, <2>1, <2>2, MemRunMoves
<1> QED BY <1>4, <1>5 DEF y

(* The rows of the other tables.                                           *)
LEMMA RowEventFits ==
  ASSUME NEW a, NEW b, NEW e \in MessageEvents \cup CallEvents \cup UseEvents
  PROVE  /\ Recorded(b) => Recalls(b, memAppend(b, e))
         /\ InStep(a, b) => /\ Same(appendAggregateEventTx(a, e), memAppend(b, e))
                            /\ memAppend(b, e) = appendAggregateEventTx(b, e)
<1>1. e \in LaterEvents /\ e \notin RequestEvents
  <2>1. e.type # "session.permission.requested" /\ e.type # "session.permission.resolved"
    BY DEF MessageEvents, CallEvents, UseEvents
  <2> QED BY <2>1 DEF LaterEvents, RequestEvents
<1>2. Recorded(b) => Recalls(b, memAppend(b, e))
  BY <1>1, MemAppendRecalls DEF SameAsk
<1>3. InStep(a, b) => /\ Same(appendAggregateEventTx(a, e), memAppend(b, e))
                      /\ memAppend(b, e) = appendAggregateEventTx(b, e)
  BY <1>1, InStepAppend
<1> QED BY <1>2, <1>3

LEMMA MemSaveMessage ==
  ASSUME NEW a, NEW b, NEW m \in Messages, NEW message \in MessageRow
  PROVE  LET x == SaveMessage(a, m, message)
             y == memSaveMessage(b, m, message)
         IN /\ Recorded(b) => Recalls(b, y)
            /\ (InStep(a, b) /\ KeepsToolParts(a, m, message) /\ PartsAreFree(a, m, message)) =>
                 Same(x, y) /\ y = SaveMessage(b, m, message)
<1> DEFINE e == NewSessionMessageSavedEvent(m, message)
           y == memSaveMessage(b, m, message)
<1>1. e \in MessageEvents
  BY DEF NewSessionMessageSavedEvent, Event, MessageEvents
<1> HIDE DEF e
<1>2. y = b \/ y = memAppend(b, e)
  BY DEF memSaveMessage, e
<1>3. Recorded(b) => Recalls(b, y)
  <2> HIDE DEF y
  <2> QED BY <1>1, <1>2, RowEventFits, RecalledSelf
<1>4. ASSUME InStep(a, b), KeepsToolParts(a, m, message), PartsAreFree(a, m, message)
      PROVE  Same(SaveMessage(a, m, message), y) /\ y = SaveMessage(b, m, message)
  <2> DEFINE existing == a.tables.messages[m]
             saves == IF existing = None
                      THEN IndexIsFree(a, m, message) /\ HasRun(a, message.run)
                      ELSE /\ sameMessageIdentity(existing, message)
                           /\ message.revision > existing.revision
  <2>1. /\ Same(a, b) /\ Same(appendAggregateEventTx(a, e), memAppend(b, e))
        /\ memAppend(b, e) = appendAggregateEventTx(b, e)
        /\ a.tables = b.tables /\ HasSession(a) /\ HasSession(b)
    BY <1>1, <1>4, RowEventFits, InStepTyped
  <2>2. /\ HasRun(b, message.run) <=> HasRun(a, message.run)
        /\ IndexIsFree(b, m, message) <=> IndexIsFree(a, m, message)
        /\ PartsAreFree(b, m, message)
    BY <1>4, <2>1 DEF HasRun, IndexIsFree, PartsAreFree, StoredOthers
  <2>3. ASSUME NEW d, Sound(d, Workspaces), HasSession(d), d.tables = a.tables
        PROVE  SaveMessage(d, m, message) = IF saves THEN appendAggregateEventTx(d, e) ELSE d
    <3>1. KeepsToolParts(d, m, message)
      BY <1>4, <2>3 DEF KeepsToolParts
    <3>2. existing # None => replaceMessageRevisionTx(d, m, message) = d
      BY <2>3, <3>1, NothingDropped
    <3>3. /\ HasRun(d, message.run) <=> HasRun(a, message.run)
          /\ IndexIsFree(d, m, message) <=> IndexIsFree(a, m, message)
          /\ PartsAreFree(d, m, message)
      BY <1>4, <2>3 DEF HasRun, IndexIsFree, PartsAreFree, StoredOthers
    <3> QED BY <2>3, <3>2, <3>3 DEF SaveMessage, e
  <2>4. existing # None =>
          ((message.revision > existing.revision) <=> ~(message.revision <= existing.revision))
    <3>1. message.revision \in Nat
      BY DEF MessageRow
    <3>2. existing # None => existing.revision \in Nat
      BY <2>1, <1>4, InStepTyped, RowsTyped DEF MessageRow
    <3> QED BY <3>1, <3>2
  <2>5. y = IF saves THEN memAppend(b, e) ELSE b
    BY <2>1, <2>2, <2>4 DEF memSaveMessage, e
  <2> HIDE DEF y, saves
  <2>6. /\ SaveMessage(a, m, message) = IF saves THEN appendAggregateEventTx(a, e) ELSE a
        /\ SaveMessage(b, m, message) = IF saves THEN appendAggregateEventTx(b, e) ELSE b
    BY <1>4, <2>1, <2>3 DEF InStep
  <2> QED BY <2>1, <2>5, <2>6
<1> QED BY <1>3, <1>4

LEMMA MemUpsert ==
  ASSUME NEW a, NEW b, NEW c \in Calls, NEW call \in CallRow
  PROVE  LET x == UpsertModelCall(a, c, call)
             y == memUpsertModelCall(b, c, call)
         IN /\ Recorded(b) => Recalls(b, y)
            /\ InStep(a, b) => Same(x, y) /\ y = UpsertModelCall(b, c, call)
<1> DEFINE existing == b.tables.calls[c]
           kept == IF existing = None THEN call ELSE [existing EXCEPT !.status = call.status]
           e == NewSessionModelCallSavedEvent(c, kept)
           y == memUpsertModelCall(b, c, call)
           others == \E z \in Calls : /\ b.tables.calls[z] # None
                                      /\ b.tables.calls[z].run = call.run
                                      /\ b.tables.calls[z].attempt = call.attempt
           taken == \E z \in Calls \ {c} : /\ b.tables.calls[z] # None
                                           /\ b.tables.calls[z].run = call.run
                                           /\ b.tables.calls[z].attempt = call.attempt
<1>1. ASSUME b.tables \in TablesType PROVE e \in CallEvents
  <2>1. existing # None => existing \in CallRow
    BY <1>1, RowsTyped
  <2>2. kept \in CallRow
    BY <2>1 DEF CallRow
  <2> HIDE DEF kept
  <2> QED BY <2>2 DEF NewSessionModelCallSavedEvent, Event, CallEvents
<1>2. y = IF existing = None /\ (~HasRun(b, call.run) \/ others) THEN b ELSE memAppend(b, e)
  BY DEF memUpsertModelCall
<1>3. existing = None => (others <=> taken)
  OBVIOUS
<1>4. ASSUME NEW d, d.tables = b.tables
      PROVE  UpsertModelCall(d, c, call) =
               IF existing # None THEN appendAggregateEventTx(d, e)
               ELSE IF HasRun(b, call.run) /\ ~taken THEN appendAggregateEventTx(d, e) ELSE d
  BY <1>4 DEF UpsertModelCall, HasRun
<1> HIDE DEF e, y, others, taken, existing, kept
<1>5. ASSUME Recorded(b) PROVE Recalls(b, y)
  <2>1. e \in CallEvents
    BY <1>1, <1>5 DEF Recorded
  <2> QED BY <1>2, <1>5, <2>1, RowEventFits, RecalledSelf
<1>6. ASSUME InStep(a, b)
      PROVE  Same(UpsertModelCall(a, c, call), y) /\ y = UpsertModelCall(b, c, call)
  <2>1. a.tables = b.tables /\ b.tables \in TablesType /\ Same(a, b)
    BY <1>6, InStepTyped
  <2>2. /\ Same(appendAggregateEventTx(a, e), memAppend(b, e))
        /\ memAppend(b, e) = appendAggregateEventTx(b, e)
    BY <1>1, <1>6, <2>1, RowEventFits
  <2>3. /\ UpsertModelCall(a, c, call) =
             IF existing # None THEN appendAggregateEventTx(a, e)
             ELSE IF HasRun(b, call.run) /\ ~taken THEN appendAggregateEventTx(a, e) ELSE a
        /\ UpsertModelCall(b, c, call) =
             IF existing # None THEN appendAggregateEventTx(b, e)
             ELSE IF HasRun(b, call.run) /\ ~taken THEN appendAggregateEventTx(b, e) ELSE b
    BY <1>4, <2>1
  <2> QED BY <1>2, <1>3, <2>1, <2>2, <2>3
<1> QED BY <1>5, <1>6 DEF y

LEMMA MemSaveUse ==
  ASSUME NEW a, NEW b, NEW u \in Uses, NEW use \in UseRow
  PROVE  LET x == SaveToolUse(a, u, use)
             y == memSaveToolUse(b, u, use)
         IN /\ Recorded(b) => Recalls(b, y)
            /\ (InStep(a, b) /\ use.part \in StoredParts(a.tables)) =>
                 Same(x, y) /\ y = SaveToolUse(b, u, use)
<1> DEFINE e == NewSessionToolUseSavedEvent(u, use)
           y == memSaveToolUse(b, u, use)
<1>1. e \in UseEvents
  BY DEF NewSessionToolUseSavedEvent, Event, UseEvents
<1> HIDE DEF e
<1>2. y = b \/ y = memAppend(b, e)
  BY DEF memSaveToolUse, e
<1>3. Recorded(b) => Recalls(b, y)
  <2> HIDE DEF y
  <2> QED BY <1>1, <1>2, RowEventFits, RecalledSelf
<1>4. ASSUME InStep(a, b), use.part \in StoredParts(a.tables)
      PROVE  Same(SaveToolUse(a, u, use), y) /\ y = SaveToolUse(b, u, use)
  <2>1. /\ Same(a, b) /\ Same(appendAggregateEventTx(a, e), memAppend(b, e))
        /\ memAppend(b, e) = appendAggregateEventTx(b, e) /\ a.tables = b.tables
    BY <1>1, <1>4, RowEventFits, InStepTyped
  <2>2. use.run \in Runs
    BY DEF UseRow
  <2>3. /\ HasRun(a, use.run) <=> HasRun(b, use.run)
        /\ PlaceIsTaken(a, use) <=> PlaceIsTaken(b, use)
    BY <1>4, <2>1, <2>2, InStepTyped DEF PlaceIsTaken
  <2> DEFINE saves == IF a.tables.uses[u] = None
                      THEN /\ HasRun(a, use.run) /\ use.status = "proposed"
                           /\ ~PlaceIsTaken(a, use)
                      ELSE /\ sameToolUseIdentity(a.tables.uses[u], use)
                           /\ legalToolUseTransition(a.tables.uses[u].status, use.status)
  <2>4. /\ SaveToolUse(a, u, use) = IF saves THEN appendAggregateEventTx(a, e) ELSE a
        /\ SaveToolUse(b, u, use) = IF saves THEN appendAggregateEventTx(b, e) ELSE b
    BY <1>4, <2>1, <2>3 DEF SaveToolUse, e
  <2>5. y = IF saves THEN memAppend(b, e) ELSE b
    BY <2>1, <2>3 DEF memSaveToolUse, e
  <2> HIDE DEF y, saves
  <2> QED BY <2>1, <2>4, <2>5
<1> QED BY <1>3, <1>4

LEMMA MemAsk ==
  ASSUME NEW a, NEW b, NEW q \in Requests, NEW run \in Runs, NEW list \in Seq(Resources)
  PROVE  LET x == CreatePermissionRequest(a, q, run, list)
             y == memCreatePermissionRequest(b, q, run, list)
         IN /\ Recorded(b) => Recalls(b, y)
            /\ InStep(a, b) => Same(x, y) /\ y = CreatePermissionRequest(b, q, run, list)
<1> DEFINE e == Requested(q, list)
           y == memCreatePermissionRequest(b, q, run, list)
<1>1. e \in RequestEvents /\ e.id = q
  BY RequestedIsRequest
<1> HIDE DEF e
<1>2. e \in LaterEvents
  BY <1>1, RowEvents
<1>3. y = IF HasRun(b, run) /\ b.tables.requests[q] = None THEN memAppend(b, e) ELSE b
  BY DEF memCreatePermissionRequest, Requested, e
<1>4. /\ CreatePermissionRequest(a, q, run, list) =
           IF HasRun(a, run) /\ a.tables.requests[q] = None THEN appendAggregateEventTx(a, e) ELSE a
      /\ CreatePermissionRequest(b, q, run, list) =
           IF HasRun(b, run) /\ b.tables.requests[q] = None THEN appendAggregateEventTx(b, e) ELSE b
  BY DEF CreatePermissionRequest, Requested, e
<1> HIDE DEF y
<1>5. ASSUME Recorded(b) PROVE Recalls(b, y)
  <2>1. b.tables.requests[q] = None => SameAsk(b.tables, e)
    BY <1>1 DEF SameAsk
  <2> QED BY <1>2, <1>3, <1>5, <2>1, MemAppendRecalls, RecalledSelf
<1>6. ASSUME InStep(a, b)
      PROVE  /\ Same(CreatePermissionRequest(a, q, run, list), y)
             /\ y = CreatePermissionRequest(b, q, run, list)
  <2>1. /\ Same(a, b) /\ a.tables = b.tables
        /\ HasRun(a, run) <=> HasRun(b, run)
        /\ Same(appendAggregateEventTx(a, e), memAppend(b, e))
        /\ memAppend(b, e) = appendAggregateEventTx(b, e)
    BY <1>2, <1>6, InStepTyped, InStepAppend
  <2> QED BY <1>3, <1>4, <2>1
<1> QED BY <1>5, <1>6 DEF y

(* The interrupted rows, listed in any order.                              *)
LEMMA SavedRecall ==
  ASSUME NEW b, Recorded(b), NEW table, NEW events, Saving(b, table, events),
         \A i \in 1..Len(events) : events[i].type # "session.permission.requested"
  PROVE  Recalls(b, memAppendEvents(b, events))
<1>1. Len(events) \in Nat /\ \A i \in 1..Len(events) : events[i] \in SavedEvents
  BY DEF Saving
<1>2. \A i \in 1..Len(events) : events[i] \in LaterEvents
  BY <1>1 DEF SavedEvents, LaterEvents
<1>3. ASSUME NEW i \in 1..Len(events), events[i] \in RequestEvents
      PROVE  /\ b.tables.requests[events[i].id] # None
             /\ SameAsk(b.tables, events[i])
  <2>1. b.tables \in TablesType
    BY DEF Recorded
  <2>2. TableOf(events[i].type) = "requests" /\ table = "requests"
    BY <1>3, EventTypes DEF Saving
  <2>3. Accepts(b.tables, events[i], 0)
    BY <2>1 DEF Saving
  <2> QED BY <1>3, <2>2, <2>3 DEF Accepts, ProjectSessionPermissionRequests, SameAsk
<1> QED BY <1>1, <1>2, <1>3, MemEventsRecall

LEMMA MemInterruptUses ==
  ASSUME NEW a, NEW b, NEW list \in SetToSeqs(ActiveUses(a)),
         NEW memList \in SetToSeqs(ActiveUses(b))
  PROVE  LET x == InterruptActiveToolUses(a, list)
             y == memInterruptActiveToolUses(b, memList)
         IN /\ Recorded(b) => Recalls(b, y)
            /\ InStep(a, b) => Same(x, y) /\ Sound(y, Workspaces)
<1> DEFINE es == Interrupted(a, list)
           fs == Interrupted(b, memList)
           y == memInterruptActiveToolUses(b, memList)
<1>1. y = memAppendEvents(b, fs)
  BY DEF memInterruptActiveToolUses, Interrupted
<1>2. \A i \in 1..Len(memList) : fs[i].type = "session.tool_use.saved"
  BY DEF Interrupted, NewSessionToolUseSavedEvent, Event
<1> HIDE DEF y
<1>3. ASSUME Recorded(b) PROVE Recalls(b, y)
  <2>1. Saving(b, "uses", fs) /\ Len(fs) = Len(memList)
    BY <1>3, InterruptedSaving DEF Recorded
  <2> HIDE DEF fs
  <2>2. \A i \in 1..Len(fs) : fs[i].type # "session.permission.requested"
    BY <1>2, <2>1
  <2> QED BY <1>1, <1>3, <2>1, <2>2, SavedRecall
<1>4. ASSUME InStep(a, b) PROVE Same(InterruptActiveToolUses(a, list), y) /\ Sound(y, Workspaces)
  <2>1. /\ Sound(a, Workspaces) /\ Sound(b, Workspaces) /\ a.tables = b.tables /\ Same(a, b)
        /\ b.tables \in TablesType
    BY <1>4, InStepTyped DEF InStep
  <2> DEFINE S == ActiveUses(b)
             n == Len(list)
  <2>2. ActiveUses(a) = S /\ IsFiniteSet(S)
    BY <2>1, ActiveFinite DEF ActiveUses
  <2> HIDE DEF S
  <2>3. /\ Len(memList) = n /\ n \in Nat
        /\ \A i \in 1..n : list[i] \in S /\ memList[i] \in S
        /\ \A z \in S : \E i \in 1..n : list[i] = z
        /\ \A z \in S : \E i \in 1..n : memList[i] = z
    BY <2>2, ListOf DEF S
  <2>4. Saving(b, "uses", fs)
    BY <2>1, InterruptedSaving
  <2>5. y = InterruptActiveToolUses(b, memList)
    BY <1>1, <2>1, <2>4, MemSavesSame DEF InterruptActiveToolUses, Interrupted
  <2>6. /\ Fits(a, InterruptActiveToolUses(a, list), Workspaces)
        /\ Saved(a, InterruptActiveToolUses(a, list), "uses", es, n)
    BY <2>1, InterruptUsesIs
  <2>7. Fits(b, y, Workspaces) /\ Saved(b, y, "uses", fs, n)
    BY <2>1, <2>3, <2>5, InterruptUsesIs
  <2> DEFINE event(u) == NewSessionToolUseSavedEvent(u,
                           [b.tables.uses[u] EXCEPT !.status = "interrupted"])
  <2>8. \A i \in 1..n : es[i] = event(list[i]) /\ fs[i] = event(memList[i])
    BY <2>1, <2>3 DEF Interrupted
  <2>12. \A z : event(z).id = z
    BY DEF NewSessionToolUseSavedEvent, Event
  <2>13. DOMAIN b.tables["uses"] = Uses /\ S \subseteq Uses
    BY <2>1, RowsTyped DEF Row, S, ActiveUses
  <2> HIDE DEF es, fs, event, n
  <2>9. /\ \A i \in 1..n : \E j \in 1..n : fs[j] = es[i]
        /\ \A i \in 1..n : \E j \in 1..n : es[j] = fs[i]
    <3>1. \A i \in 1..n : \E j \in 1..n : memList[j] = list[i]
      BY <2>3
    <3>2. \A i \in 1..n : \E j \in 1..n : list[j] = memList[i]
      BY <2>3
    <3>3. ASSUME NEW i \in 1..n PROVE \E j \in 1..n : fs[j] = es[i]
      <4>1. PICK j \in 1..n : memList[j] = list[i]
        BY <3>1
      <4> QED BY <2>8, <4>1
    <3>4. ASSUME NEW i \in 1..n PROVE \E j \in 1..n : es[j] = fs[i]
      <4>1. PICK j \in 1..n : list[j] = memList[i]
        BY <3>2
      <4> QED BY <2>8, <4>1
    <3> QED BY <3>3, <3>4
  <2>10. \A i \in 1..n : es[i].id \in DOMAIN a.tables["uses"]
    <3> TAKE i \in 1..n
    <3>1. es[i].id = list[i]
      BY <2>8, <2>12
    <3> QED BY <2>1, <2>3, <2>13, <3>1
  <2>11. "uses" \in SavedTables
    BY DEF SavedTables
  <2> QED BY <2>1, <2>6, <2>7, <2>9, <2>10, <2>11, SameSaved DEF Fits
<1> QED BY <1>3, <1>4 DEF y

LEMMA MemInterruptCalls ==
  ASSUME NEW a, NEW b, NEW run, NEW list \in SetToSeqs(ActiveCalls(a, run)),
         NEW memList \in SetToSeqs(ActiveCalls(b, run))
  PROVE  LET x == InterruptActiveModelCalls(a, list)
             y == memInterruptActiveModelCalls(b, memList)
         IN /\ Recorded(b) => Recalls(b, y)
            /\ InStep(a, b) => Same(x, y) /\ Sound(y, Workspaces)
<1> DEFINE es == Aborted(a, list)
           fs == Aborted(b, memList)
           y == memInterruptActiveModelCalls(b, memList)
<1>1. y = memAppendEvents(b, fs)
  BY DEF memInterruptActiveModelCalls, Aborted
<1>2. \A i \in 1..Len(memList) : fs[i].type = "session.model_call.saved"
  BY DEF Aborted, NewSessionModelCallSavedEvent, Event
<1> HIDE DEF y
<1>3. ASSUME Recorded(b) PROVE Recalls(b, y)
  <2>1. Saving(b, "calls", fs) /\ Len(fs) = Len(memList)
    BY <1>3, AbortedSaving DEF Recorded
  <2> HIDE DEF fs
  <2>2. \A i \in 1..Len(fs) : fs[i].type # "session.permission.requested"
    BY <1>2, <2>1
  <2> QED BY <1>1, <1>3, <2>1, <2>2, SavedRecall
<1>4. ASSUME InStep(a, b) PROVE Same(InterruptActiveModelCalls(a, list), y) /\ Sound(y, Workspaces)
  <2>1. /\ Sound(a, Workspaces) /\ Sound(b, Workspaces) /\ a.tables = b.tables /\ Same(a, b)
        /\ b.tables \in TablesType
    BY <1>4, InStepTyped DEF InStep
  <2> DEFINE S == ActiveCalls(b, run)
             n == Len(list)
  <2>2. ActiveCalls(a, run) = S /\ IsFiniteSet(S)
    BY <2>1, ActiveFinite DEF ActiveCalls
  <2> HIDE DEF S
  <2>3. /\ Len(memList) = n /\ n \in Nat
        /\ \A i \in 1..n : list[i] \in S /\ memList[i] \in S
        /\ \A z \in S : \E i \in 1..n : list[i] = z
        /\ \A z \in S : \E i \in 1..n : memList[i] = z
    BY <2>2, ListOf DEF S
  <2>4. Saving(b, "calls", fs)
    BY <2>1, AbortedSaving
  <2>5. y = InterruptActiveModelCalls(b, memList)
    BY <1>1, <2>1, <2>4, MemSavesSame DEF InterruptActiveModelCalls, Aborted
  <2>6. /\ Fits(a, InterruptActiveModelCalls(a, list), Workspaces)
        /\ Saved(a, InterruptActiveModelCalls(a, list), "calls", es, n)
    BY <2>1, InterruptCallsIs
  <2>7. Fits(b, y, Workspaces) /\ Saved(b, y, "calls", fs, n)
    BY <2>1, <2>3, <2>5, InterruptCallsIs
  <2> DEFINE event(c) == NewSessionModelCallSavedEvent(c,
                           [b.tables.calls[c] EXCEPT !.status = "aborted"])
  <2>8. \A i \in 1..n : es[i] = event(list[i]) /\ fs[i] = event(memList[i])
    BY <2>1, <2>3 DEF Aborted
  <2>12. \A z : event(z).id = z
    BY DEF NewSessionModelCallSavedEvent, Event
  <2>13. DOMAIN b.tables["calls"] = Calls /\ S \subseteq Calls
    BY <2>1, RowsTyped DEF Row, S, ActiveCalls
  <2> HIDE DEF es, fs, event, n
  <2>9. /\ \A i \in 1..n : \E j \in 1..n : fs[j] = es[i]
        /\ \A i \in 1..n : \E j \in 1..n : es[j] = fs[i]
    <3>1. \A i \in 1..n : \E j \in 1..n : memList[j] = list[i]
      BY <2>3
    <3>2. \A i \in 1..n : \E j \in 1..n : list[j] = memList[i]
      BY <2>3
    <3>3. ASSUME NEW i \in 1..n PROVE \E j \in 1..n : fs[j] = es[i]
      <4>1. PICK j \in 1..n : memList[j] = list[i]
        BY <3>1
      <4> QED BY <2>8, <4>1
    <3>4. ASSUME NEW i \in 1..n PROVE \E j \in 1..n : es[j] = fs[i]
      <4>1. PICK j \in 1..n : list[j] = memList[i]
        BY <3>2
      <4> QED BY <2>8, <4>1
    <3> QED BY <3>3, <3>4
  <2>10. \A i \in 1..n : es[i].id \in DOMAIN a.tables["calls"]
    <3> TAKE i \in 1..n
    <3>1. es[i].id = list[i]
      BY <2>8, <2>12
    <3> QED BY <2>1, <2>3, <2>13, <3>1
  <2>11. "calls" \in SavedTables
    BY DEF SavedTables
  <2> QED BY <2>1, <2>6, <2>7, <2>9, <2>10, <2>11, SameSaved DEF Fits
<1> QED BY <1>3, <1>4 DEF y

LEMMA MemInterruptRequests ==
  ASSUME NEW a, NEW b, NEW list \in SetToSeqs(PendingRequests(a)),
         NEW memList \in SetToSeqs(PendingRequests(b))
  PROVE  LET x == InterruptPendingPermissionRequests(a, list)
             y == memInterruptPendingPermissionRequests(b, memList)
         IN /\ Recorded(b) => Recalls(b, y)
            /\ InStep(a, b) => Same(x, y) /\ Sound(y, Workspaces)
<1> DEFINE es == Dismissed(a, list)
           fs == Dismissed(b, memList)
           y == memInterruptPendingPermissionRequests(b, memList)
<1>1. y = memAppendEvents(b, fs)
  BY DEF memInterruptPendingPermissionRequests, Dismissed
<1>2. \A i \in 1..Len(memList) : fs[i].type = "session.permission.resolved"
  BY DEF Dismissed, Resolution, NewSessionPermissionResolutionEvent, Event
<1> HIDE DEF y
<1>3. ASSUME Recorded(b) PROVE Recalls(b, y)
  <2>1. Saving(b, "requests", fs) /\ Len(fs) = Len(memList)
    BY <1>3, DismissedSaving DEF Recorded
  <2> HIDE DEF fs
  <2>2. \A i \in 1..Len(fs) : fs[i].type # "session.permission.requested"
    BY <1>2, <2>1
  <2> QED BY <1>1, <1>3, <2>1, <2>2, SavedRecall
<1>4. ASSUME InStep(a, b)
      PROVE  Same(InterruptPendingPermissionRequests(a, list), y) /\ Sound(y, Workspaces)
  <2>1. /\ Sound(a, Workspaces) /\ Sound(b, Workspaces) /\ a.tables = b.tables /\ Same(a, b)
        /\ b.tables \in TablesType
    BY <1>4, InStepTyped DEF InStep
  <2> DEFINE S == PendingRequests(b)
             n == Len(list)
  <2>2. PendingRequests(a) = S /\ IsFiniteSet(S)
    BY <2>1, ActiveFinite DEF PendingRequests, IsPending
  <2> HIDE DEF S
  <2>3. /\ Len(memList) = n /\ n \in Nat
        /\ \A i \in 1..n : list[i] \in S /\ memList[i] \in S
        /\ \A z \in S : \E i \in 1..n : list[i] = z
        /\ \A z \in S : \E i \in 1..n : memList[i] = z
    BY <2>2, ListOf DEF S
  <2>4. Saving(b, "requests", fs)
    BY <2>1, DismissedSaving
  <2>5. y = InterruptPendingPermissionRequests(b, memList)
    BY <1>1, <2>1, <2>4, MemSavesSame DEF InterruptPendingPermissionRequests, Dismissed
  <2>6. /\ Fits(a, InterruptPendingPermissionRequests(a, list), Workspaces)
        /\ Saved(a, InterruptPendingPermissionRequests(a, list), "requests", es, n)
    BY <2>1, InterruptRequestsIs
  <2>7. Fits(b, y, Workspaces) /\ Saved(b, y, "requests", fs, n)
    BY <2>1, <2>3, <2>5, InterruptRequestsIs
  <2> DEFINE event(q) == Resolution(b, q, "interrupted", "")
  <2>8. \A i \in 1..n : es[i] = event(list[i]) /\ fs[i] = event(memList[i])
    BY <2>1, <2>3 DEF Dismissed, Resolution
  <2>12. \A z : event(z).id = z
    BY DEF Resolution, NewSessionPermissionResolutionEvent, Event
  <2>13. DOMAIN b.tables["requests"] = Requests /\ S \subseteq Requests
    BY <2>1, RowsTyped DEF Row, S, PendingRequests
  <2> HIDE DEF es, fs, event, n
  <2>9. /\ \A i \in 1..n : \E j \in 1..n : fs[j] = es[i]
        /\ \A i \in 1..n : \E j \in 1..n : es[j] = fs[i]
    <3>1. \A i \in 1..n : \E j \in 1..n : memList[j] = list[i]
      BY <2>3
    <3>2. \A i \in 1..n : \E j \in 1..n : list[j] = memList[i]
      BY <2>3
    <3>3. ASSUME NEW i \in 1..n PROVE \E j \in 1..n : fs[j] = es[i]
      <4>1. PICK j \in 1..n : memList[j] = list[i]
        BY <3>1
      <4> QED BY <2>8, <4>1
    <3>4. ASSUME NEW i \in 1..n PROVE \E j \in 1..n : es[j] = fs[i]
      <4>1. PICK j \in 1..n : list[j] = memList[i]
        BY <3>2
      <4> QED BY <2>8, <4>1
    <3> QED BY <3>3, <3>4
  <2>10. \A i \in 1..n : es[i].id \in DOMAIN a.tables["requests"]
    <3> TAKE i \in 1..n
    <3>1. es[i].id = list[i]
      BY <2>8, <2>12
    <3> QED BY <2>1, <2>3, <2>13, <3>1
  <2>11. "requests" \in SavedTables
    BY DEF SavedTables
  <2> QED BY <2>1, <2>6, <2>7, <2>9, <2>10, <2>11, SameSaved DEF Fits
<1> QED BY <1>3, <1>4 DEF y

-----------------------------------------------------------------------------
(* Under an "always" the memory store looks for a grant where the call     *)
(* began, the SQLite store where it has come to: which is the same unless  *)
(* the request names a resource twice.                                     *)
LEMMA MemGrants ==
  ASSUME NEW w, Sound(w, Workspaces), NEW list \in Seq(Resources), IsInjective(list),
         \A i \in 1..Len(list) : Allowed(w.tables, list[i])
  PROVE  memAppendEvents(w, GrantsFor(list)) = insertEvents(w, GrantsFor(list))
<1> DEFINE n == Len(list)
           events == GrantsFor(list)
<1>1. /\ n \in Nat /\ DOMAIN list = 1..n
      /\ \A i \in 1..n : list[i] \in Resources
      /\ \A i, j \in 1..n : list[i] = list[j] => i = j
  BY DEF IsInjective
<1>2. Len(events) = n /\ \A i \in 1..n : events[i] = NewSessionPermissionGrantCreatedEvent(list[i])
  BY <1>1 DEF GrantsFor
<1> HIDE DEF n, events
<1>3. PICK after : Inserts(after, w, events, n) /\ insertEvents(w, events) = after[n]
  BY <1>1, <1>2, InsertEventsIs
<1>4. PICK memAfter : MemInserts(memAfter, w, events, n) /\ memAppendEvents(w, events) = memAfter[n]
  BY <1>1, <1>2, MemAppendEventsIs
<1>5. \A k \in 0..n : /\ Fits(w, after[k], Workspaces)
                      /\ after[k].tables.requests = w.tables.requests
                      /\ after[k].tables.grants = w.tables.grants \cup {list[i] : i \in 1..k}
  BY <1>3, GrantsFit DEF n, events
<1> DEFINE G == {k \in 0..n : memAfter[k] = after[k]}
<1>6. 0 \in G
  <2>1. 0 \in 0..n
    BY <1>1
  <2> QED BY <1>3, <1>4, <2>1 DEF Inserts, MemInserts
<1>7. ASSUME NEW k \in 1..n, k - 1 \in G PROVE k \in G
  <2> DEFINE x == after[k - 1]
             e == events[k]
  <2>1. k \in 0..n /\ k # 0 /\ k - 1 \in 0..n /\ memAfter[k - 1] = x
    BY <1>1, <1>7
  <2>2. after[k] = IF Granted(x, e) THEN x ELSE appendAggregateEventTx(x, e)
    BY <1>3, <2>1 DEF Inserts
  <2>3. memAfter[k] = IF Granted(w, e) THEN x ELSE memAppend(x, e)
    BY <1>4, <2>1 DEF MemInserts
  <2>4. /\ Sound(x, Workspaces) /\ x.tables.requests = w.tables.requests
        /\ x.tables.grants = w.tables.grants \cup {list[i] : i \in 1..(k - 1)}
    BY <1>5, <2>1 DEF Fits
  <2>5. list[k] \notin {list[i] : i \in 1..(k - 1)}
    <3>1. \A i \in 1..(k - 1) : i \in 1..n /\ i # k
      BY <1>1
    <3> QED BY <1>1, <3>1
  <2> HIDE DEF x
  <2>6. e = NewSessionPermissionGrantCreatedEvent(list[k]) /\ list[k] \in Resources
    BY <1>1, <1>2
  <2>7. Allowed(w.tables, list[k])
    BY DEF n
  <2>8. Allowed(x.tables, list[k])
    BY <2>4, <2>7 DEF Allowed
  <2>9. Granted(x, e) <=> Granted(w, e)
    BY <2>4, <2>5, <2>6, <2>7, <2>8, GrantFits
  <2>10. appendAggregateEventTx(x, e) = memAppend(x, e)
    BY <2>4, <2>6, GrantIsEvent, AppendIs, MemAppendIs
  <2> QED BY <2>1, <2>2, <2>3, <2>9, <2>10
<1> HIDE DEF G
<1>8. \A k \in 0..n : k \in G
  BY <1>1, <1>6, <1>7, IntervalInduction
<1>9. memAfter[n] = after[n]
  BY <1>1, <1>8 DEF G
<1> QED BY <1>3, <1>4, <1>9 DEF events

LEMMA SameGrants ==
  ASSUME NEW a, NEW b, InStep(a, b), NEW list \in Seq(Resources),
         \A i \in 1..Len(list) : Allowed(b.tables, list[i])
  PROVE  Same(insertEvents(a, GrantsFor(list)), insertEvents(b, GrantsFor(list)))
<1> DEFINE n == Len(list)
           events == GrantsFor(list)
<1>1. n \in Nat /\ \A i \in 1..n : list[i] \in Resources
  OBVIOUS
<1>2. Len(events) = n /\ \A i \in 1..n : events[i] = NewSessionPermissionGrantCreatedEvent(list[i])
  BY <1>1 DEF GrantsFor
<1>3. /\ Sound(a, Workspaces) /\ Sound(b, Workspaces) /\ Same(a, b)
      /\ \A i \in 1..n : Allowed(a.tables, list[i])
  BY DEF InStep, Same
<1> HIDE DEF n, events
<1>4. PICK f : Inserts(f, a, events, n) /\ insertEvents(a, events) = f[n]
  BY <1>1, <1>2, InsertEventsIs
<1>5. PICK g : Inserts(g, b, events, n) /\ insertEvents(b, events) = g[n]
  BY <1>1, <1>2, InsertEventsIs
<1>6. \A k \in 0..n : Sound(f[k], Workspaces)
  BY <1>3, <1>4, GrantsFit DEF n, events, Fits
<1>7. \A k \in 0..n : Sound(g[k], Workspaces)
  BY <1>3, <1>5, GrantsFit DEF n, events, Fits
<1> DEFINE G == {k \in 0..n : Same(f[k], g[k])}
<1>8. 0 \in G
  <2>1. 0 \in 0..n
    BY <1>1
  <2>2. f[0] = a /\ g[0] = b
    BY <1>4, <1>5, <2>1 DEF Inserts
  <2> QED BY <1>3, <2>1, <2>2
<1>9. ASSUME NEW k \in 1..n, k - 1 \in G PROVE k \in G
  <2> DEFINE x == f[k - 1]
             y == g[k - 1]
             e == events[k]
  <2>1. k \in 0..n /\ k # 0 /\ k - 1 \in 0..n /\ Same(x, y)
    BY <1>1, <1>9
  <2>2. /\ f[k] = IF Granted(x, e) THEN x ELSE appendAggregateEventTx(x, e)
        /\ g[k] = IF Granted(y, e) THEN y ELSE appendAggregateEventTx(y, e)
    BY <1>4, <1>5, <2>1 DEF Inserts
  <2>3. Sound(x, Workspaces) /\ Sound(y, Workspaces)
    BY <1>6, <1>7, <2>1
  <2> HIDE DEF x, y
  <2>4. e \in Events
    BY <1>1, <1>2, GrantIsEvent DEF Events
  <2>5. Same(appendAggregateEventTx(x, e), appendAggregateEventTx(y, e))
    BY <2>1, <2>3, <2>4, SameAppend
  <2>6. Granted(x, e) <=> Granted(y, e)
    BY <2>1 DEF Granted, Same
  <2> QED BY <2>1, <2>2, <2>5, <2>6
<1> HIDE DEF G
<1>10. \A k \in 0..n : k \in G
  BY <1>1, <1>8, <1>9, IntervalInduction
<1>11. Same(f[n], g[n])
  BY <1>1, <1>10 DEF G
<1> QED BY <1>4, <1>5, <1>11 DEF events

LEMMA MemResolve ==
  ASSUME NEW a, NEW b, NEW q \in Requests, NEW status, NEW response
  PROVE  LET x == ResolvePermissionRequest(a, q, status, response)
             y == memResolvePermissionRequest(b, q, status, response)
         IN /\ Recorded(b) => Recalls(b, y)
            /\ (InStep(a, b) /\ ~RepeatsResource(a)) =>
                 Same(x, y) /\ y = ResolvePermissionRequest(b, q, status, response)
<1> DEFINE e == Resolution(b, q, status, response)
           y == memResolvePermissionRequest(b, q, status, response)
           answers == IsPending(b, q) /\ legalPermissionResolution(status, response)
           list == b.tables.requests[q].resources
           w == memAppend(b, e)
<1>1. y = IF ~answers THEN b
          ELSE IF response = "always" THEN memAppendEvents(w, GrantsFor(list)) ELSE w
  BY DEF memResolvePermissionRequest, GrantsOf, GrantsFor
<1>2. ASSUME b.tables \in TablesType, answers
      PROVE  /\ e \in RequestEvents /\ e \in LaterEvents /\ e.id = q
             /\ e.snapshot.resources = list
             /\ list \in Seq(Resources)
  <2>1. e \in RequestEvents /\ e.id = q /\ e.snapshot.resources = list
    BY <1>2, ResolutionIsRequest
  <2> DEFINE row == e.snapshot
  <2>2. row \in RequestRow
    BY <2>1 DEF RequestEvents, AskedRow
  <2> HIDE DEF row
  <2>3. row.resources \in Seq(Resources)
    BY <2>2 DEF RequestRow
  <2> QED BY <2>1, <2>3, RowEvents DEF row
<1>3. ASSUME Recorded(b) PROVE Recalls(b, y)
  <2>1. CASE ~answers
    BY <1>1, <1>3, <2>1, RecalledSelf
  <2>2. CASE answers
    <3>1. b.tables \in TablesType
      BY <1>3 DEF Recorded
    <3>2. /\ e \in RequestEvents /\ e \in LaterEvents /\ e.id = q
          /\ e.snapshot.resources = list /\ list \in Seq(Resources)
      BY <1>2, <2>2, <3>1
    <3> HIDE DEF e, list, answers, y
    <3>3. SameAsk(b.tables, e)
      BY <3>2 DEF SameAsk, list
    <3>4. Recalls(b, w) /\ Recorded(w)
      BY <1>3, <3>2, <3>3, MemAppendRecalls DEF Recalls
    <3> HIDE DEF w
    <3> DEFINE events == GrantsFor(list)
    <3>5. /\ Len(events) = Len(list) /\ Len(events) \in Nat
          /\ \A i \in 1..Len(list) : events[i] = NewSessionPermissionGrantCreatedEvent(list[i])
          /\ \A i \in 1..Len(list) : list[i] \in Resources
      BY <3>2 DEF GrantsFor
    <3> HIDE DEF events
    <3>6. \A i \in 1..Len(events) : events[i] \in LaterEvents /\ events[i] \notin RequestEvents
      <4> TAKE i \in 1..Len(events)
      <4>1. events[i] \in LaterEvents /\ events[i] \in GrantEvents
        BY <3>5, GrantIsEvent
      <4> QED BY <4>1 DEF GrantEvents, RequestEvents
    <3>7. Recalls(w, memAppendEvents(w, events))
      BY <3>4, <3>5, <3>6, MemEventsRecall
    <3>8. Recalls(b, memAppendEvents(w, events))
      BY <3>4, <3>7, RecallsRecalls
    <3> QED BY <1>1, <2>2, <3>4, <3>8 DEF events
  <2> QED BY <2>1, <2>2
<1>4. ASSUME InStep(a, b), ~RepeatsResource(a)
      PROVE  /\ Same(ResolvePermissionRequest(a, q, status, response), y)
             /\ y = ResolvePermissionRequest(b, q, status, response)
  <2>1. /\ Same(a, b) /\ a.tables = b.tables /\ b.tables \in TablesType
        /\ Sound(a, Workspaces) /\ Sound(b, Workspaces)
    BY <1>4, InStepTyped DEF InStep
  <2> DEFINE u == appendAggregateEventTx(a, e)
             v == appendAggregateEventTx(b, e)
  <2>2. /\ Resolution(a, q, status, response) = e
        /\ IsPending(a, q) <=> IsPending(b, q)
        /\ GrantsOf(a.tables.requests[q]) = GrantsFor(list)
        /\ GrantsOf(b.tables.requests[q]) = GrantsFor(list)
    BY <2>1 DEF Resolution, IsPending, GrantsOf, GrantsFor
  <2>3. /\ ResolvePermissionRequest(a, q, status, response) =
             IF ~answers THEN a
             ELSE IF response = "always" THEN insertEvents(u, GrantsFor(list)) ELSE u
        /\ ResolvePermissionRequest(b, q, status, response) =
             IF ~answers THEN b
             ELSE IF response = "always" THEN insertEvents(v, GrantsFor(list)) ELSE v
    <3>1. GrantsOf(a.tables.requests[q]) = GrantsFor(list)
      BY <2>2
    <3>2. GrantsOf(b.tables.requests[q]) = GrantsFor(list)
      BY <2>2
    <3>3. appendAggregateEventTx(a, Resolution(a, q, status, response)) = u
      BY <2>2
    <3>4. answers <=> IsPending(a, q) /\ legalPermissionResolution(status, response)
      BY <2>2
    <3> HIDE DEF list, u
    <3> QED BY <3>1, <3>2, <3>3, <3>4 DEF ResolvePermissionRequest
  <2>4. CASE ~answers
    BY <1>1, <2>1, <2>3, <2>4
  <2>5. CASE answers
    <3>1. /\ e \in RequestEvents /\ e \in LaterEvents /\ e.id = q
          /\ e.snapshot.resources = list /\ list \in Seq(Resources)
      BY <1>2, <2>1, <2>5
    <3>2. Same(u, w) /\ w = v
      BY <1>4, <3>1, InStepAppend
    <3>3. /\ v = Longer(b, e) /\ Sound(v, Workspaces)
      <4>1. Fits(b, Longer(b, e), Workspaces)
        BY <2>1, <2>5, ResolutionFits
      <4>2. v = Longer(b, e)
        BY <2>1, AppendIs
      <4> QED BY <4>1, <4>2 DEF Fits
    <3>4. Sound(u, Workspaces)
      <4> DEFINE asked == Resolution(a, q, status, response)
      <4>1. Fits(a, Longer(a, asked), Workspaces)
        BY <2>1, <2>2, <2>5, ResolutionFits
      <4>2. u = Longer(a, asked)
        BY <2>1, <2>2, AppendIs
      <4> QED BY <4>1, <4>2 DEF Fits
    <3>5. CASE response # "always"
      BY <1>1, <2>3, <2>5, <3>2, <3>5
    <3>6. CASE response = "always"
      <4>1. \A i \in 1..Len(list) : Allowed(v.tables, list[i])
        BY <2>1, <2>5, <3>3, <3>6, AnsweredAllows
      <4>2. IsInjective(list)
        BY <1>4, <2>1, <2>5 DEF RepeatsResource, IsPending
      <4> HIDE DEF u, v, w, list, e
      <4>3. memAppendEvents(v, GrantsFor(list)) = insertEvents(v, GrantsFor(list))
        BY <3>1, <3>3, <4>1, <4>2, MemGrants
      <4>4. Same(insertEvents(u, GrantsFor(list)), insertEvents(v, GrantsFor(list)))
        BY <3>1, <3>2, <3>3, <3>4, <4>1, SameGrants DEF InStep
      <4> QED BY <1>1, <2>3, <2>5, <3>2, <3>6, <4>3, <4>4
    <3> QED BY <3>5, <3>6
  <2> QED BY <2>4, <2>5
<1> QED BY <1>3, <1>4 DEF y

LEMMA MemRebuild ==
  ASSUME NEW a, NEW b
  PROVE  LET x == RebuildSessionProjections(a, Workspaces)
             y == memRebuildSessionProjections(b)
         IN /\ Recorded(b) => Recalls(b, y)
            /\ InStep(a, b) => x = a /\ y = b
<1> DEFINE last == ProjectSessionAggregate(b.stream)
           x == [b EXCEPT !.tables = last]
<1>1. ASSUME Recorded(b) PROVE Recalls(b, memRebuildSessionProjections(b))
  <2>1. /\ b \in [stream : Seq(Events), tables : TablesType] /\ b.stream # <<>>
        /\ b.tables \in TablesType
        /\ last \in TablesType /\ last.session \in SessionRow
        /\ RowsOf(b.tables) = RowsOf(last)
        /\ ProjectSession(b.stream) = last.session
    BY <1>1 DEF Recorded
  <2>2. x.stream = b.stream /\ x.tables = last /\ x \in [stream : Seq(Events), tables : TablesType]
    BY <2>1
  <2> HIDE DEF x
  <2>3. Recorded(x)
    BY <2>1, <2>2 DEF Recorded
  <2>4. KeepsRequests(b.tables, x.tables)
    BY <2>1, <2>2, RowsAreSame DEF KeepsRequests
  <2> QED BY <1>1, <2>3, <2>4, RecalledSelf DEF Recalls, memRebuildSessionProjections, x
<1>2. ASSUME NEW d, Sound(d, Workspaces)
      PROVE  [d EXCEPT !.tables = ProjectSessionAggregate(d.stream)] = d
  <2>1. d.tables = ProjectSessionAggregate(d.stream)
    BY <1>2, SoundExact
  <2>2. d \in [stream : Seq(Events), tables : TablesType]
    BY <1>2 DEF Sound, Recorded
  <2> QED BY <2>1, <2>2
<1>3. InStep(a, b) => RebuildSessionProjections(a, Workspaces) = a
                      /\ memRebuildSessionProjections(b) = b
  BY <1>2 DEF InStep, RebuildSessionProjections, memRebuildSessionProjections
<1> QED BY <1>1, <1>3

-----------------------------------------------------------------------------
(* A step of the memory store beside that of the SQLite store, while every *)
(* workspace is there.                                                     *)
MemStep ==
  /\ mem = NewDatabase => mem' = NewDatabase
  /\ Recorded(mem) => Recalls(mem, mem')
  /\ (InStep(sql, mem) /\ ~RepeatsResource(sql)) => Same(sql', mem') /\ Sound(mem', Workspaces)

LEMMA RepeatsKept ==
  ASSUME NEW d, NEW x, KeepsRequests(d.tables, x.tables), RepeatsResource(d)
  PROVE  RepeatsResource(x)
  BY DEF RepeatsResource, KeepsRequests

LEMMA RenameMemStep ==
  ASSUME NEW c \in Clients, Rename(c), workspaces = Workspaces
  PROVE  MemStep
<1>1. PICK t \in Titles :
        /\ sql' = RenameSession(sql, t, seen[c].version)
        /\ mem' = memRenameSession(mem, t, seen[c].version)
  BY DEF Rename, Write, Call, Stores, sql, mem
<1>2. mem = NewDatabase => mem' = NewDatabase
  BY <1>1, EmptyTyped DEF memRenameSession, memApplySessionMetadataEvent
<1>3. Recorded(mem) => Recalls(mem, mem')
  BY <1>1, MemRename
<1>4. ASSUME InStep(sql, mem) PROVE Same(sql', mem') /\ Sound(mem', Workspaces)
  <2>1. Same(sql', mem') /\ mem' = RenameSession(mem, t, seen[c].version)
    BY <1>1, <1>4, MemRename
  <2>2. Sound(mem, Workspaces)
    BY <1>4 DEF InStep
  <2> QED BY <2>1, <2>2, RenameIs
<1> QED BY <1>2, <1>3, <1>4 DEF MemStep

LEMMA MoveMemStep ==
  ASSUME NEW c \in Clients, Move(c), workspaces = Workspaces
  PROVE  MemStep
<1>1. PICK w \in Workspaces \cup {None} :
        /\ sql' = MoveSession(sql, w, seen[c].version, Workspaces)
        /\ mem' = memMoveSession(mem, w, seen[c].version, Workspaces)
  BY DEF Move, Write, Call, Stores, sql, mem
<1>2. mem = NewDatabase => mem' = NewDatabase
  BY <1>1, EmptyTyped DEF memMoveSession, memApplySessionMetadataEvent
<1>3. Recorded(mem) => Recalls(mem, mem')
  BY <1>1, MemMove
<1>4. ASSUME InStep(sql, mem) PROVE Same(sql', mem') /\ Sound(mem', Workspaces)
  BY <1>1, <1>4, MemMove, MoveFits DEF InStep, Fits
<1> QED BY <1>2, <1>3, <1>4 DEF MemStep

LEMMA AdmitMemStep ==
  ASSUME Admit
  PROVE  MemStep
<1>1. PICK r \in Runs : sql' = AdmitSessionRun(sql, r) /\ mem' = memAdmitSessionRun(mem, r)
  BY DEF Admit, Write, Call, Stores, sql, mem
<1>2. mem = NewDatabase => mem' = NewDatabase
  BY <1>1, EmptyTyped DEF memAdmitSessionRun
<1>3. Recorded(mem) => Recalls(mem, mem')
  BY <1>1, MemAdmit
<1>4. ASSUME InStep(sql, mem) PROVE Same(sql', mem') /\ Sound(mem', Workspaces)
  BY <1>1, <1>4, MemAdmit, AdmitFits DEF InStep, Fits
<1> QED BY <1>2, <1>3, <1>4 DEF MemStep

LEMMA ClaimMemStep ==
  ASSUME Claim
  PROVE  MemStep
<1>1. sql' = ClaimNextSessionRun(sql) /\ mem' = memClaimNextSessionRun(mem)
  BY DEF Claim, Write, Call, Stores, sql, mem
<1>2. mem = NewDatabase => mem' = NewDatabase
  <2>1. WithStatus(NewDatabase, "queued") = {}
    BY EmptyTyped DEF WithStatus
  <2> QED BY <1>1, <2>1 DEF memClaimNextSessionRun
<1>3. Recorded(mem) => Recalls(mem, mem')
  BY <1>1, MemClaim
<1>4. ASSUME InStep(sql, mem) PROVE Same(sql', mem') /\ Sound(mem', Workspaces)
  BY <1>1, <1>4, MemClaim, ClaimFits DEF InStep, Fits
<1> QED BY <1>2, <1>3, <1>4 DEF MemStep

LEMMA SettleMemStep ==
  ASSUME Settle
  PROVE  MemStep
<1>1. PICK r \in Runs, from \in {"queued", "running"}, to \in RunTerminal :
        /\ sql' = SettleSessionRun(sql, r, from, to)
        /\ mem' = memSettleSessionRun(mem, r, from, to)
  BY DEF Settle, Write, Call, Stores, sql, mem
<1>2. mem = NewDatabase => mem' = NewDatabase
  BY <1>1, EmptyTyped DEF memSettleSessionRun
<1>3. Recorded(mem) => Recalls(mem, mem')
  BY <1>1, MemSettle
<1>4. ASSUME InStep(sql, mem) PROVE Same(sql', mem') /\ Sound(mem', Workspaces)
  BY <1>1, <1>4, MemSettle, SettleFits DEF InStep, Fits
<1> QED BY <1>2, <1>3, <1>4 DEF MemStep

LEMMA CheckpointMemStep ==
  ASSUME Checkpoint
  PROVE  MemStep
<1>1. PICK m \in Messages, r \in Runs, place \in Places, n \in 1..MaxRevision,
           ps \in SUBSET Parts :
        LET message == MessageSnapshot(r, place, n, ps)
        IN /\ KeepsToolParts(sql, m, message) /\ PartsAreFree(sql, m, message)
           /\ sql' = SaveMessage(sql, m, message)
           /\ mem' = memSaveMessage(mem, m, message)
  BY DEF Checkpoint, Write, Call, Stores, sql, mem
<1> DEFINE message == MessageSnapshot(r, place, n, ps)
<1>2. message \in MessageRow
  BY StoresAssumption DEF MessageRow, MessageSnapshot
<1>3. /\ KeepsToolParts(sql, m, message) /\ PartsAreFree(sql, m, message)
      /\ sql' = SaveMessage(sql, m, message) /\ mem' = memSaveMessage(mem, m, message)
  BY <1>1
<1> HIDE DEF message
<1>4. mem = NewDatabase => mem' = NewDatabase
  BY <1>3, EmptyTyped DEF memSaveMessage
<1>5. Recorded(mem) => Recalls(mem, mem')
  BY <1>2, <1>3, MemSaveMessage
<1>6. ASSUME InStep(sql, mem) PROVE Same(sql', mem') /\ Sound(mem', Workspaces)
  <2>1. Same(sql', mem') /\ mem' = SaveMessage(mem, m, message)
    BY <1>2, <1>3, <1>6, MemSaveMessage
  <2>2. Sound(mem, Workspaces) /\ KeepsToolParts(mem, m, message)
    BY <1>3, <1>6 DEF InStep, Same, KeepsToolParts
  <2> QED BY <1>2, <2>1, <2>2, SaveMessageFits DEF Fits
<1> QED BY <1>4, <1>5, <1>6 DEF MemStep

LEMMA RecordCallMemStep ==
  ASSUME RecordCall
  PROVE  MemStep
<1>1. PICK c \in Calls, r \in Runs, n \in Attempts, s \in {"started", "completed", "failed"} :
        /\ sql' = UpsertModelCall(sql, c, [run |-> r, attempt |-> n, status |-> s])
        /\ mem' = memUpsertModelCall(mem, c, [run |-> r, attempt |-> n, status |-> s])
  BY DEF RecordCall, Write, Call, Stores, sql, mem
<1> DEFINE call == [run |-> r, attempt |-> n, status |-> s]
<1>2. call \in CallRow /\ call.run = r
  BY StoresAssumption DEF CallRow
<1>3. sql' = UpsertModelCall(sql, c, call) /\ mem' = memUpsertModelCall(mem, c, call)
  BY <1>1
<1> HIDE DEF call
<1>4. mem = NewDatabase => mem' = NewDatabase
  <2>1. NewDatabase.tables.calls[c] = None
    BY DEF NewDatabase, EmptyTables, NewRow
  <2> QED BY <1>2, <1>3, <2>1, EmptyTyped DEF memUpsertModelCall
<1>5. Recorded(mem) => Recalls(mem, mem')
  BY <1>2, <1>3, MemUpsert
<1>6. ASSUME InStep(sql, mem) PROVE Same(sql', mem') /\ Sound(mem', Workspaces)
  BY <1>2, <1>3, <1>6, MemUpsert, UpsertFits DEF InStep, Fits
<1> QED BY <1>4, <1>5, <1>6 DEF MemStep

LEMMA RecordUseMemStep ==
  ASSUME SqlInv, RecordUse
  PROVE  MemStep
<1>1. PICK u \in Uses, r \in Runs, place \in UsePlaces, p \in StoredParts(sql.tables),
           s \in UseTerminal \cup {"proposed", "authorized", "started"} :
        /\ sql' = SaveToolUse(sql, u, [run |-> r, place |-> place, part |-> p, status |-> s])
        /\ mem' = memSaveToolUse(mem, u, [run |-> r, place |-> place, part |-> p, status |-> s])
  BY DEF RecordUse, Write, Call, Stores, sql, mem
<1> DEFINE use == [run |-> r, place |-> place, part |-> p, status |-> s]
<1>2. sql.tables \in TablesType
  BY EmptyTyped, SoundTyped DEF SqlInv
<1>3. use \in UseRow /\ use.part \in StoredParts(sql.tables) /\ use.run = r
  BY <1>2, StoredPartsTyped DEF UseRow
<1>4. sql' = SaveToolUse(sql, u, use) /\ mem' = memSaveToolUse(mem, u, use)
  BY <1>1
<1> HIDE DEF use
<1>5. mem = NewDatabase => mem' = NewDatabase
  <2>1. NewDatabase.tables.uses[u] = None
    BY DEF NewDatabase, EmptyTables, NewRow
  <2> QED BY <1>3, <1>4, <2>1, EmptyTyped DEF memSaveToolUse
<1>6. Recorded(mem) => Recalls(mem, mem')
  BY <1>3, <1>4, MemSaveUse
<1>7. ASSUME InStep(sql, mem) PROVE Same(sql', mem') /\ Sound(mem', Workspaces)
  BY <1>3, <1>4, <1>7, MemSaveUse, SaveUseFits DEF InStep, Fits
<1> QED BY <1>5, <1>6, <1>7 DEF MemStep

LEMMA AskMemStep ==
  ASSUME Ask
  PROVE  MemStep
<1>1. PICK q \in Requests, r \in Runs, list \in ResourceLists :
        /\ sql' = CreatePermissionRequest(sql, q, r, list)
        /\ mem' = memCreatePermissionRequest(mem, q, r, list)
  BY DEF Ask, Write, Call, Stores, sql, mem
<1>2. list \in Seq(Resources)
  BY StoresAssumption
<1>3. mem = NewDatabase => mem' = NewDatabase
  BY <1>1, EmptyTyped DEF memCreatePermissionRequest
<1>4. Recorded(mem) => Recalls(mem, mem')
  BY <1>1, <1>2, MemAsk
<1>5. ASSUME InStep(sql, mem) PROVE Same(sql', mem') /\ Sound(mem', Workspaces)
  BY <1>1, <1>2, <1>5, MemAsk, AskFits DEF InStep, Fits
<1> QED BY <1>3, <1>4, <1>5 DEF MemStep

LEMMA AnswerMemStep ==
  ASSUME Answer
  PROVE  MemStep
<1>1. PICK q \in Requests, s \in {"approved", "rejected", "timed_out"},
           response \in {"once", "always", "reject", ""} :
        /\ sql' = ResolvePermissionRequest(sql, q, s, response)
        /\ mem' = memResolvePermissionRequest(mem, q, s, response)
  BY DEF Answer, Write, Call, Stores, sql, mem
<1>2. mem = NewDatabase => mem' = NewDatabase
  BY <1>1, NothingToInterrupt DEF memResolvePermissionRequest
<1>3. Recorded(mem) => Recalls(mem, mem')
  BY <1>1, MemResolve
<1>4. ASSUME InStep(sql, mem), ~RepeatsResource(sql)
      PROVE  Same(sql', mem') /\ Sound(mem', Workspaces)
  <2>1. Same(sql', mem') /\ mem' = ResolvePermissionRequest(mem, q, s, response)
    BY <1>1, <1>4, MemResolve
  <2>2. Sound(mem, Workspaces)
    BY <1>4 DEF InStep
  <2> QED BY <1>1, <2>1, <2>2, ResolveFits DEF Fits
<1> QED BY <1>2, <1>3, <1>4 DEF MemStep

LEMMA RecoverMemStep ==
  ASSUME Recover
  PROVE  MemStep
<1>1. CASE RecoverUses
  <2>1. PICK uses \in SetToSeqs(ActiveUses(sql)), memUses \in SetToSeqs(ActiveUses(mem)) :
          /\ sql' = InterruptActiveToolUses(sql, uses)
          /\ mem' = memInterruptActiveToolUses(mem, memUses)
    BY <1>1 DEF RecoverUses, Write, Call, Stores, sql, mem
  <2>2. ASSUME mem = NewDatabase PROVE mem' = NewDatabase
    <3>1. Len(memUses) = 0
      BY <2>2, NothingToInterrupt, NoneToList
    <3>2. Len(Interrupted(mem, memUses)) = 0
      BY <3>1 DEF Interrupted
    <3>3. mem' = memAppendEvents(mem, Interrupted(mem, memUses))
      BY <2>1 DEF memInterruptActiveToolUses, Interrupted
    <3> QED BY <2>2, <3>2, <3>3, NothingInserted
  <2> QED BY <2>1, <2>2, MemInterruptUses DEF MemStep
<1>2. CASE RecoverCalls
  <2>1. PICK r \in Runs :
          \E calls \in SetToSeqs(ActiveCalls(sql, r)), memCalls \in SetToSeqs(ActiveCalls(mem, r)) :
            /\ sql' = InterruptActiveModelCalls(sql, calls)
            /\ mem' = memInterruptActiveModelCalls(mem, memCalls)
    BY <1>2 DEF RecoverCalls, Write, Call, Stores, sql, mem
  <2>2. PICK calls \in SetToSeqs(ActiveCalls(sql, r)), memCalls \in SetToSeqs(ActiveCalls(mem, r)) :
          /\ sql' = InterruptActiveModelCalls(sql, calls)
          /\ mem' = memInterruptActiveModelCalls(mem, memCalls)
    BY <2>1
  <2>3. ASSUME mem = NewDatabase PROVE mem' = NewDatabase
    <3>1. Len(memCalls) = 0
      BY <2>3, NothingToInterrupt, NoneToList
    <3>2. Len(Aborted(mem, memCalls)) = 0
      BY <3>1 DEF Aborted
    <3>3. mem' = memAppendEvents(mem, Aborted(mem, memCalls))
      BY <2>2 DEF memInterruptActiveModelCalls, Aborted
    <3> QED BY <2>3, <3>2, <3>3, NothingInserted
  <2> QED BY <2>2, <2>3, MemInterruptCalls DEF MemStep
<1>3. CASE RecoverRequests
  <2>1. PICK pending \in SetToSeqs(PendingRequests(sql)),
             memPending \in SetToSeqs(PendingRequests(mem)) :
          /\ sql' = InterruptPendingPermissionRequests(sql, pending)
          /\ mem' = memInterruptPendingPermissionRequests(mem, memPending)
    BY <1>3 DEF RecoverRequests, PendingLists, PendingRequests, Write, Call, Stores, sql, mem
  <2>2. ASSUME mem = NewDatabase PROVE mem' = NewDatabase
    <3>1. Len(memPending) = 0
      BY <2>2, NothingToInterrupt, NoneToList
    <3>2. Len(Dismissed(mem, memPending)) = 0
      BY <3>1 DEF Dismissed
    <3>3. mem' = memAppendEvents(mem, Dismissed(mem, memPending))
      BY <2>1 DEF memInterruptPendingPermissionRequests, Dismissed
    <3> QED BY <2>2, <3>2, <3>3, NothingInserted
  <2> QED BY <2>1, <2>2, MemInterruptRequests DEF MemStep
<1> QED BY <1>1, <1>2, <1>3 DEF Recover

LEMMA RebuildMemStep ==
  ASSUME Rebuild, workspaces = Workspaces
  PROVE  MemStep
<1>1. /\ sql' = RebuildSessionProjections(sql, Workspaces)
      /\ mem' = memRebuildSessionProjections(mem)
  BY DEF Rebuild, Write, Call, Stores, sql, mem
<1>2. mem = NewDatabase => mem' = NewDatabase
  BY <1>1, EmptyTyped DEF memRebuildSessionProjections, Projects
<1>3. Recorded(mem) => Recalls(mem, mem')
  BY <1>1, MemRebuild
<1>4. InStep(sql, mem) => Same(sql', mem') /\ Sound(mem', Workspaces)
  BY <1>1, MemRebuild DEF InStep
<1> QED BY <1>2, <1>3, <1>4 DEF MemStep

-----------------------------------------------------------------------------
(* The invariant of the two stores: they are in step until a request names *)
(* a resource twice, and such a request is never forgotten but by a purge. *)
MemInv ==
  workspaces = Workspaces =>
    \/ InStep(sql, mem) /\ ~RepeatsResource(sql)
    \/ /\ sql = NewDatabase \/ RepeatsResource(sql)
       /\ mem = NewDatabase \/ (Recorded(mem) /\ RepeatsResource(mem))

(* What a call leaves of the SQLite store: its session, and the requests.  *)
SqlKeeps ==
  /\ UNCHANGED workspaces
  /\ sql = NewDatabase => sql' = NewDatabase
  /\ Sound(sql, workspaces) => Sound(sql', workspaces) /\ KeepsRequests(sql.tables, sql'.tables)

LEMMA StepKeepsMem ==
  ASSUME SqlInv, MemInv, SqlKeeps, workspaces = Workspaces => MemStep
  PROVE  MemInv'
<1> SUFFICES ASSUME workspaces' = Workspaces
             PROVE  \/ InStep(sql', mem') /\ ~RepeatsResource(sql')
                    \/ /\ sql' = NewDatabase \/ RepeatsResource(sql')
                       /\ mem' = NewDatabase \/ (Recorded(mem') /\ RepeatsResource(mem'))
  BY DEF MemInv
<1>1. workspaces = Workspaces /\ MemStep
  BY DEF SqlKeeps
<1>2. CASE InStep(sql, mem) /\ ~RepeatsResource(sql)
  <2>1. Same(sql', mem') /\ Sound(mem', Workspaces)
    BY <1>1, <1>2 DEF MemStep
  <2>2. Sound(sql', Workspaces)
    BY <1>1, <1>2 DEF InStep, SqlKeeps
  <2>3. RepeatsResource(sql') => RepeatsResource(mem')
    BY <2>1 DEF Same, RepeatsResource
  <2> QED BY <2>1, <2>2, <2>3 DEF InStep, Sound
<1>3. CASE /\ sql = NewDatabase \/ RepeatsResource(sql)
           /\ mem = NewDatabase \/ (Recorded(mem) /\ RepeatsResource(mem))
  <2>1. sql' = NewDatabase \/ RepeatsResource(sql')
    <3>1. sql = NewDatabase \/ Sound(sql, workspaces)
      BY DEF SqlInv
    <3> QED BY <1>3, <3>1, RepeatsKept DEF SqlKeeps
  <2>2. mem' = NewDatabase \/ (Recorded(mem') /\ RepeatsResource(mem'))
    BY <1>1, <1>3, RepeatsKept DEF MemStep, Recalls
  <2> QED BY <2>1, <2>2
<1> QED BY <1>1, <1>2, <1>3 DEF MemInv

LEMMA WritesKeep ==
  ASSUME Writes
  PROVE  SqlKeeps
  BY DEF Writes, SqlKeeps, Fits

LEMMA RenameKeeps ==
  ASSUME NEW c \in Clients, Rename(c)
  PROVE  SqlKeeps
<1>1. PICK t \in Titles :
        sql' = RenameSession(sql, t, seen[c].version) /\ UNCHANGED workspaces
  BY DEF Rename, Write, Call, Stores, sql
<1>2. sql = NewDatabase => sql' = NewDatabase
  BY <1>1, EmptyTyped DEF RenameSession, applySessionMetadataEvent
<1>3. ASSUME Sound(sql, workspaces)
      PROVE  Sound(sql', workspaces) /\ KeepsRequests(sql.tables, sql'.tables)
  <2>1. CASE sql' = sql
    BY <1>3, <2>1 DEF KeepsRequests
  <2> QED BY <1>1, <1>3, <2>1, RenameIs
<1> QED BY <1>1, <1>2, <1>3 DEF SqlKeeps

LEMMA PurgeKeepsMem ==
  ASSUME SqlInv, MemInv, NEW c \in Clients, Purge(c)
  PROVE  MemInv'
<1>1. /\ sql' = PurgeSession(sql, seen[c].version)
      /\ mem' = memPurgeSession(mem, seen[c].version)
      /\ UNCHANGED workspaces
  BY DEF Purge, Write, Call, Stores, sql, mem
<1>2. /\ sql' \in {sql, NewDatabase} /\ mem' \in {mem, NewDatabase}
  BY <1>1 DEF PurgeSession, memPurgeSession
<1>3. ASSUME InStep(sql, mem)
      PROVE  (sql' = sql /\ mem' = mem) \/ (sql' = NewDatabase /\ mem' = NewDatabase)
  <2>1. HasSession(sql) /\ HasSession(mem) /\ sql.tables = mem.tables
    BY <1>3, InStepTyped
  <2> QED BY <1>1, <2>1 DEF PurgeSession, memPurgeSession
<1> QED BY <1>1, <1>2, <1>3 DEF MemInv

(* A deleted workspace never comes back.                                   *)
LEMMA RemoveKeepsMem ==
  ASSUME SqlInv, RemoveWorkspace
  PROVE  MemInv'
<1>1. PICK w \in workspaces : workspaces' = workspaces \ {w}
  BY DEF RemoveWorkspace
<1>2. w \in Workspaces /\ w \notin workspaces'
  BY <1>1 DEF SqlInv
<1> QED BY <1>2 DEF MemInv

LEMMA MemInitial ==
  ASSUME Init
  PROVE  MemInv
<1>1. PICK t \in Titles, w \in Workspaces \cup {None} :
        /\ sql = CreateSession(NewDatabase, t, w, Workspaces)
        /\ mem = memCreateSession(NewDatabase, t, w, Workspaces)
  BY DEF Init, Stores, sql, mem
<1>2. Sound(sql, Workspaces) /\ sql.tables.requests = EmptyTables.requests
  BY <1>1, CreateSound
<1> DEFINE e == NewSessionCreatedEvent(t, w)
           s == Append(NewDatabase.stream, e)
<1>3. sql = [stream |-> s, tables |-> Apply(EmptyTables, e)]
  BY <1>1, EmptyTyped DEF CreateSession, appendAggregateEventTx
<1>4. /\ s \in Seq(Events) /\ Created(s)
  <2>1. e \in Events /\ e.type = "session.created"
    BY DEF NewSessionCreatedEvent, Event, CreatedEvents, Events
  <2>2. s = <<e>>
    BY EmptyTyped
  <2> HIDE DEF e, s
  <2> QED BY <2>1, <2>2 DEF Created
<1>5. ProjectSession(s) = sql.tables.session
  <2>1. sql.stream = s
    BY <1>3
  <2> QED BY <1>2, <2>1, SoundExact
<1>6. mem = sql
  <2>1. sql.tables \in TablesType /\ sql.tables = Apply(EmptyTables, e)
    BY <1>2, <1>3, SoundTyped
  <2>2. mem = memAppend(NewDatabase, e)
    BY <1>1, EmptyTyped DEF memCreateSession
  <2>3. mem = [stream |-> s, tables |-> [Apply(EmptyTables, e) EXCEPT !.session = ProjectSession(s)]]
    BY <1>4, <2>2, EmptyTyped DEF memAppend
  <2>4. [sql.tables EXCEPT !.session = sql.tables.session] = sql.tables
    BY <2>1 DEF TablesType
  <2> HIDE DEF e, s
  <2> QED BY <1>3, <1>5, <2>1, <2>3, <2>4
<1>7. ~RepeatsResource(sql)
  BY <1>2 DEF RepeatsResource, EmptyTables, NewRow
<1> QED BY <1>2, <1>6, <1>7 DEF MemInv, InStep, Same

LEMMA MemStepKeeps ==
  ASSUME SqlInv, MemInv, [Next]_vars
  PROVE  MemInv'
<1>1. ASSUME Writes, workspaces = Workspaces => MemStep PROVE MemInv'
  BY <1>1, WritesKeep, StepKeepsMem
<1>2. ASSUME NEW c \in Clients, Read(c) PROVE MemInv'
  BY <1>2 DEF Read, MemInv, sql, mem
<1>3. ASSUME NEW c \in Clients, Rename(c) PROVE MemInv'
  BY <1>3, RenameKeeps, RenameMemStep, StepKeepsMem
<1>4. ASSUME NEW c \in Clients, Move(c) PROVE MemInv'
  BY <1>1, <1>4, MoveWrites, MoveMemStep
<1>5. ASSUME NEW c \in Clients, Purge(c) PROVE MemInv'
  BY <1>5, PurgeKeepsMem
<1>6. CASE RemoveWorkspace
  BY <1>6, RemoveKeepsMem
<1>7. CASE Admit \/ Claim \/ Settle
  BY <1>1, <1>7, AdmitWrites, ClaimWrites, SettleWrites, AdmitMemStep, ClaimMemStep,
     SettleMemStep
<1>8. CASE Checkpoint \/ RecordCall \/ RecordUse
  BY <1>1, <1>8, CheckpointWrites, RecordCallWrites, RecordUseWrites, CheckpointMemStep,
     RecordCallMemStep, RecordUseMemStep
<1>9. CASE Ask \/ Answer
  BY <1>1, <1>9, AskWrites, AnswerWrites, AskMemStep, AnswerMemStep
<1>10. CASE Recover \/ Rebuild
  BY <1>1, <1>10, RecoverWrites, RebuildWrites, RecoverMemStep, RebuildMemStep
<1>11. CASE UNCHANGED vars
  BY <1>11 DEF vars, MemInv, sql, mem
<1> QED BY <1>2, <1>3, <1>4, <1>5, <1>6, <1>7, <1>8, <1>9, <1>10, <1>11 DEF Next

(* The in-memory store conforms to the SQLite store: after the same calls  *)
(* they hold the same rows and events, whatever the calls and their order, *)
(* as long as no workspace was deleted and no request names a resource     *)
(* twice.                                                                  *)
THEOREM StoresStayInStep == Spec => []StoresAgree
<1>1. Init => SqlInv /\ MemInv
  BY SqlInitial, MemInitial
<1>2. SqlInv /\ MemInv /\ [Next]_vars => SqlInv' /\ MemInv'
  BY SqlStep, MemStepKeeps
<1>3. ASSUME MemInv PROVE StoresAgree
  <2> SUFFICES ASSUME workspaces = Workspaces, ~RepeatsResource(sql), ~RepeatsResource(mem)
               PROVE  SameRecords
    BY DEF StoresAgree
  <2>1. CASE InStep(sql, mem)
    BY <2>1 DEF InStep, Same, SameRecords
  <2>2. CASE sql = NewDatabase /\ mem = NewDatabase
    BY <2>2 DEF SameRecords, EventsOf
  <2> QED BY <1>3, <2>1, <2>2 DEF MemInv
<1> QED BY <1>1, <1>2, <1>3, PTL DEF Spec

====
