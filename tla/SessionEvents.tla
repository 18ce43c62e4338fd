---------------------------- MODULE SessionEvents ----------------------------
(***************************************************************************)
(* The public event stream of one session: the durable log                 *)
(* session_events, the broker that fans committed events out to live       *)
(* subscribers, the SSE handler that replays, synchronizes and then        *)
(* follows the broker, and clients that reconnect from their last cursor.  *)
(*                                                                         *)
(* Sequence numbers are assigned inside the appending transaction, but the *)
(* appender publishes after it committed and without a lock, so events     *)
(* reach the broker in any order.  An event is its sequence number; 0 is a *)
(* live-only event, which has none.                                        *)
(***************************************************************************)
EXTENDS Integers, Sequences

CONSTANTS Clients,
          Capacity,   \* of a subscription's channel
          Limit,      \* page size of a replay
          MaxSeq,     \* bound: durable events
          MaxLive,    \* bound: live-only events
          MaxBreaks   \* bound: connections that break, and daemon restarts

ASSUME EventsAssumption ==
  /\ Capacity \in Nat \ {0} /\ Limit \in Nat \ {0}
  /\ MaxSeq \in Nat /\ MaxLive \in Nat /\ MaxBreaks \in Nat

VARIABLES
  log,         \* MAX(seq) of the session's durable events, which are 1..log
  unpublished, \* committed events whose appender has not yet published them
  unheard,     \* history: events no publication will ever announce
  lives,       \* live-only events so far
  breaks,      \* broken connections and restarts so far
  session,     \* "live", "purged", or "closed" once closeSession ran
  place,       \* of the SSE handler serving the client; "off": none
  subscribed,  \* the client's subscription is in b.subs
  buffer,      \* sub.events
  overflow,    \* sub.overflow is closed
  done,        \* sub.done is closed
  last,        \* lastSeq
  through,     \* the sequence a replay must reach
  cursor,      \* client: the last durable sequence it processed
  delivered    \* history: how often each durable event reached the client

logVars == <<log, unpublished, unheard>>
envVars == <<lives, breaks, session>>
subVars == <<subscribed, buffer, overflow, done>>
clientVars == <<cursor, delivered>>
vars == <<logVars, envVars, place, subVars, last, through, clientVars>>

Places == {"off", "authorized", "subscribed", "replaying", "checking",
           "selecting", "backfilling"}

Init ==
  /\ log = 0 /\ unpublished = {} /\ unheard = {}
  /\ lives = 0 /\ breaks = 0
  /\ session = "live"
  /\ place = [c \in Clients |-> "off"]
  /\ subscribed = [c \in Clients |-> FALSE]
  /\ buffer = [c \in Clients |-> <<>>]
  /\ overflow = [c \in Clients |-> FALSE]
  /\ done = [c \in Clients |-> FALSE]
  /\ last = [c \in Clients |-> 0]
  /\ through = [c \in Clients |-> 0]
  /\ cursor = [c \in Clients |-> 0]
  /\ delivered = [c \in Clients |-> [n \in 1..MaxSeq |-> 0]]

-----------------------------------------------------------------------------
(* Appenders *)

AppendSessionEvent ==
  /\ session = "live"
  /\ log < MaxSeq
  /\ log' = log + 1

AppendEvent ==
  /\ AppendSessionEvent
  /\ unpublished' = unpublished \cup {log + 1}
  /\ UNCHANGED <<unheard, envVars, place, subVars, last, through, clientVars>>

(* A request context that ends while its transaction commits: the caller *)
(* sees an error and does not publish the event that was stored.         *)
AppendReplyLost ==
  /\ AppendSessionEvent
  /\ unheard' = unheard \cup {log + 1}
  /\ UNCHANGED <<unpublished, envVars, place, subVars, last, through,
                 clientVars>>

(* Faulty variants: a channel without a capacity, and an event dropped *)
(* without the overflow signal.                                        *)
publishOrDrop(n) ==
  /\ buffer' = [c \in Clients |->
                  IF subscribed[c] /\ Len(buffer[c]) < Capacity
                  THEN Append(buffer[c], n) ELSE buffer[c]]
  /\ UNCHANGED <<subscribed, overflow, done>>

(* publish: never blocks; a full channel turns into the overflow signal. *)
publish(n) ==
  /\ buffer' = [c \in Clients |->
                  IF subscribed[c] /\ Len(buffer[c]) < Capacity
                  THEN Append(buffer[c], n) ELSE buffer[c]]
  /\ overflow' = [c \in Clients |->
                    \/ overflow[c]
                    \/ subscribed[c] /\ Len(buffer[c]) >= Capacity]
  /\ UNCHANGED <<subscribed, done>>

Publish(n) ==
  /\ n \in unpublished
  /\ unpublished' = unpublished \ {n}
  /\ publish(n)
  /\ UNCHANGED <<log, unheard, envVars, place, last, through, clientVars>>

PublishLive ==
  /\ lives < MaxLive
  /\ lives' = lives + 1
  /\ publish(0)
  /\ UNCHANGED <<logVars, breaks, session, place, last, through, clientVars>>

-----------------------------------------------------------------------------
(* handleSessionEvents.  What the handler writes, the client processes at  *)
(* once: frames a broken connection loses are the ones written after the   *)
(* break.                                                                  *)

Write(c, S) ==
  /\ delivered' = [delivered EXCEPT ![c] =
                     [n \in 1..MaxSeq |-> IF n \in S THEN @[n] + 1 ELSE @[n]]]
  /\ cursor' = [cursor EXCEPT ![c] =
                  IF S = {} THEN @ ELSE CHOOSE n \in S : \A m \in S : m <= n]

(* The handler returns: unsubscribe runs deferred. *)
Return(c) ==
  /\ place' = [place EXCEPT ![c] = "off"]
  /\ subscribed' = [subscribed EXCEPT ![c] = FALSE]
  /\ buffer' = [buffer EXCEPT ![c] = <<>>]
  /\ overflow' = [overflow EXCEPT ![c] = FALSE]
  /\ done' = [done EXCEPT ![c] = FALSE]
  /\ last' = [last EXCEPT ![c] = 0]
  /\ through' = [through EXCEPT ![c] = 0]

(* parseEventQuery and authorizeSessionForRequest: the handler will resume *)
(* after this sequence.                                                    *)
Open(c, after) ==
  /\ place[c] = "off"
  /\ session = "live"
  /\ place' = [place EXCEPT ![c] = "authorized"]
  /\ last' = [last EXCEPT ![c] = after]
  /\ UNCHANGED <<logVars, lives, session, subVars, through, clientVars>>

(* A client reconnects from its cursor. *)
Connect(c) == Open(c, cursor[c]) /\ UNCHANGED breaks

(* A cursor that this log never issued, as one from another database. *)
ConnectAhead(c) ==
  /\ breaks < MaxBreaks
  /\ breaks' = breaks + 1
  /\ Open(c, MaxSeq + 1)

subscribe(c) ==
  /\ place[c] = "authorized"
  /\ place' = [place EXCEPT ![c] = "subscribed"]
  /\ subscribed' = [subscribed EXCEPT ![c] = TRUE]
  /\ UNCHANGED <<logVars, envVars, buffer, overflow, done, last, through,
                 clientVars>>

ReadWatermark(c) ==
  /\ place[c] = "subscribed"
  /\ session = "live"
  /\ last[c] <= log
  /\ through' = [through EXCEPT ![c] = log]
  /\ place' = [place EXCEPT ![c] = "replaying"]
  /\ UNCHANGED <<logVars, envVars, subVars, last, clientVars>>

(* No such session, or a cursor ahead of durable history: resync. *)
WatermarkRefused(c) ==
  /\ place[c] = "subscribed"
  /\ session # "live" \/ last[c] > log
  /\ Return(c)
  /\ UNCHANGED <<logVars, envVars, clientVars>>

(* The events of one page that replaySessionEvents writes. *)
Page(c) == {n \in 1..MaxSeq : /\ last[c] < n /\ n <= last[c] + Limit
                              /\ n <= log /\ n <= through[c]}

ReplayPage(c) ==
  /\ place[c] \in {"replaying", "backfilling"}
  /\ last[c] < through[c]
  /\ session = "live"
  /\ Page(c) # {}
  /\ Write(c, Page(c))
  /\ last' = [last EXCEPT ![c] = CHOOSE n \in Page(c) : \A m \in Page(c) : m <= n]
  /\ UNCHANGED <<logVars, envVars, place, subVars, through>>

(* ListSessionEvents fails, or finds no event where one must be: resync. *)
ReplayFails(c) ==
  /\ place[c] \in {"replaying", "backfilling"}
  /\ last[c] < through[c]
  /\ session # "live" \/ Page(c) = {}
  /\ Return(c)
  /\ UNCHANGED <<logVars, envVars, clientVars>>

(* Faulty variant: synchronized after one page. *)
SynchronizeEarly(c) ==
  /\ place[c] = "replaying"
  /\ ~overflow[c]
  /\ place' = [place EXCEPT ![c] = "checking"]
  /\ UNCHANGED <<logVars, envVars, subVars, last, through, clientVars>>

(* Replayed through the watermark: synchronized, unless the channel *)
(* overflowed meanwhile.                                            *)
Synchronize(c) ==
  /\ place[c] = "replaying"
  /\ last[c] >= through[c]
  /\ \/ /\ overflow[c]
        /\ Return(c)
     \/ /\ ~overflow[c]
        /\ place' = [place EXCEPT ![c] = "checking"]
        /\ last' = [last EXCEPT ![c] = through[c]]
        /\ UNCHANGED <<subVars, through>>
  /\ UNCHANGED <<logVars, envVars, clientVars>>

BackfillDone(c) ==
  /\ place[c] = "backfilling"
  /\ last[c] >= through[c]
  /\ place' = [place EXCEPT ![c] = "checking"]
  /\ UNCHANGED <<logVars, envVars, subVars, last, through, clientVars>>

(* The top of the loop. *)
CheckOverflow(c) ==
  /\ place[c] = "checking"
  /\ \/ /\ overflow[c]
        /\ Return(c)
     \/ /\ ~overflow[c]
        /\ place' = [place EXCEPT ![c] = "selecting"]
        /\ UNCHANGED <<subVars, last, through>>
  /\ UNCHANGED <<logVars, envVars, clientVars>>

SelectClosed(c) ==
  /\ place[c] = "selecting"
  /\ overflow[c] \/ done[c]
  /\ Return(c)
  /\ UNCHANGED <<logVars, envVars, clientVars>>

(* Faulty variant: whatever is newer is written, gap or not. *)
SelectEventOverGap(c) ==
  /\ place[c] = "selecting"
  /\ buffer[c] # <<>>
  /\ buffer' = [buffer EXCEPT ![c] = Tail(@)]
  /\ place' = [place EXCEPT ![c] = "checking"]
  /\ LET n == Head(buffer[c]) IN
       \/ n <= last[c] /\ UNCHANGED <<last, clientVars>>
       \/ /\ n > last[c]
          /\ Write(c, {n})
          /\ last' = [last EXCEPT ![c] = n]
  /\ UNCHANGED <<logVars, envVars, subscribed, overflow, done, through>>

(* An event from the channel: an old one is skipped, a gap is filled from  *)
(* the durable log, the next in order is written.  A live-only event (0)   *)
(* is passed on and moves no cursor.                                       *)
SelectEvent(c) ==
  /\ place[c] = "selecting"
  /\ buffer[c] # <<>>
  /\ buffer' = [buffer EXCEPT ![c] = Tail(@)]
  /\ LET n == Head(buffer[c]) IN
       \/ /\ n <= last[c]
          /\ place' = [place EXCEPT ![c] = "checking"]
          /\ UNCHANGED <<last, through, clientVars>>
       \/ /\ n > last[c] + 1
          /\ place' = [place EXCEPT ![c] = "backfilling"]
          /\ through' = [through EXCEPT ![c] = n]
          /\ UNCHANGED <<last, clientVars>>
       \/ /\ n = last[c] + 1
          /\ place' = [place EXCEPT ![c] = "checking"]
          /\ Write(c, {n})
          /\ last' = [last EXCEPT ![c] = n]
          /\ UNCHANGED through
  /\ UNCHANGED <<logVars, envVars, subscribed, overflow, done>>

-----------------------------------------------------------------------------
(* The connection breaks, or the client leaves. *)
Break(c) ==
  /\ place[c] # "off"
  /\ breaks < MaxBreaks
  /\ breaks' = breaks + 1
  /\ Return(c)
  /\ UNCHANGED <<logVars, lives, session, clientVars>>

(* The daemon stops and starts again: subscriptions and the publications *)
(* not yet made are gone, the log is not.                                *)
Restart ==
  /\ breaks < MaxBreaks
  /\ breaks' = breaks + 1
  /\ unheard' = unheard \cup unpublished
  /\ unpublished' = {}
  /\ place' = [c \in Clients |-> "off"]
  /\ subscribed' = [c \in Clients |-> FALSE]
  /\ buffer' = [c \in Clients |-> <<>>]
  /\ overflow' = [c \in Clients |-> FALSE]
  /\ done' = [c \in Clients |-> FALSE]
  /\ last' = [c \in Clients |-> 0]
  /\ through' = [c \in Clients |-> 0]
  /\ session' = IF session = "live" THEN "live" ELSE "closed"
  /\ UNCHANGED <<log, lives, clientVars>>

(* handleDeleteSession: PurgeSession commits, then closeSession runs. *)
Purge ==
  /\ session = "live"
  /\ session' = "purged"
  /\ UNCHANGED <<logVars, lives, breaks, place, subVars, last, through,
                 clientVars>>

(* Faulty variant: the subscriptions are forgotten but not closed. *)
forgetSession ==
  /\ session = "purged"
  /\ session' = "closed"
  /\ subscribed' = [c \in Clients |-> FALSE]
  /\ UNCHANGED <<logVars, lives, breaks, place, buffer, overflow, done, last,
                 through, clientVars>>

closeSession ==
  /\ session = "purged"
  /\ session' = "closed"
  /\ done' = [c \in Clients |-> done[c] \/ subscribed[c]]
  /\ subscribed' = [c \in Clients |-> FALSE]
  /\ UNCHANGED <<logVars, lives, breaks, place, buffer, overflow, last,
                 through, clientVars>>

HandlerStep(c) ==
  \/ subscribe(c) \/ ReadWatermark(c) \/ WatermarkRefused(c)
  \/ ReplayPage(c) \/ ReplayFails(c) \/ Synchronize(c) \/ BackfillDone(c)
  \/ CheckOverflow(c) \/ SelectClosed(c) \/ SelectEvent(c)

Next ==
  \/ AppendEvent \/ AppendReplyLost \/ PublishLive
  \/ \E n \in 1..MaxSeq : Publish(n)
  \/ \E c \in Clients : \/ Connect(c) \/ ConnectAhead(c)
                        \/ HandlerStep(c) \/ Break(c)
  \/ Restart \/ Purge \/ closeSession

Spec == Init /\ [][Next]_vars

(***************************************************************************)
(* Fairness: an appender that is running publishes, a handler that can     *)
(* continue does, a client whose stream ended reconnects, and              *)
(* handleDeleteSession goes on to closeSession.                            *)
(***************************************************************************)
Fairness ==
  /\ \A n \in 1..MaxSeq : WF_vars(Publish(n))
  /\ \A c \in Clients : WF_vars(HandlerStep(c)) /\ WF_vars(Connect(c))
  /\ WF_vars(closeSession)

FairSpec == Spec /\ Fairness

-----------------------------------------------------------------------------
(* Properties *)

(* Across reconnects, restarts, overflows and events published out of      *)
(* order, a client that resumes from its cursor processes every durable    *)
(* event up to that cursor exactly once, and so in order.                  *)
InOrderOnce ==
  \A c \in Clients, n \in 1..MaxSeq :
    delivered[c][n] = IF n <= cursor[c] THEN 1 ELSE 0

Streaming(c) == place[c] \in Places \ {"off", "authorized", "subscribed"}

(* Nothing falls between the replay and the live channel: an event the     *)
(* handler's replay does not reach will still come out of its channel, or  *)
(* a later one will and uncover the gap, or the overflow signal is up.     *)
NothingBetween ==
  \A c \in Clients : Streaming(c) /\ session = "live" /\ ~overflow[c] =>
    \A n \in 1..log :
      \/ n <= last[c] \/ n <= through[c]
      \/ n \in unpublished \cup unheard
      \/ \E i \in 1..Len(buffer[c]) : buffer[c][i] >= n

(* session.events.synchronized: every durable event through the announced  *)
(* cursor has been delivered.                                              *)
SynchronizedIsTrue ==
  [][\A c \in Clients : place[c] = "replaying" /\ place'[c] = "checking" =>
       \A n \in 1..through[c] : delivered[c][n] = 1]_vars

(* Every durable event that is announced reaches every client that keeps   *)
(* reconnecting, unless the session is purged first.                       *)
EventsArrive ==
  \A c \in Clients, n \in 1..MaxSeq :
    n <= log /\ n \notin unheard ~> cursor[c] >= n \/ session # "live"

(* A purged session's streams end, also one authorized before the purge    *)
(* that subscribes after closeSession.                                     *)
StreamsEnd ==
  \A c \in Clients : session = "purged" ~> place[c] = "off"
=============================================================================
