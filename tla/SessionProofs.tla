---------------------------- MODULE SessionProofs -----------------------------
(***************************************************************************)
(* What a session shows and what it keeps: safety of its event stream, and *)
(* of its history.                                                         *)
(*                                                                         *)
(* The stream is safe for any number of clients, events, breaks and        *)
(* restarts, any capacity of a channel and any size of a page.  A client   *)
(* has every event up to its cursor once because the handler's lastSeq is  *)
(* that cursor while it streams, and is only moved by what it writes.      *)
(* That nothing falls between replay and channel needs that the handler    *)
(* has subscribed before it reads the watermark, and has reached it, or    *)
(* the gap it fills, when it turns to the channel.                         *)
(*                                                                         *)
(* The history is safe for messages of any number and budgets of any size. *)
(***************************************************************************)
EXTENDS SessionEvents, LoopParts, FiniteSetTheorems, SequenceTheorems, NaturalsInduction, TLAPS

TypeOK ==
  /\ log \in 0..MaxSeq
  /\ unpublished \subseteq 1..log /\ unheard \subseteq 1..log
  /\ session \in {"live", "purged", "closed"}
  /\ place \in [Clients -> Places]
  /\ subscribed \in [Clients -> BOOLEAN]
  /\ buffer \in [Clients -> Seq(0..MaxSeq)]
  /\ overflow \in [Clients -> BOOLEAN]
  /\ done \in [Clients -> BOOLEAN]
  /\ last \in [Clients -> 0..(MaxSeq + 1)]
  /\ through \in [Clients -> 0..MaxSeq]
  /\ cursor \in [Clients -> 0..MaxSeq]
  /\ delivered \in [Clients -> [1..MaxSeq -> Nat]]

(* Nothing is announced or known that has not been committed. *)
Committed ==
  /\ \A c \in Clients : cursor[c] <= log /\ through[c] <= log
  /\ \A c \in Clients : \A i \in 1..Len(buffer[c]) : buffer[c][i] <= log

(* The handler's cursor is the client's, and where it stands. *)
Position ==
  \A c \in Clients :
    /\ place[c] \in {"authorized", "subscribed"} => last[c] \in {cursor[c], MaxSeq + 1}
    /\ Streaming(c) => last[c] = cursor[c]
    /\ place[c] = "replaying" => last[c] <= through[c]
    /\ place[c] \in {"checking", "selecting"} => through[c] <= last[c]

(* A handler that has read the watermark has subscribed before. *)
Subscribed ==
  \A c \in Clients : place[c] \notin {"off", "authorized"} /\ session = "live" =>
    subscribed[c]

IInv ==
  /\ TypeOK /\ Committed /\ Position /\ Subscribed
  /\ InOrderOnce /\ NothingBetween

-----------------------------------------------------------------------------
(* Lemmas about the operators *)

(* What the client has after it was written the events that follow its     *)
(* cursor up to m.                                                         *)
LEMMA WriteStep ==
  ASSUME TypeOK, InOrderOnce, NEW c \in Clients, NEW m \in 1..MaxSeq,
         NEW S \in SUBSET (1..MaxSeq), cursor[c] < m,
         \A n \in 1..MaxSeq : n \in S <=> cursor[c] < n /\ n <= m,
         Write(c, S)
  PROVE  /\ cursor' = [cursor EXCEPT ![c] = m]
         /\ delivered' \in [Clients -> [1..MaxSeq -> Nat]]
         /\ InOrderOnce'
<1>1. m \in S /\ \A n \in S : n <= m
  OBVIOUS
<1>2. (CHOOSE n \in S : \A k \in S : k <= n) = m
  <2>1. \A n \in S : (\A k \in S : k <= n) => n = m
    BY <1>1 DEF TypeOK
  <2> QED
    BY <1>1, <2>1
<1>3. cursor' = [cursor EXCEPT ![c] = m]
  BY <1>1, <1>2 DEF Write
<1>4. delivered' = [delivered EXCEPT ![c] =
        [n \in 1..MaxSeq |-> IF n \in S THEN delivered[c][n] + 1 ELSE delivered[c][n]]]
  BY DEF Write
<1>5. delivered' \in [Clients -> [1..MaxSeq -> Nat]]
  <2>1. /\ delivered[c] \in [1..MaxSeq -> Nat]
        /\ delivered \in [Clients -> [1..MaxSeq -> Nat]]
    BY DEF TypeOK
  <2>2. [n \in 1..MaxSeq |-> IF n \in S THEN delivered[c][n] + 1 ELSE delivered[c][n]]
          \in [1..MaxSeq -> Nat]
    BY <2>1
  <2> QED
    BY <1>4, <2>1, <2>2
<1>6. InOrderOnce'
  <2> SUFFICES ASSUME NEW d \in Clients, NEW n \in 1..MaxSeq
               PROVE  delivered'[d][n] = IF n <= cursor'[d] THEN 1 ELSE 0
    BY DEF InOrderOnce
  <2>1. CASE d = c
    <3>1. delivered[c][n] = IF n <= cursor[c] THEN 1 ELSE 0
      BY DEF InOrderOnce
    <3>2. delivered'[c][n] = IF n \in S THEN delivered[c][n] + 1 ELSE delivered[c][n]
      BY <1>4 DEF TypeOK
    <3>3. cursor'[c] = m
      BY <1>3 DEF TypeOK
    <3> QED
      BY <2>1, <3>1, <3>2, <3>3 DEF TypeOK
  <2>2. CASE d # c
    BY <1>3, <1>4, <2>2 DEF TypeOK, InOrderOnce
  <2> QED
    BY <2>1, <2>2
<1> QED
  BY <1>3, <1>5, <1>6

(* A page is the events that follow lastSeq, without a gap. *)
LEMMA PageStep ==
  ASSUME TypeOK, Committed, NEW c \in Clients, Page(c) # {}
  PROVE  \E m \in 1..MaxSeq :
           /\ m = (CHOOSE n \in Page(c) : \A k \in Page(c) : k <= n)
           /\ last[c] < m /\ m <= log /\ m <= through[c]
           /\ Page(c) \in SUBSET (1..MaxSeq)
           /\ \A n \in 1..MaxSeq : n \in Page(c) <=> last[c] < n /\ n <= m
<1>1. PICK h \in {last[c] + Limit, log, through[c]} :
        h <= last[c] + Limit /\ h <= log /\ h <= through[c]
  BY EventsAssumption DEF TypeOK
<1>2. PICK p \in 1..MaxSeq : last[c] < p /\ p <= last[c] + Limit /\ p <= log /\ p <= through[c]
  BY DEF Page
<1>3. h \in 1..MaxSeq /\ last[c] < h
  BY <1>1, <1>2, EventsAssumption DEF TypeOK
<1>4. \A n \in 1..MaxSeq : n \in Page(c) <=> last[c] < n /\ n <= h
  <2>1. /\ last[c] \in Nat /\ Limit \in Nat /\ log \in Nat /\ through[c] \in Nat
    BY EventsAssumption DEF TypeOK
  <2>2. \A n \in 1..MaxSeq : n \in Page(c) <=>
          last[c] < n /\ n <= last[c] + Limit /\ n <= log /\ n <= through[c]
    BY DEF Page
  <2>3. ASSUME NEW n \in 1..MaxSeq
        PROVE  n <= h <=> n <= last[c] + Limit /\ n <= log /\ n <= through[c]
    BY <1>1, <2>1
  <2> QED
    BY <2>2, <2>3
<1>5. h \in Page(c) /\ \A n \in Page(c) : n \in 1..MaxSeq /\ n <= h
  BY <1>3, <1>4 DEF Page
<1>6. (CHOOSE n \in Page(c) : \A k \in Page(c) : k <= n) = h
  <2>1. \A n \in Page(c) : (\A k \in Page(c) : k <= n) => n = h
    BY <1>5
  <2> QED
    BY <1>5, <2>1
<1>7. Page(c) \in SUBSET (1..MaxSeq)
  BY DEF Page
<1> QED
  BY <1>1, <1>3, <1>4, <1>6, <1>7

(* What publication leaves in each channel. *)
LEMMA PublishStep ==
  ASSUME TypeOK, Committed, NEW n \in 0..MaxSeq, n <= log, publish(n)
  PROVE  /\ buffer' \in [Clients -> Seq(0..MaxSeq)]
         /\ overflow' \in [Clients -> BOOLEAN]
         /\ subscribed' = subscribed /\ done' = done
         /\ \A c \in Clients : \A i \in 1..Len(buffer'[c]) : buffer'[c][i] <= log
         /\ \A c \in Clients, k \in Nat :
              (\E i \in 1..Len(buffer[c]) : buffer[c][i] >= k) =>
                \E i \in 1..Len(buffer'[c]) : buffer'[c][i] >= k
         /\ \A c \in Clients : overflow[c] => overflow'[c]
         /\ \A c \in Clients : subscribed[c] /\ ~overflow'[c] =>
              \E i \in 1..Len(buffer'[c]) : buffer'[c][i] = n
<1>1. /\ buffer' = [c \in Clients |->
                      IF subscribed[c] /\ Len(buffer[c]) < Capacity
                      THEN Append(buffer[c], n) ELSE buffer[c]]
      /\ overflow' = [c \in Clients |->
                        \/ overflow[c]
                        \/ subscribed[c] /\ Len(buffer[c]) >= Capacity]
      /\ subscribed' = subscribed /\ done' = done
  BY DEF publish
<1>2. /\ buffer' \in [Clients -> Seq(0..MaxSeq)]
      /\ overflow' \in [Clients -> BOOLEAN]
  <2>1. \A c \in Clients : /\ buffer[c] \in Seq(0..MaxSeq)
                           /\ Append(buffer[c], n) \in Seq(0..MaxSeq)
    BY DEF TypeOK
  <2>2. \A c \in Clients : (overflow[c] \/ (subscribed[c] /\ Len(buffer[c]) >= Capacity)) \in BOOLEAN
    OBVIOUS
  <2> QED
    BY <1>1, <2>1, <2>2
<1>3. ASSUME NEW c \in Clients
      PROVE  \/ buffer'[c] = buffer[c]
             \/ /\ Len(buffer'[c]) = Len(buffer[c]) + 1
                /\ \A i \in 1..Len(buffer[c]) : buffer'[c][i] = buffer[c][i]
                /\ buffer'[c][Len(buffer[c]) + 1] = n
  BY <1>1 DEF TypeOK
<1>4. \A c \in Clients : Len(buffer[c]) \in Nat
  BY DEF TypeOK
<1>5. \A c \in Clients : \A i \in 1..Len(buffer'[c]) : buffer'[c][i] <= log
  BY <1>3, <1>4 DEF Committed
<1>6. \A c \in Clients, k \in Nat :
        (\E i \in 1..Len(buffer[c]) : buffer[c][i] >= k) =>
          \E i \in 1..Len(buffer'[c]) : buffer'[c][i] >= k
  BY <1>3, <1>4
<1>7. ASSUME NEW c \in Clients, subscribed[c], ~overflow'[c]
      PROVE  \E i \in 1..Len(buffer'[c]) : buffer'[c][i] = n
  <2>1. Len(buffer[c]) < Capacity
    BY <1>1, <1>4, <1>7, EventsAssumption
  <2>2. buffer'[c] = Append(buffer[c], n)
    BY <1>1, <1>7, <2>1
  <2>3. /\ Len(buffer'[c]) = Len(buffer[c]) + 1
        /\ buffer'[c][Len(buffer[c]) + 1] = n
    BY <2>2 DEF TypeOK
  <2> QED
    BY <1>4, <2>3
<1>8. \A c \in Clients : overflow[c] => overflow'[c]
  BY <1>1
<1> QED
  BY <1>1, <1>2, <1>5, <1>6, <1>7, <1>8

-----------------------------------------------------------------------------
(* The inductive invariant *)

LEMMA InitInv == Init => IInv
<1> SUFFICES ASSUME Init PROVE IInv
  OBVIOUS
<1> USE EventsAssumption DEF Init
<1>1. TypeOK
  BY DEF TypeOK, Places
<1>2. Committed /\ Position /\ Subscribed /\ NothingBetween
  BY DEF Committed, Position, Subscribed, NothingBetween, Streaming, Places
<1>3. InOrderOnce
  BY DEF InOrderOnce
<1> QED
  BY <1>1, <1>2, <1>3 DEF IInv

(* A handler that returns leaves the log and its client as they are. *)
LEMMA ReturnInv ==
  ASSUME IInv, NEW c \in Clients, Return(c),
         UNCHANGED <<logVars, session, clientVars>>
  PROVE  IInv'
<1>1. /\ place' = [place EXCEPT ![c] = "off"]
      /\ subscribed' = [subscribed EXCEPT ![c] = FALSE]
      /\ buffer' = [buffer EXCEPT ![c] = <<>>]
      /\ overflow' = [overflow EXCEPT ![c] = FALSE]
      /\ done' = [done EXCEPT ![c] = FALSE]
      /\ last' = [last EXCEPT ![c] = 0]
      /\ through' = [through EXCEPT ![c] = 0]
      /\ log' = log /\ unpublished' = unpublished /\ unheard' = unheard
      /\ session' = session /\ cursor' = cursor /\ delivered' = delivered
  BY DEF Return, logVars, clientVars
<1>2. TypeOK'
  <2>1. /\ log' \in 0..MaxSeq /\ unpublished' \subseteq 1..log' /\ unheard' \subseteq 1..log'
        /\ session' \in {"live", "purged", "closed"} /\ cursor' \in [Clients -> 0..MaxSeq]
        /\ delivered' \in [Clients -> [1..MaxSeq -> Nat]]
    BY <1>1 DEF IInv, TypeOK
  <2>2. /\ place' \in [Clients -> Places] /\ subscribed' \in [Clients -> BOOLEAN]
        /\ overflow' \in [Clients -> BOOLEAN] /\ done' \in [Clients -> BOOLEAN]
    BY <1>1 DEF IInv, TypeOK, Places
  <2>3. buffer' \in [Clients -> Seq(0..MaxSeq)]
    <3>1. << >> \in Seq(0..MaxSeq) /\ buffer \in [Clients -> Seq(0..MaxSeq)]
      BY EmptySeq DEF IInv, TypeOK
    <3> QED
      BY <1>1, <3>1
  <2>4. last' \in [Clients -> 0..(MaxSeq + 1)] /\ through' \in [Clients -> 0..MaxSeq]
    BY <1>1, EventsAssumption DEF IInv, TypeOK
  <2> QED
    BY <2>1, <2>2, <2>3, <2>4 DEF TypeOK
<1>3. Committed'
  BY <1>1 DEF IInv, TypeOK, Committed
<1>4. Position' /\ Subscribed'
  BY <1>1 DEF IInv, TypeOK, Position, Subscribed, Streaming
<1>5. InOrderOnce'
  BY <1>1 DEF IInv, InOrderOnce
<1>6. NothingBetween'
  BY <1>1 DEF IInv, TypeOK, NothingBetween, Streaming
<1> QED
  BY <1>2, <1>3, <1>4, <1>5, <1>6 DEF IInv

(* The appenders and publishers *)
LEMMA AppendInv ==
  ASSUME IInv, AppendEvent \/ AppendReplyLost
  PROVE  IInv'
<1>1. /\ log' = log + 1 /\ log < MaxSeq
      /\ unpublished \subseteq unpublished' /\ unheard \subseteq unheard'
      /\ unpublished' \cup unheard' = (unpublished \cup unheard) \cup {log + 1}
      /\ UNCHANGED <<session, place, subVars, last, through, clientVars>>
  BY DEF AppendEvent, AppendReplyLost, AppendSessionEvent, envVars
<1>2. TypeOK'
  <2>1. log' \in 0..MaxSeq /\ unpublished' \subseteq 1..log' /\ unheard' \subseteq 1..log'
    BY <1>1, EventsAssumption DEF IInv, TypeOK
  <2> QED
    BY <1>1, <2>1 DEF IInv, TypeOK, subVars, clientVars
<1>3. Committed'
  <2>1. ASSUME NEW c \in Clients, NEW i \in 1..Len(buffer[c]) PROVE buffer[c][i] \in Int
    <3>1. buffer[c] \in Seq(0..MaxSeq)
      BY DEF IInv, TypeOK
    <3>2. buffer[c][i] \in 0..MaxSeq
      BY <3>1, ElementOfSeq
    <3> QED
      BY <3>2
  <2>2. log \in Int /\ \A c \in Clients : cursor[c] \in Int /\ through[c] \in Int
    BY DEF IInv, TypeOK
  <2> QED
    BY <1>1, <2>1, <2>2 DEF IInv, Committed, subVars, clientVars
<1>4. Position' /\ Subscribed' /\ InOrderOnce'
  BY <1>1 DEF IInv, Position, Subscribed, Streaming, InOrderOnce, subVars, clientVars
<1>5. NothingBetween'
  BY <1>1 DEF IInv, TypeOK, NothingBetween, Streaming, subVars
<1> QED
  BY <1>2, <1>3, <1>4, <1>5 DEF IInv

LEMMA PublishInv ==
  ASSUME IInv, PublishLive \/ \E n \in 1..MaxSeq : Publish(n)
  PROVE  IInv'
<1>1. PICK n \in 0..MaxSeq :
        /\ n <= log /\ publish(n)
        /\ unpublished' \subseteq unpublished /\ unpublished \subseteq unpublished' \cup {n}
        /\ UNCHANGED <<log, unheard, session, place, last, through, clientVars>>
  <2>1. CASE PublishLive
    BY <2>1, EventsAssumption DEF PublishLive, logVars, IInv, TypeOK
  <2>2. ASSUME NEW n \in 1..MaxSeq, Publish(n) PROVE n \in 0..MaxSeq /\ n <= log
    BY <2>2 DEF Publish, IInv, TypeOK
  <2>3. CASE \E n \in 1..MaxSeq : Publish(n)
    BY <2>2, <2>3 DEF Publish, envVars
  <2> QED
    BY <2>1, <2>3
<1>2. TypeOK /\ Committed
  BY DEF IInv
<1>3. TypeOK'
  BY <1>1, <1>2, PublishStep DEF TypeOK, clientVars
<1>4. Committed'
  BY <1>1, <1>2, PublishStep DEF Committed, clientVars
<1>5. Position' /\ Subscribed' /\ InOrderOnce'
  BY <1>1, <1>2, PublishStep DEF IInv, Position, Subscribed, Streaming, InOrderOnce, clientVars
<1>6. NothingBetween'
  <2> SUFFICES ASSUME NEW c \in Clients, Streaming(c), session = "live", ~overflow'[c],
                      NEW k \in 1..log
               PROVE  \/ k <= last[c] \/ k <= through[c]
                      \/ k \in unpublished' \cup unheard
                      \/ \E i \in 1..Len(buffer'[c]) : buffer'[c][i] >= k
    BY <1>1 DEF NothingBetween, Streaming
  <2>1. k \in Nat /\ ~overflow[c] /\ subscribed[c]
    BY <1>1, <1>2, PublishStep DEF IInv, Subscribed, Streaming, TypeOK
  <2>2. \/ k <= last[c] \/ k <= through[c]
        \/ k \in unpublished \cup unheard
        \/ \E i \in 1..Len(buffer[c]) : buffer[c][i] >= k
    BY <2>1 DEF IInv, NothingBetween
  <2>3. CASE k \in unpublished /\ k \notin unpublished'
    <3>1. k = n
      BY <1>1, <2>3
    <3>2. \E i \in 1..Len(buffer'[c]) : buffer'[c][i] = k
      BY <1>1, <1>2, <2>1, <3>1, PublishStep
    <3> QED
      BY <2>1, <3>2
  <2>4. CASE \E i \in 1..Len(buffer[c]) : buffer[c][i] >= k
    BY <1>1, <1>2, <2>1, <2>4, PublishStep
  <2> QED
    BY <2>2, <2>3, <2>4
<1> QED
  BY <1>3, <1>4, <1>5, <1>6 DEF IInv

-----------------------------------------------------------------------------
(* The steps of a handler *)

(* What a handler leaves alone, and what it changes of its own. *)
HandlerFrame(c) ==
  /\ UNCHANGED <<log, unpublished, unheard, session>>
  /\ \A d \in Clients \ {c} :
       /\ place'[d] = place[d] /\ subscribed'[d] = subscribed[d]
       /\ buffer'[d] = buffer[d] /\ overflow'[d] = overflow[d]
       /\ last'[d] = last[d] /\ through'[d] = through[d]
       /\ cursor'[d] = cursor[d]

(* With the types and the order, only the parts about c are left to show. *)
LEMMA FrameInv ==
  ASSUME IInv, NEW c \in Clients, HandlerFrame(c), TypeOK', InOrderOnce',
         cursor'[c] <= log /\ through'[c] <= log,
         \A i \in 1..Len(buffer'[c]) : buffer'[c][i] <= log,
         place'[c] \in {"authorized", "subscribed"} => last'[c] \in {cursor'[c], MaxSeq + 1},
         Streaming(c)' => last'[c] = cursor'[c],
         place'[c] = "replaying" => last'[c] <= through'[c],
         place'[c] \in {"checking", "selecting"} => through'[c] <= last'[c],
         place'[c] \notin {"off", "authorized"} /\ session = "live" => subscribed'[c],
         Streaming(c)' /\ session = "live" /\ ~overflow'[c] =>
           \A n \in 1..log :
             \/ n <= last'[c] \/ n <= through'[c]
             \/ n \in unpublished \cup unheard
             \/ \E i \in 1..Len(buffer'[c]) : buffer'[c][i] >= n
  PROVE  IInv'
<1>1. Committed'
  BY DEF IInv, Committed, HandlerFrame
<1>2. Position'
  BY DEF IInv, Position, HandlerFrame, Streaming
<1>3. Subscribed'
  BY DEF IInv, Subscribed, HandlerFrame
<1>4. NothingBetween'
  <2> SUFFICES ASSUME NEW d \in Clients, Streaming(d)', session = "live", ~overflow'[d],
                      NEW n \in 1..log
               PROVE  \/ n <= last'[d] \/ n <= through'[d]
                      \/ n \in unpublished \cup unheard
                      \/ \E i \in 1..Len(buffer'[d]) : buffer'[d][i] >= n
    BY DEF NothingBetween, HandlerFrame
  <2>1. CASE d = c
    BY <2>1
  <2>2. CASE d # c
    BY <2>2 DEF IInv, NothingBetween, HandlerFrame, Streaming
  <2> QED
    BY <2>1, <2>2
<1> QED
  BY <1>1, <1>2, <1>3, <1>4 DEF IInv

(* An event from the channel: what it was keeping from falling between the *)
(* two is old, or written, or a gap to fill.                               *)
LEMMA SelectEventInv ==
  ASSUME IInv, NEW c \in Clients, SelectEvent(c)
  PROVE  IInv'
<1> DEFINE h == Head(buffer[c])
<1>1. /\ place[c] = "selecting" /\ buffer[c] # <<>>
      /\ buffer[c] \in Seq(0..MaxSeq)
      /\ buffer' = [buffer EXCEPT ![c] = Tail(buffer[c])]
      /\ UNCHANGED <<log, unpublished, unheard, session, subscribed, overflow, done>>
  BY DEF SelectEvent, IInv, TypeOK, logVars, envVars
<1>2. /\ Tail(buffer[c]) \in Seq(0..MaxSeq)
      /\ Len(buffer[c]) \in Nat /\ Len(Tail(buffer[c])) = Len(buffer[c]) - 1
      /\ \A i \in 1..Len(Tail(buffer[c])) : Tail(buffer[c])[i] = buffer[c][i + 1]
      /\ h = buffer[c][1] /\ Len(buffer[c]) >= 1 /\ h \in 0..MaxSeq
  <2>1. Len(buffer[c]) \in Nat /\ Len(buffer[c]) # 0
    BY <1>1, EmptySeq
  <2>2. /\ Tail(buffer[c]) \in Seq(0..MaxSeq)
        /\ Len(Tail(buffer[c])) = Len(buffer[c]) - 1
        /\ \A i \in 1..Len(Tail(buffer[c])) : Tail(buffer[c])[i] = buffer[c][i + 1]
        /\ h \in 0..MaxSeq
    BY <1>1, HeadTailProperties
  <2>3. h = buffer[c][1]
    BY <1>1
  <2> QED
    BY <2>1, <2>2, <2>3
<1>3. h \in 0..MaxSeq /\ h <= log
  BY <1>1, <1>2 DEF IInv, Committed
<1>4. /\ \A i \in 1..Len(buffer'[c]) : buffer'[c][i] <= log
      /\ buffer' \in [Clients -> Seq(0..MaxSeq)]
      /\ buffer'[c] = Tail(buffer[c])
      /\ \A d \in Clients \ {c} : buffer'[d] = buffer[d]
  BY <1>1, <1>2 DEF IInv, TypeOK, Committed
<1>5. /\ last[c] = cursor[c] /\ through[c] <= last[c] /\ cursor[c] <= log
      /\ last[c] \in 0..(MaxSeq + 1) /\ log \in 0..MaxSeq /\ cursor[c] \in 0..MaxSeq
      /\ through[c] \in 0..MaxSeq /\ (session = "live" => subscribed[c])
  BY <1>1 DEF IInv, Position, Committed, TypeOK, Subscribed, Streaming, Places
<1>6. ASSUME session = "live", ~overflow[c], NEW n \in 1..log
      PROVE  \/ n <= last[c] \/ n <= h
             \/ n \in unpublished \cup unheard
             \/ \E i \in 1..Len(buffer'[c]) : buffer'[c][i] >= n
  <2>1. \/ n <= last[c] \/ n <= through[c]
        \/ n \in unpublished \cup unheard
        \/ \E i \in 1..Len(buffer[c]) : buffer[c][i] >= n
    BY <1>1, <1>6 DEF IInv, NothingBetween, Streaming, Places
  <2>2. ASSUME NEW i \in 1..Len(buffer[c]), buffer[c][i] >= n
        PROVE  n <= h \/ \E j \in 1..Len(buffer'[c]) : buffer'[c][j] >= n
    <3>1. CASE i = 1
      BY <1>2, <1>3, <2>2, <3>1
    <3>2. CASE i # 1
      <4>1. i - 1 \in 1..Len(buffer'[c]) /\ buffer'[c][i - 1] = buffer[c][i]
        BY <1>2, <1>4, <3>2
      <4> QED
        BY <2>2, <4>1
    <3> QED
      BY <3>1, <3>2
  <2> QED
    BY <1>5, <2>1, <2>2
<1> HIDE DEF h
<1>7. CASE /\ h <= last[c] /\ place' = [place EXCEPT ![c] = "checking"]
           /\ UNCHANGED <<last, through, clientVars>>
  <2>1. TypeOK' /\ InOrderOnce'
    BY <1>1, <1>4, <1>7 DEF IInv, TypeOK, Places, InOrderOnce, clientVars
  <2>2. HandlerFrame(c) /\ place'[c] = "checking"
    BY <1>1, <1>4, <1>7 DEF IInv, TypeOK, HandlerFrame, clientVars
  <2>3. /\ last'[c] = last[c] /\ through'[c] = through[c] /\ cursor'[c] = cursor[c]
        /\ subscribed'[c] = subscribed[c] /\ overflow'[c] = overflow[c]
    BY <1>1, <1>7 DEF clientVars
  <2>4. session = "live" /\ ~overflow'[c] =>
          \A n \in 1..log :
            \/ n <= last'[c] \/ n <= through'[c]
            \/ n \in unpublished \cup unheard
            \/ \E i \in 1..Len(buffer'[c]) : buffer'[c][i] >= n
    BY <1>3, <1>5, <1>6, <1>7, <2>3
  <2>5. /\ cursor'[c] <= log /\ through'[c] <= log /\ last'[c] = cursor'[c]
        /\ through'[c] <= last'[c] /\ (session = "live" => subscribed'[c])
    BY <1>5, <2>3
  <2> QED
    BY <1>4, <2>1, <2>2, <2>4, <2>5, FrameInv
<1>8. CASE /\ h > last[c] + 1 /\ place' = [place EXCEPT ![c] = "backfilling"]
           /\ through' = [through EXCEPT ![c] = h]
           /\ UNCHANGED <<last, clientVars>>
  <2>1. TypeOK' /\ InOrderOnce'
    BY <1>1, <1>3, <1>4, <1>8 DEF IInv, TypeOK, Places, InOrderOnce, clientVars
  <2>2. HandlerFrame(c) /\ place'[c] = "backfilling" /\ through'[c] = h
    BY <1>1, <1>4, <1>8 DEF IInv, TypeOK, HandlerFrame, clientVars
  <2>3. /\ last'[c] = last[c] /\ cursor'[c] = cursor[c]
        /\ subscribed'[c] = subscribed[c] /\ overflow'[c] = overflow[c]
    BY <1>1, <1>8 DEF clientVars
  <2> QED
    BY <1>3, <1>4, <1>5, <1>6, <2>1, <2>2, <2>3, FrameInv DEF Streaming
<1>9. CASE /\ h = last[c] + 1 /\ place' = [place EXCEPT ![c] = "checking"]
           /\ Write(c, {h})
           /\ last' = [last EXCEPT ![c] = h]
           /\ UNCHANGED through
  <2>1. h \in 1..MaxSeq /\ cursor[c] < h /\ {h} \in SUBSET (1..MaxSeq)
        /\ \A n \in 1..MaxSeq : n \in {h} <=> cursor[c] < n /\ n <= h
    BY <1>3, <1>5, <1>9
  <2>2. /\ cursor' = [cursor EXCEPT ![c] = h]
        /\ delivered' \in [Clients -> [1..MaxSeq -> Nat]]
        /\ InOrderOnce'
    BY <1>9, <2>1, WriteStep DEF IInv
  <2>3. TypeOK'
    <3>1. h \in 0..(MaxSeq + 1) /\ h \in 0..MaxSeq
      BY <2>1, EventsAssumption
    <3> QED
      BY <1>1, <1>4, <1>9, <2>2, <3>1 DEF IInv, TypeOK, Places
  <2>4. HandlerFrame(c) /\ place'[c] = "checking" /\ last'[c] = h /\ cursor'[c] = h
        /\ through'[c] = through[c]
    BY <1>1, <1>4, <1>9, <2>2 DEF IInv, TypeOK, HandlerFrame
  <2>5. subscribed'[c] = subscribed[c] /\ overflow'[c] = overflow[c]
    BY <1>1
  <2>6. session = "live" /\ ~overflow'[c] =>
          \A n \in 1..log :
            \/ n <= last'[c] \/ n <= through'[c]
            \/ n \in unpublished \cup unheard
            \/ \E i \in 1..Len(buffer'[c]) : buffer'[c][i] >= n
    BY <1>3, <1>5, <1>6, <1>9, <2>4, <2>5
  <2>7. /\ cursor'[c] <= log /\ through'[c] <= log /\ last'[c] = cursor'[c]
        /\ through'[c] <= last'[c] /\ (session = "live" => subscribed'[c])
    BY <1>3, <1>5, <1>9, <2>4, <2>5
  <2> QED
    BY <1>4, <2>2, <2>3, <2>4, <2>6, <2>7, FrameInv
<1> QED
  BY <1>7, <1>8, <1>9 DEF SelectEvent, h

(* A page moves both cursors to its last event. *)
LEMMA ReplayPageInv ==
  ASSUME IInv, NEW c \in Clients, ReplayPage(c)
  PROVE  IInv'
<1>1. /\ place[c] \in {"replaying", "backfilling"} /\ Page(c) # {}
      /\ Write(c, Page(c))
      /\ UNCHANGED <<log, unpublished, unheard, session, place, subscribed, buffer,
                     overflow, done, through>>
  BY DEF ReplayPage, logVars, envVars, subVars
<1>2. PICK m \in 1..MaxSeq :
        /\ m = (CHOOSE n \in Page(c) : \A k \in Page(c) : k <= n)
        /\ last[c] < m /\ m <= log /\ m <= through[c]
        /\ Page(c) \in SUBSET (1..MaxSeq)
        /\ \A n \in 1..MaxSeq : n \in Page(c) <=> last[c] < n /\ n <= m
  BY <1>1, PageStep DEF IInv
<1>3. last' = [last EXCEPT ![c] = m]
  BY <1>2 DEF ReplayPage
<1>4. last[c] = cursor[c]
  BY <1>1 DEF IInv, Position, Streaming, Places
<1>5. /\ cursor' = [cursor EXCEPT ![c] = m]
      /\ delivered' \in [Clients -> [1..MaxSeq -> Nat]]
      /\ InOrderOnce'
  BY <1>1, <1>2, <1>4, WriteStep DEF IInv
<1>6. TypeOK'
  <2>1. m \in 0..(MaxSeq + 1) /\ m \in 0..MaxSeq
    BY EventsAssumption
  <2> QED
    BY <1>1, <1>3, <1>5, <2>1 DEF IInv, TypeOK
<1>7. HandlerFrame(c) /\ last'[c] = m /\ cursor'[c] = m
  BY <1>1, <1>3, <1>5 DEF IInv, TypeOK, HandlerFrame
<1>8. /\ through'[c] = through[c] /\ through[c] <= log /\ place'[c] = place[c]
      /\ buffer'[c] = buffer[c] /\ subscribed'[c] = subscribed[c] /\ overflow'[c] = overflow[c]
      /\ \A i \in 1..Len(buffer[c]) : buffer[c][i] <= log
      /\ (session = "live" => subscribed[c])
  BY <1>1 DEF IInv, Committed, Subscribed
<1>9. session = "live" /\ ~overflow'[c] =>
        \A n \in 1..log :
          \/ n <= last'[c] \/ n <= through'[c]
          \/ n \in unpublished \cup unheard
          \/ \E i \in 1..Len(buffer'[c]) : buffer'[c][i] >= n
  <2> SUFFICES ASSUME session = "live", ~overflow[c], NEW n \in 1..log
               PROVE  \/ n <= m \/ n <= through[c]
                      \/ n \in unpublished \cup unheard
                      \/ \E i \in 1..Len(buffer[c]) : buffer[c][i] >= n
    BY <1>7, <1>8
  <2>1. \/ n <= last[c] \/ n <= through[c]
        \/ n \in unpublished \cup unheard
        \/ \E i \in 1..Len(buffer[c]) : buffer[c][i] >= n
    BY <1>1 DEF IInv, NothingBetween, Streaming, Places
  <2> QED
    BY <1>2, <2>1 DEF IInv, TypeOK
<1> QED
  BY <1>1, <1>2, <1>5, <1>6, <1>7, <1>8, <1>9, FrameInv

(* The handler moves on, or its cursor is set: nothing is written. *)
MovesTo(c, to, l, t, s) ==
  /\ place' = [place EXCEPT ![c] = to]
  /\ last' = [last EXCEPT ![c] = l]
  /\ through' = [through EXCEPT ![c] = t]
  /\ subscribed' = [subscribed EXCEPT ![c] = s]
  /\ UNCHANGED <<logVars, session, buffer, overflow, done, clientVars>>

LEMMA MoveInv ==
  ASSUME IInv, NEW c \in Clients, NEW to \in Places \ {"off"},
         NEW l \in 0..(MaxSeq + 1), NEW t \in 0..log, NEW s \in BOOLEAN,
         MovesTo(c, to, l, t, s),
         to \in {"authorized", "subscribed"} => l \in {cursor[c], MaxSeq + 1},
         to \notin {"authorized", "subscribed"} => l = cursor[c],
         to = "replaying" => l <= t,
         to \in {"checking", "selecting"} => t <= l,
         to # "authorized" /\ session = "live" => s,
         to \notin {"authorized", "subscribed"} =>
           \/ t = log
           \/ Streaming(c) /\ last[c] <= l /\ through[c] <= t
  PROVE  IInv'
<1>0. /\ log \in 0..MaxSeq /\ cursor[c] \in 0..MaxSeq /\ cursor[c] <= log
      /\ last[c] \in 0..(MaxSeq + 1) /\ through[c] \in 0..MaxSeq /\ t \in 0..MaxSeq
      /\ \A i \in 1..Len(buffer[c]) : buffer[c][i] <= log
  BY EventsAssumption DEF IInv, TypeOK, Committed
<1>1. /\ place'[c] = to /\ last'[c] = l /\ through'[c] = t /\ subscribed'[c] = s
      /\ log' = log /\ unpublished' = unpublished /\ unheard' = unheard
      /\ session' = session /\ buffer' = buffer /\ overflow' = overflow /\ done' = done
      /\ cursor' = cursor /\ delivered' = delivered
  BY DEF MovesTo, IInv, TypeOK, logVars, clientVars
<1>2. TypeOK'
  BY <1>0, <1>1 DEF MovesTo, IInv, TypeOK
<1>3. InOrderOnce'
  BY <1>1 DEF IInv, InOrderOnce
<1>4. HandlerFrame(c)
  BY <1>1 DEF MovesTo, IInv, TypeOK, HandlerFrame
<1>5. Streaming(c)' => to \notin {"authorized", "subscribed"}
  BY <1>1 DEF Streaming
<1>6. Streaming(c)' /\ session = "live" /\ ~overflow'[c] =>
        \A n \in 1..log :
          \/ n <= last'[c] \/ n <= through'[c]
          \/ n \in unpublished \cup unheard
          \/ \E i \in 1..Len(buffer'[c]) : buffer'[c][i] >= n
  <2> SUFFICES ASSUME Streaming(c)', session = "live", ~overflow[c], NEW n \in 1..log
               PROVE  \/ n <= l \/ n <= t
                      \/ n \in unpublished \cup unheard
                      \/ \E i \in 1..Len(buffer[c]) : buffer[c][i] >= n
    BY <1>1
  <2>1. CASE t = log
    BY <2>1
  <2>2. CASE Streaming(c) /\ last[c] <= l /\ through[c] <= t
    <3>1. \/ n <= last[c] \/ n <= through[c]
          \/ n \in unpublished \cup unheard
          \/ \E i \in 1..Len(buffer[c]) : buffer[c][i] >= n
      BY <2>2 DEF IInv, NothingBetween
    <3> QED
      BY <1>0, <2>2, <3>1
  <2> QED
    BY <1>5, <2>1, <2>2
<1>7. /\ cursor'[c] <= log /\ through'[c] <= log
      /\ \A i \in 1..Len(buffer'[c]) : buffer'[c][i] <= log
      /\ place'[c] \in {"authorized", "subscribed"} => last'[c] \in {cursor'[c], MaxSeq + 1}
      /\ Streaming(c)' => last'[c] = cursor'[c]
      /\ place'[c] = "replaying" => last'[c] <= through'[c]
      /\ place'[c] \in {"checking", "selecting"} => through'[c] <= last'[c]
      /\ place'[c] \notin {"off", "authorized"} /\ session = "live" => subscribed'[c]
  BY <1>0, <1>1, <1>5
<1> QED
  BY <1>2, <1>3, <1>4, <1>6, <1>7, FrameInv

(* A handler that opens, and one that takes a step of its own. *)
LEMMA OpenInv ==
  ASSUME IInv, NEW c \in Clients, Connect(c) \/ ConnectAhead(c)
  PROVE  IInv'
<1>1. PICK after \in {cursor[c], MaxSeq + 1} : Open(c, after)
  BY DEF Connect, ConnectAhead
<1>2. after \in 0..(MaxSeq + 1) /\ through[c] \in 0..log /\ subscribed[c] \in BOOLEAN
  BY <1>1, EventsAssumption DEF IInv, TypeOK, Committed
<1>3. MovesTo(c, "authorized", after, through[c], subscribed[c])
  BY <1>1 DEF MovesTo, Open, subVars, IInv, TypeOK
<1> QED
  BY <1>1, <1>2, <1>3, MoveInv DEF Places

LEMMA HandlerInv ==
  ASSUME IInv, NEW c \in Clients, HandlerStep(c) \/ Break(c)
  PROVE  IInv'
<1>0. /\ last[c] \in 0..(MaxSeq + 1) /\ through[c] \in 0..log /\ subscribed[c] \in BOOLEAN
      /\ log \in 0..log /\ log \in 0..MaxSeq /\ cursor[c] \in 0..MaxSeq
      /\ last = [last EXCEPT ![c] = last[c]]
      /\ through = [through EXCEPT ![c] = through[c]]
      /\ subscribed = [subscribed EXCEPT ![c] = subscribed[c]]
  BY EventsAssumption DEF IInv, TypeOK, Committed
<1>1. CASE Return(c) /\ UNCHANGED <<logVars, session, clientVars>>
  BY <1>1, ReturnInv
<1>2. CASE subscribe(c)
  <2>1. place[c] = "authorized" /\ last[c] \in {cursor[c], MaxSeq + 1}
    BY <1>2 DEF subscribe, IInv, Position
  <2>2. MovesTo(c, "subscribed", last[c], through[c], TRUE)
    BY <1>0, <1>2 DEF MovesTo, subscribe, envVars
  <2> QED
    BY <1>0, <2>1, <2>2, MoveInv DEF Places
<1>3. CASE ReadWatermark(c)
  <2>1. /\ place[c] = "subscribed" /\ session = "live" /\ last[c] <= log
        /\ last[c] \in {cursor[c], MaxSeq + 1}
    BY <1>3 DEF ReadWatermark, IInv, Position
  <2>2. last[c] = cursor[c] /\ subscribed[c]
    BY <1>0, <2>1, EventsAssumption DEF IInv, Subscribed
  <2>3. MovesTo(c, "replaying", last[c], log, TRUE)
    BY <1>0, <1>3, <2>2 DEF MovesTo, ReadWatermark, envVars, subVars
  <2> QED
    BY <1>0, <2>1, <2>2, <2>3, MoveInv DEF Places
<1>4. CASE ReplayPage(c)
  BY <1>4, ReplayPageInv
<1>5. CASE Synchronize(c) /\ ~Return(c)
  <2>0. last[c] = through[c]
    BY <1>0, <1>5 DEF Synchronize, IInv, Position
  <2>1. /\ place[c] = "replaying" /\ last[c] = cursor[c]
        /\ through[c] <= last[c] /\ (session = "live" => subscribed[c])
    BY <1>0, <1>5 DEF Synchronize, IInv, Position, Subscribed, Streaming, Places
  <2>2. PICK to \in {"checking", "selecting"} :
          MovesTo(c, to, last[c], through[c], subscribed[c])
    BY <1>0, <1>5, <2>0 DEF MovesTo, Synchronize, envVars, subVars
  <2>3. Streaming(c)
    BY <2>1 DEF Streaming, Places
  <2> QED
    BY <1>0, <2>1, <2>2, <2>3, MoveInv DEF Places
<1>6. CASE BackfillDone(c) \/ (CheckOverflow(c) /\ ~Return(c))
  <2>1. /\ place[c] \in {"backfilling", "checking"} /\ last[c] = cursor[c]
        /\ through[c] <= last[c] /\ (session = "live" => subscribed[c])
    BY <1>6 DEF BackfillDone, CheckOverflow, IInv, Position, Subscribed, Streaming, Places
  <2>2. PICK to \in {"checking", "selecting"} :
          MovesTo(c, to, last[c], through[c], subscribed[c])
    BY <1>0, <1>6 DEF MovesTo, BackfillDone, CheckOverflow, envVars, subVars
  <2>3. Streaming(c)
    BY <2>1 DEF Streaming, Places
  <2> QED
    BY <1>0, <2>1, <2>2, <2>3, MoveInv DEF Places
<1>7. CASE SelectEvent(c)
  BY <1>7, SelectEventInv
<1> QED
  BY <1>1, <1>2, <1>3, <1>4, <1>5, <1>6, <1>7
     DEF HandlerStep, Break, WatermarkRefused, ReplayFails, Synchronize, CheckOverflow,
         SelectClosed, envVars

(* The session's end, and the daemon's. *)
LEMMA RestartInv ==
  ASSUME IInv, Restart
  PROVE  IInv'
<1>1. /\ \A c \in Clients : /\ place'[c] = "off" /\ subscribed'[c] = FALSE
                             /\ buffer'[c] = <<>> /\ last'[c] = 0 /\ through'[c] = 0
      /\ log' = log /\ UNCHANGED clientVars
  BY DEF Restart
<1>2. \A c \in Clients : ~Streaming(c)'
  BY <1>1 DEF Streaming
<1>3. TypeOK'
  <2>1. << >> \in Seq(0..MaxSeq) /\ 0 \in 0..MaxSeq /\ 0 \in 0..(MaxSeq + 1)
    BY EventsAssumption, EmptySeq
  <2> QED
    BY <1>1, <2>1 DEF Restart, clientVars, Places, IInv, TypeOK
<1>4. Committed'
  <2>1. 0 <= log /\ \A c \in Clients : cursor[c] <= log
    <3>1. log \in 0..MaxSeq
      BY DEF IInv, TypeOK
    <3> QED
      BY <3>1, EventsAssumption DEF IInv, Committed
  <2>2. \A c \in Clients : Len(buffer'[c]) = 0
    BY <1>1, EmptySeq
  <2> QED
    BY <1>1, <2>1, <2>2 DEF Committed, clientVars
<1>5. Position' /\ Subscribed' /\ NothingBetween'
  BY <1>1, <1>2 DEF Position, Subscribed, NothingBetween
<1>6. InOrderOnce'
  BY <1>1 DEF IInv, InOrderOnce, clientVars
<1> QED
  BY <1>3, <1>4, <1>5, <1>6 DEF IInv

LEMMA EndInv ==
  ASSUME IInv, Purge \/ closeSession
  PROVE  IInv'
<1>1. /\ UNCHANGED <<logVars, place, buffer, last, through, clientVars>>
      /\ session' # "live"
  BY DEF Purge, closeSession, subVars
<1>2. TypeOK'
  BY <1>1 DEF Purge, closeSession, logVars, subVars, clientVars, IInv, TypeOK
<1>3. Committed' /\ Position' /\ InOrderOnce'
  BY <1>1 DEF IInv, Committed, Position, InOrderOnce, Streaming, logVars, clientVars
<1>4. Subscribed' /\ NothingBetween'
  BY <1>1 DEF Subscribed, NothingBetween
<1> QED
  BY <1>2, <1>3, <1>4 DEF IInv

LEMMA StutterInv ==
  ASSUME IInv, UNCHANGED vars
  PROVE  IInv'
BY DEF vars, logVars, envVars, subVars, clientVars, IInv, TypeOK, Committed, Position,
       Subscribed, InOrderOnce, NothingBetween, Streaming

-----------------------------------------------------------------------------
(* Theorems *)

(* The inductive invariant of the stream: the log, the handlers and the    *)
(* clients' cursors keep their types and agree with each other.            *)
THEOREM Invariance == Spec => []IInv
<1>1. Init => IInv
  BY InitInv
<1>2. IInv /\ [Next]_vars => IInv'
  <2> SUFFICES ASSUME IInv, [Next]_vars
               PROVE  IInv'
    OBVIOUS
  <2>1. CASE AppendEvent \/ AppendReplyLost
    BY <2>1, AppendInv
  <2>2. CASE PublishLive \/ \E n \in 1..MaxSeq : Publish(n)
    BY <2>2, PublishInv
  <2>3. CASE \E c \in Clients : Connect(c) \/ ConnectAhead(c)
    BY <2>3, OpenInv
  <2>4. CASE \E c \in Clients : HandlerStep(c) \/ Break(c)
    BY <2>4, HandlerInv
  <2>5. CASE Restart
    BY <2>5, RestartInv
  <2>6. CASE Purge \/ closeSession
    BY <2>6, EndInv
  <2>7. CASE UNCHANGED vars
    BY <2>7, StutterInv
  <2> QED
    BY <2>1, <2>2, <2>3, <2>4, <2>5, <2>6, <2>7 DEF Next
<1> QED
  BY <1>1, <1>2, PTL DEF Spec

(* Across reconnects, restarts, overflows and events published out of      *)
(* order, a client that resumes from its cursor has had every durable      *)
(* event up to it once.                                                    *)
THEOREM InOrder == Spec => []InOrderOnce
<1>1. IInv => InOrderOnce
  BY DEF IInv
<1> QED
  BY <1>1, Invariance, PTL

(* No durable event falls between the replay and the live channel of a     *)
(* handler of any client, for channels and pages of any size.              *)
THEOREM Between == Spec => []NothingBetween
<1>1. IInv => NothingBetween
  BY DEF IInv
<1> QED
  BY <1>1, Invariance, PTL

(* session.events.synchronized is sent only to a client that has had every *)
(* durable event through the announced cursor.                             *)
THEOREM Synchronized == Spec => SynchronizedIsTrue
<1>1. IInv /\ [Next]_vars =>
        [\A c \in Clients : place[c] = "replaying" /\ place'[c] = "checking" =>
           \A n \in 1..through[c] : delivered[c][n] = 1]_vars
  <2> SUFFICES ASSUME IInv, Next, NEW c \in Clients,
                      place[c] = "replaying", place'[c] = "checking",
                      NEW n \in 1..through[c]
               PROVE  delivered[c][n] = 1
    OBVIOUS
  <2>1. Synchronize(c)
    <3>1. PICK d \in Clients : HandlerStep(d)
      BY DEF Next, AppendEvent, AppendReplyLost, AppendSessionEvent, PublishLive, Publish,
             Connect, ConnectAhead, Open, Break, Return, Restart, Purge, closeSession,
             IInv, TypeOK
    <3>2. d = c
      BY <3>1 DEF HandlerStep, subscribe, ReadWatermark, WatermarkRefused, ReplayPage,
             ReplayFails, Synchronize, BackfillDone, CheckOverflow, SelectClosed,
             SelectEvent, Return, IInv, TypeOK
    <3> QED
      BY <3>1, <3>2 DEF HandlerStep, subscribe, ReadWatermark, WatermarkRefused,
             ReplayPage, ReplayFails, BackfillDone, CheckOverflow, SelectClosed,
             SelectEvent, Return, IInv, TypeOK
  <2>2. last[c] \in 0..(MaxSeq + 1) /\ through[c] \in 0..MaxSeq
    BY DEF IInv, TypeOK
  <2>3. last[c] >= through[c]
    BY <2>1 DEF Synchronize
  <2>4. last[c] = cursor[c]
    BY DEF IInv, Position, Streaming, Places
  <2>5. n \in 1..MaxSeq /\ n <= cursor[c]
    BY <2>2, <2>3, <2>4, EventsAssumption
  <2> QED
    BY <2>5 DEF IInv, InOrderOnce
<1> QED
  BY <1>1, Invariance, PTL DEF Spec, SynchronizedIsTrue

-----------------------------------------------------------------------------
(* Numbers.                                                                *)

(* A set of numbers has a least one.                                       *)
LEMMA LeastNumber ==
  ASSUME NEW T, T \subseteq Nat, T # {}
  PROVE  \E x \in T : \A y \in T : x <= y
<1> DEFINE R == OpToRel(<, Nat)
<1>1. IsWellFoundedOn(R, Nat)
  BY NatLessThanWellFounded
<1>2. PICK x \in T : \A y \in T : ~ (<<y, x>> \in R)
  <2> HIDE DEF R
  <2> QED
    BY <1>1, WFMin
<1>3. ASSUME NEW y \in T PROVE x <= y
  <2>1. <<y, x>> \notin R
    BY <1>2
  <2>2. <<y, x>> \in Nat \X Nat
    OBVIOUS
  <2> QED
    BY <2>1, <2>2 DEF OpToRel
<1> QED
  BY <1>3

(* A set of numbers that has a bound has a largest one.                    *)
LEMMA LargestNumber ==
  ASSUME NEW n \in Nat, NEW T, T \subseteq 0..n, T # {}
  PROVE  \E x \in T : \A y \in T : x >= y
<1> DEFINE U == {n - x : x \in T}
<1>1. \A x \in T : x \in 0..n /\ n - x \in Nat
  OBVIOUS
<1> U \subseteq Nat /\ U # {}
  BY <1>1
<1>2. PICK u \in U : \A y \in U : u <= y
  BY LeastNumber
<1>3. PICK x \in T : u = n - x
  BY <1>2
<1>4. \A y \in T : n - x <= n - y
  BY <1>2, <1>3
<1> QED
  BY <1>1, <1>4

-----------------------------------------------------------------------------
(* AgentHistory.  A row is missing only while its index is reserved, so    *)
(* that the rows of a session whose runs went well have no gap and are the *)
(* messages of its history.                                                *)

(* A message, and a row that is on its way to the store.                   *)
HistoryMessage ==
  [id : Nat, role : {"user", "assistant", "marker"}, tools : BOOLEAN, covers : SUBSET Nat]

(* Where the loop of a run is.                                             *)
LoopStates == {"idle", "turn", "checkpoint", "indexed", "streaming", "returning"}

(* The values of the state.  The rows are a finite set, by their indexes.  *)
HistoryTyped ==
  /\ hstHistory \in Seq(HistoryMessage) /\ hstMessages \in Seq(HistoryMessage)
  /\ hstEvents \in Seq(HistoryMessage)
  /\ hstLoop \in [at : LoopStates, idx : Nat \cup {None}, failed : BOOLEAN]
  /\ hstLoop.at \in {"indexed", "streaming"} => hstLoop.idx \in Nat
  /\ hstSaving \in {None} \cup [message : HistoryMessage, idx : Nat]
  /\ hstNextIdx \in Nat /\ hstMade \in Nat /\ hstReported \in BOOLEAN
  /\ \E rows \in SUBSET Nat : IsFiniteSet(rows) /\ hstStored \in [rows -> HistoryMessage]

(* Markers that were emitted and have no index yet.                        *)
WaitingMarkers(events) == Cardinality({i \in 1..Len(events) : events[i].role = "marker"})

(* The indexes that were given out and have no row yet, or a row that is   *)
(* about to be saved again.                                                *)
ReservedBy(loop, saving) ==
  (IF loop.at = "indexed" THEN {loop.idx} ELSE {})
    \cup (IF saving = None THEN {} ELSE {saving.idx})

(* A step of the loop that has its index and is not in the history yet.    *)
OpenStep(loop) == IF loop.at \in {"indexed", "streaming"} THEN 1 ELSE 0

(* A message that waits for the drain has been saved by the loop, but for  *)
(* markers.                                                                *)
EventsAreRows ==
  \A i \in 1..Len(hstEvents) : hstEvents[i].role # "marker" =>
    \E idx \in DOMAIN hstStored : hstStored[idx].id = hstEvents[i].id

(* A run returns when its events have been drained and saved.              *)
NothingWaitsWhenIdle ==
  hstLoop.at = "idle" =>
    hstEvents = <<>> /\ hstSaving = None

(* Between runs that went well the rows are the history.                   *)
RowsAreHistory ==
  hstLoop.at = "idle" /\ ~hstReported =>
    /\ DOMAIN hstStored = 0..(Cardinality(DOMAIN hstStored) - 1)
    /\ hstHistory # <<>> => Len(hstHistory) = Cardinality(DOMAIN hstStored)

(* In a run that goes well every index below nextIdx has its row or is     *)
(* reserved, and there is one for each message in memory.                  *)
IndexesAreMessages ==
  hstLoop.at # "idle" /\ ~hstReported /\ ~hstLoop.failed =>
    /\ DOMAIN hstStored \cup ReservedBy(hstLoop, hstSaving) = 0..(hstNextIdx - 1)
    /\ hstLoop.at = "streaming" => hstLoop.idx \in DOMAIN hstStored
    /\ Len(hstMessages) + OpenStep(hstLoop) = hstNextIdx + WaitingMarkers(hstEvents)

(* What every step of a session keeps.                                     *)
HistoryIInv ==
  HistoryTyped /\ EventsAreRows /\ NothingWaitsWhenIdle /\ RowsAreHistory /\ IndexesAreMessages

(* A session begins empty, and so do its rows.                             *)
LEMMA HistoryInit == History!Init => HistoryIInv
<1> SUFFICES ASSUME History!Init PROVE HistoryIInv
  OBVIOUS
<1>1. /\ hstLoop = [at |-> "idle", idx |-> None, failed |-> FALSE]
      /\ hstHistory = <<>> /\ hstMessages = <<>> /\ hstEvents = <<>> /\ hstSaving = None
      /\ hstStored = <<>> /\ hstNextIdx = 0 /\ hstMade = 0 /\ hstReported = FALSE
  BY DEF History!Init, History!Idle
<1>2. hstStored \in [{} -> HistoryMessage] /\ DOMAIN hstStored = {} /\ IsFiniteSet({})
  BY <1>1, FS_EmptySet
<1>3. Cardinality(DOMAIN hstStored) = 0
  BY <1>2, FS_EmptySet
<1>4. HistoryTyped
  <2>1. {} \in SUBSET Nat
    OBVIOUS
  <2>2. \E rows \in SUBSET Nat : IsFiniteSet(rows) /\ hstStored \in [rows -> HistoryMessage]
    BY <1>2, <2>1
  <2>3. hstLoop \in [at : LoopStates, idx : Nat \cup {None}, failed : BOOLEAN] /\ hstLoop.at = "idle"
    BY <1>1 DEF LoopStates
  <2>4. hstHistory \in Seq(HistoryMessage) /\ hstMessages \in Seq(HistoryMessage)
         /\ hstEvents \in Seq(HistoryMessage)
    BY <1>1
  <2>5. hstSaving \in {None} \cup [message : HistoryMessage, idx : Nat]
    BY <1>1
  <2>6. hstNextIdx \in Nat /\ hstMade \in Nat /\ hstReported \in BOOLEAN
    BY <1>1
  <2> QED
    BY <2>2, <2>3, <2>4, <2>5, <2>6 DEF HistoryTyped
<1>5. EventsAreRows /\ NothingWaitsWhenIdle /\ IndexesAreMessages
  BY <1>1 DEF EventsAreRows, NothingWaitsWhenIdle, IndexesAreMessages
<1>6. RowsAreHistory
  BY <1>1, <1>2, <1>3 DEF RowsAreHistory
<1> QED
  BY <1>4, <1>5, <1>6 DEF HistoryIInv

-----------------------------------------------------------------------------
(* The markers that wait.                                                  *)

MarkersIn(events) == {i \in 1..Len(events) : events[i].role = "marker"}

(* The markers that wait can be counted.                                   *)
LEMMA MarkersAreFinite ==
  ASSUME NEW S, NEW events \in Seq(S)
  PROVE  IsFiniteSet(MarkersIn(events)) /\ WaitingMarkers(events) \in Nat
<1>1. IsFiniteSet(1..Len(events)) /\ MarkersIn(events) \in SUBSET (1..Len(events))
  BY FS_Interval DEF MarkersIn
<1>2. IsFiniteSet(MarkersIn(events))
  BY <1>1, FS_Subset
<1> QED
  BY <1>2, FS_CardinalityType DEF WaitingMarkers, MarkersIn

(* One event more is one waiting marker more, or none.                     *)
LEMMA MarkerIsAppended ==
  ASSUME NEW S, NEW events \in Seq(S), NEW m \in S
  PROVE  WaitingMarkers(Append(events, m))
           = WaitingMarkers(events) + (IF m.role = "marker" THEN 1 ELSE 0)
<1> DEFINE n == Len(events) + 1
<1>1. /\ Len(Append(events, m)) = n /\ n \in Nat /\ Append(events, m)[n] = m
      /\ \A i \in 1..Len(events) : Append(events, m)[i] = events[i]
  OBVIOUS
<1>2. n \notin MarkersIn(events)
  BY DEF MarkersIn
<1>3. MarkersIn(Append(events, m))
        = IF m.role = "marker" THEN MarkersIn(events) \cup {n} ELSE MarkersIn(events)
  BY <1>1 DEF MarkersIn
<1>4. IsFiniteSet(MarkersIn(events)) /\ Cardinality(MarkersIn(events)) \in Nat
  BY MarkersAreFinite DEF WaitingMarkers, MarkersIn
<1>5. Cardinality(MarkersIn(events) \cup {n}) = Cardinality(MarkersIn(events)) + 1
  BY <1>2, <1>4, FS_AddElement
<1>6. /\ WaitingMarkers(events) = Cardinality(MarkersIn(events))
      /\ WaitingMarkers(Append(events, m)) = Cardinality(MarkersIn(Append(events, m)))
  BY DEF WaitingMarkers, MarkersIn
<1> QED
  BY <1>3, <1>4, <1>5, <1>6

(* ... and the first event taken is one less, or none.                     *)
LEMMA MarkerIsTaken ==
  ASSUME NEW S, NEW events \in Seq(S), events # <<>>
  PROVE  WaitingMarkers(events)
           = WaitingMarkers(Tail(events)) + (IF Head(events).role = "marker" THEN 1 ELSE 0)
<1> DEFINE rest == MarkersIn(Tail(events))
           later == MarkersIn(events) \ {1}
           f == [j \in rest |-> j + 1]
<1>1. /\ Tail(events) \in Seq(S) /\ Len(events) \in Nat \ {0} /\ Len(Tail(events)) = Len(events) - 1
      /\ \A i \in 1..Len(Tail(events)) : Tail(events)[i] = events[i + 1]
      /\ Head(events) = events[1]
  OBVIOUS
<1>2. f \in [rest -> later]
  BY <1>1 DEF MarkersIn
<1>3. \A i, j \in rest : f[i] = f[j] => i = j
  BY DEF MarkersIn
<1>4. ASSUME NEW i \in later PROVE \E j \in rest : f[j] = i
  <2>1. i - 1 \in rest /\ (i - 1) + 1 = i
    BY <1>1 DEF MarkersIn
  <2> QED
    BY <2>1
<1>5. f \in Bijection(rest, later)
  BY <1>2, <1>3, <1>4 DEF Bijection, Injection, Surjection, IsInjective
<1>6. ExistsBijection(rest, later)
  BY <1>5 DEF ExistsBijection
<1>7. IsFiniteSet(rest) /\ Cardinality(rest) \in Nat
  BY <1>1, MarkersAreFinite DEF WaitingMarkers, MarkersIn
<1>8. Cardinality(later) = Cardinality(rest)
  BY <1>6, <1>7, FS_Bijection
<1>9. IsFiniteSet(MarkersIn(events)) /\ Cardinality(MarkersIn(events)) \in Nat
  BY MarkersAreFinite DEF WaitingMarkers, MarkersIn
<1>10. Cardinality(later) = IF 1 \in MarkersIn(events) THEN Cardinality(MarkersIn(events)) - 1
                            ELSE Cardinality(MarkersIn(events))
  BY <1>9, FS_RemoveElement
<1>11. 1 \in MarkersIn(events) <=> Head(events).role = "marker"
  BY <1>1 DEF MarkersIn
<1>12. /\ WaitingMarkers(events) = Cardinality(MarkersIn(events))
       /\ WaitingMarkers(Tail(events)) = Cardinality(rest)
  BY DEF WaitingMarkers, MarkersIn
<1> QED
  BY <1>7, <1>8, <1>9, <1>10, <1>11, <1>12

-----------------------------------------------------------------------------
(* The rows, in their order.                                               *)

LEMMA RanksAreTaken ==
  ASSUME NEW D, D \subseteq Nat, IsFiniteSet(D)
  PROVE  \A i \in 1..Cardinality(D) : \E x \in D : Cardinality({j \in D : j <= x}) = i
<1> DEFINE n == Cardinality(D)
           upTo(x) == {j \in D : j <= x}
           rank == [x \in D |-> Cardinality(upTo(x))]
<1>1. n \in Nat
  BY FS_CardinalityType
<1>2. ASSUME NEW x \in D
      PROVE  IsFiniteSet(upTo(x)) /\ rank[x] \in 1..n
  <2>1. IsFiniteSet(upTo(x)) /\ Cardinality(upTo(x)) <= n
    BY FS_Subset
  <2>2. upTo(x) # {} /\ Cardinality(upTo(x)) \in Nat
    BY <2>1, FS_CardinalityType
  <2>3. Cardinality(upTo(x)) # 0
    BY <2>1, <2>2, FS_EmptySet
  <2> HIDE DEF upTo, n
  <2> QED
    BY <1>1, <2>1, <2>2, <2>3, ConcatProperties
<1>3. ASSUME NEW x \in D, NEW y \in D, x < y PROVE rank[x] < rank[y]
  <2>1. upTo(x) \subseteq upTo(y) /\ y \in upTo(y) /\ y \notin upTo(x)
    <3>1. \A j \in D : j \in Nat
      OBVIOUS
    <3>2. x \in Nat /\ y \in Nat
      OBVIOUS
    <3>3. \A j \in D : j <= x => j <= y
      BY <1>3, <3>1, <3>2
    <3>4. y <= y /\ ~(y <= x)
      BY <1>3, <3>2
    <3> QED
      BY <3>3, <3>4
  <2>2. IsFiniteSet(upTo(y)) /\ upTo(x) \in SUBSET upTo(y)
    BY <1>2, <2>1
  <2>3. /\ Cardinality(upTo(x)) <= Cardinality(upTo(y))
        /\ Cardinality(upTo(y)) = Cardinality(upTo(x)) => upTo(y) = upTo(x)
    <3> HIDE DEF upTo
    <3> QED
      BY <2>2, FS_Subset
  <2>4. rank[x] \in Nat /\ rank[y] \in Nat
    BY <1>2
  <2> QED
    BY <2>1, <2>3, <2>4
<1>4. \A x, y \in D : rank[x] = rank[y] => x = y
  <2>1. \A x, y \in D : x < y \/ y < x \/ x = y
    OBVIOUS
  <2>2. \A x \in D : rank[x] \in Nat
    BY <1>2
  <2> HIDE DEF rank
  <2> QED
    BY <1>3, <2>1, <2>2
<1>5. rank \in Injection(D, 1..n)
  <2>1. rank \in [D -> 1..n]
    BY <1>2
  <2> QED
    BY <1>4, <2>1 DEF Injection, IsInjective
<1>6. Cardinality(1..n) = n /\ IsFiniteSet(1..n)
  BY <1>1, FS_Interval
<1>7. rank \in Surjection(D, 1..n)
  <2> HIDE DEF rank
  <2> QED
    BY <1>5, <1>6, FS_Injection
<1>8. \A i \in 1..n : \E x \in D : rank[x] = i
  BY <1>7 DEF Surjection
<1> QED
  BY <1>8

-----------------------------------------------------------------------------
(* The context.                                                            *)

LEMMA LatestMarker ==
  ASSUME NEW S, NEW msgs \in Seq(S)
  PROVE  /\ History!findLatestMarker(msgs) \in 0..Len(msgs)
         /\ \A i \in 1..Len(msgs) : msgs[i].role = "marker" => i <= History!findLatestMarker(msgs)
         /\ History!findLatestMarker(msgs) # 0 =>
              msgs[History!findLatestMarker(msgs)].role = "marker"
<1>1. Len(msgs) \in Nat /\ DOMAIN msgs = 1..Len(msgs)
  OBVIOUS
<1>2. CASE History!Markers(msgs) = {}
  BY <1>1, <1>2 DEF History!findLatestMarker, History!Markers
<1>3. CASE History!Markers(msgs) # {}
  <2>1. History!Markers(msgs) \subseteq 0..Len(msgs)
    BY <1>1 DEF History!Markers
  <2>2. \E x \in History!Markers(msgs) : \A y \in History!Markers(msgs) : x >= y
    BY <1>1, <1>3, <2>1, LargestNumber
  <2>3. /\ History!findLatestMarker(msgs) \in History!Markers(msgs)
        /\ \A y \in History!Markers(msgs) : History!findLatestMarker(msgs) >= y
    BY <1>3, <2>2 DEF History!findLatestMarker, History!Max
  <2> QED
    BY <1>1, <2>1, <2>3 DEF History!Markers
<1> QED
  BY <1>2, <1>3

(* The position of the latest marker, or none.                             *)
Latest(msgs) == History!findLatestMarker(msgs)

(* A message is in the context from the latest marker on, or in a summary  *)
(* that is.                                                                *)
LEMMA ContextIs ==
  ASSUME NEW S, NEW msgs \in Seq(S), NEW x
  PROVE  x \in History!InContext(msgs) <=>
           \E i \in 1..Len(msgs) :
             /\ i >= Latest(msgs)
             /\ IF msgs[i].role = "marker" THEN x \in msgs[i].covers ELSE x = msgs[i].id
<1> DEFINE facing == History!modelFacingMessages(msgs)
           from == IF Latest(msgs) = 0 THEN 0 ELSE Latest(msgs) - 1
<1>1. Len(msgs) \in Nat /\ Latest(msgs) \in 0..Len(msgs)
  BY LatestMarker DEF Latest
<1>2. /\ DOMAIN facing = 1..(Len(msgs) - from)
      /\ \A j \in 1..(Len(msgs) - from) : facing[j] = msgs[j + from]
  <2>1. CASE Latest(msgs) = 0
    BY <1>1, <2>1 DEF History!modelFacingMessages, Latest
  <2>2. CASE Latest(msgs) # 0
    <3>1. facing = SubSeq(msgs, Latest(msgs), Len(msgs))
      BY <2>2 DEF History!modelFacingMessages, Latest
    <3> QED
      BY <1>1, <2>2, <3>1
  <2> QED
    BY <2>1, <2>2
<1>3. from \in Nat /\ from <= Len(msgs)
  BY <1>1
<1>4. x \in History!InContext(msgs) <=>
        \E j \in DOMAIN facing :
          IF facing[j].role = "marker" THEN x \in facing[j].covers ELSE x = facing[j].id
  <2>1. History!InContext(msgs)
          = {facing[i].id : i \in DOMAIN facing \ History!Markers(facing)}
              \cup UNION {facing[i].covers : i \in History!Markers(facing)}
    BY DEF History!InContext, History!collectMarkerState
  <2>2. History!Markers(facing) = {i \in DOMAIN facing : facing[i].role = "marker"}
    BY DEF History!Markers
  <2> HIDE DEF from, facing
  <2>3. x \in UNION {facing[i].covers : i \in History!Markers(facing)} <=>
          \E i \in History!Markers(facing) : x \in facing[i].covers
    OBVIOUS
  <2>4. x \in {facing[i].id : i \in DOMAIN facing \ History!Markers(facing)} <=>
          \E i \in DOMAIN facing : i \notin History!Markers(facing) /\ x = facing[i].id
    OBVIOUS
  <2>5. \A i : i \in History!Markers(facing) <=> i \in DOMAIN facing /\ facing[i].role = "marker"
    BY <2>2
  <2>6. x \in History!InContext(msgs) <=>
          \/ \E i \in DOMAIN facing : i \notin History!Markers(facing) /\ x = facing[i].id
          \/ \E i \in History!Markers(facing) : x \in facing[i].covers
    BY <2>1, <2>3, <2>4
  <2>7. ASSUME NEW i \in DOMAIN facing
        PROVE  (IF facing[i].role = "marker" THEN x \in facing[i].covers ELSE x = facing[i].id)
                 => x \in History!InContext(msgs)
    BY <2>5, <2>6
  <2>8. ASSUME x \in History!InContext(msgs)
        PROVE  \E i \in DOMAIN facing :
                 IF facing[i].role = "marker" THEN x \in facing[i].covers ELSE x = facing[i].id
    <3>1. CASE \E i \in DOMAIN facing : i \notin History!Markers(facing) /\ x = facing[i].id
      BY <2>5, <3>1
    <3>2. CASE \E i \in History!Markers(facing) : x \in facing[i].covers
      BY <2>5, <3>2
    <3> QED
      BY <2>6, <2>8, <3>1, <3>2
  <2> QED
    BY <2>7, <2>8
<1>5. ASSUME NEW j \in DOMAIN facing
      PROVE  /\ j + from \in 1..Len(msgs) /\ j + from >= Latest(msgs)
             /\ facing[j] = msgs[j + from]
  <2> HIDE DEF facing
  <2> QED
    BY <1>1, <1>2, <1>3, <1>5
<1>6. ASSUME NEW i \in 1..Len(msgs), i >= Latest(msgs)
      PROVE  i - from \in DOMAIN facing /\ facing[i - from] = msgs[i]
  <2> HIDE DEF facing
  <2> QED
    <3>1. i - from \in 1..(Len(msgs) - from) /\ (i - from) + from = i
      BY <1>1, <1>3, <1>6 DEF from
    <3> QED
      BY <1>2, <3>1
<1> HIDE DEF facing, from
<1> QED
  BY <1>4, <1>5, <1>6

(* A message that is appended takes nothing out of the context.            *)
LEMMA AppendKeepsContext ==
  ASSUME NEW S, NEW msgs \in Seq(S), NEW m \in S, m.role # "marker"
  PROVE  History!InContext(msgs) \subseteq History!InContext(Append(msgs, m))
<1> DEFINE new == Append(msgs, m)
<1>1. /\ Len(msgs) \in Nat /\ new \in Seq(S) /\ Len(new) = Len(msgs) + 1
      /\ \A i \in 1..Len(msgs) : new[i] = msgs[i]
      /\ new[Len(msgs) + 1] = m
  OBVIOUS
<1> HIDE DEF new
<1>2. /\ Latest(msgs) \in 0..Len(msgs)
      /\ \A i \in 1..Len(msgs) : msgs[i].role = "marker" => i <= Latest(msgs)
      /\ Latest(new) \in 0..Len(new)
      /\ Latest(new) # 0 => new[Latest(new)].role = "marker"
  BY <1>1, LatestMarker DEF Latest
<1>3. Latest(new) <= Latest(msgs)
  BY <1>1, <1>2
<1>4. ASSUME NEW x \in History!InContext(msgs) PROVE x \in History!InContext(new)
  <2>1. PICK i \in 1..Len(msgs) :
          /\ i >= Latest(msgs)
          /\ IF msgs[i].role = "marker" THEN x \in msgs[i].covers ELSE x = msgs[i].id
    BY ContextIs
  <2>2. i \in 1..Len(new) /\ i >= Latest(new) /\ new[i] = msgs[i]
    BY <1>1, <1>2, <1>3, <2>1
  <2> QED
    BY <1>1, <2>1, <2>2, ContextIs
<1> QED
  BY <1>4 DEF new

(* A marker is put before what is kept.                                    *)
LEMMA MarkerIsInserted ==
  ASSUME NEW S, NEW msgs \in Seq(S), NEW m \in S, NEW at \in 1..(Len(msgs) + 1)
  PROVE  /\ History!InsertAt(msgs, at, m) \in Seq(S)
         /\ Len(History!InsertAt(msgs, at, m)) = Len(msgs) + 1
         /\ \A i \in 1..(at - 1) : History!InsertAt(msgs, at, m)[i] = msgs[i]
         /\ History!InsertAt(msgs, at, m)[at] = m
         /\ \A i \in at..Len(msgs) : History!InsertAt(msgs, at, m)[i + 1] = msgs[i]
<1> DEFINE new == History!InsertAt(msgs, at, m)
<1>1. Len(msgs) \in Nat
  OBVIOUS
<1>2. /\ SubSeq(msgs, 1, at - 1) \in Seq(S) /\ Len(SubSeq(msgs, 1, at - 1)) = at - 1
      /\ \A i \in 1..(at - 1) : SubSeq(msgs, 1, at - 1)[i] = msgs[i]
  BY <1>1
<1>3. /\ SubSeq(msgs, at, Len(msgs)) \in Seq(S)
      /\ Len(SubSeq(msgs, at, Len(msgs))) = Len(msgs) - at + 1
      /\ \A i \in 1..(Len(msgs) - at + 1) : SubSeq(msgs, at, Len(msgs))[i] = msgs[at + i - 1]
  BY <1>1
<1>4. /\ new \in Seq(S) /\ Len(new) = Len(msgs) + 1
      /\ \A i \in 1..(at - 1) : new[i] = msgs[i]
      /\ new[at] = m
      /\ \A i \in at..Len(msgs) : new[i + 1] = msgs[i]
  <2> DEFINE front == SubSeq(msgs, 1, at - 1)
             back == SubSeq(msgs, at, Len(msgs))
  <2>1. new = front \o <<m>> \o back
    BY DEF History!InsertAt
  <2>2. /\ front \in Seq(S) /\ back \in Seq(S) /\ Len(front) = at - 1
        /\ Len(back) = Len(msgs) - at + 1
        /\ \A i \in 1..(at - 1) : front[i] = msgs[i]
        /\ \A i \in 1..(Len(msgs) - at + 1) : back[i] = msgs[at + i - 1]
    BY <1>2, <1>3
  <2> HIDE DEF front, back
  <2> DEFINE half == front \o <<m>>
  <2>3. /\ half \in Seq(S) /\ Len(half) = at
        /\ \A i \in 1..(at - 1) : half[i] = msgs[i]
        /\ half[at] = m
    <3>1. <<m>> \in Seq(S) /\ Len(<<m>>) = 1 /\ <<m>>[1] = m
      OBVIOUS
    <3>2. /\ half \in Seq(S) /\ Len(half) = Len(front) + 1
          /\ \A i \in 1..(Len(front) + 1) :
               half[i] = IF i <= Len(front) THEN front[i] ELSE <<m>>[i - Len(front)]
      <4> HIDE DEF half
      <4>1. half = front \o <<m>>
        BY DEF half
      <4> QED
        BY <2>2, <3>1, <4>1, ConcatProperties
    <3> HIDE DEF half
    <3> QED
      BY <1>1, <2>2, <3>1, <3>2
  <2>4. /\ new \in Seq(S) /\ Len(new) = Len(msgs) + 1
        /\ \A i \in 1..at : new[i] = half[i]
        /\ \A i \in (at + 1)..(Len(msgs) + 1) : new[i] = back[i - at]
    <3>1. new = half \o back
      BY <2>1
    <3> HIDE DEF half, new
    <3>2. /\ new \in Seq(S) /\ Len(new) = Len(half) + Len(back)
          /\ \A i \in 1..(Len(half) + Len(back)) :
               new[i] = IF i <= Len(half) THEN half[i] ELSE back[i - Len(half)]
      <4>1. /\ half \o back \in Seq(S) /\ Len(half \o back) = Len(half) + Len(back)
            /\ \A i \in 1..(Len(half) + Len(back)) :
                 (half \o back)[i] = IF i <= Len(half) THEN half[i] ELSE back[i - Len(half)]
        <5>1. half \in Seq(S) /\ back \in Seq(S)
          BY <2>2, <2>3
        <5> QED
          BY <5>1, ConcatProperties
      <4> QED
        BY <3>1, <4>1
    <3> QED
      BY <1>1, <2>2, <2>3, <3>2
  <2> HIDE DEF half
  <2> HIDE DEF new
  <2>5. ASSUME NEW i \in at..Len(msgs) PROVE new[i + 1] = msgs[i]
    <3>1. i + 1 \in (at + 1)..(Len(msgs) + 1) /\ (i + 1) - at \in 1..(Len(msgs) - at + 1)
            /\ at + ((i + 1) - at) - 1 = i
      BY <1>1
    <3> QED
      BY <2>2, <2>4, <3>1
  <2> QED
    BY <1>1, <2>3, <2>4, <2>5
<1> QED
  BY <1>4

(* Nor does a marker that covers what is before it, wherever it is put.    *)
LEMMA MarkerKeepsContext ==
  ASSUME NEW S, NEW msgs \in Seq(S), NEW m \in S, m.role = "marker",
         NEW at \in (Latest(msgs) + 1)..(Len(msgs) + 1),
         \A i \in 1..(at - 1) :
           IF msgs[i].role = "marker" THEN msgs[i].covers \subseteq m.covers
           ELSE i > Latest(msgs) => msgs[i].id \in m.covers
  PROVE  /\ History!InsertAt(msgs, at, m) \in Seq(S)
         /\ Len(History!InsertAt(msgs, at, m)) = Len(msgs) + 1
         /\ History!InContext(msgs) \subseteq History!InContext(History!InsertAt(msgs, at, m))
<1> DEFINE new == History!InsertAt(msgs, at, m)
<1>1. Len(msgs) \in Nat /\ Latest(msgs) \in 0..Len(msgs) /\ at \in 1..(Len(msgs) + 1)
      /\ \A i \in 1..Len(msgs) : msgs[i].role = "marker" => i <= Latest(msgs)
  BY LatestMarker DEF Latest
<1>4. /\ new \in Seq(S) /\ Len(new) = Len(msgs) + 1
      /\ \A i \in 1..(at - 1) : new[i] = msgs[i]
      /\ new[at] = m
      /\ \A i \in at..Len(msgs) : new[i + 1] = msgs[i]
  BY <1>1, MarkerIsInserted
<1> HIDE DEF new
<1>5. /\ Latest(new) \in 0..Len(new)
      /\ \A i \in 1..Len(new) : new[i].role = "marker" => i <= Latest(new)
      /\ Latest(new) # 0 => new[Latest(new)].role = "marker"
  BY <1>4, LatestMarker DEF Latest
<1>6. Latest(new) = at
  <2>1. at <= Latest(new)
    BY <1>1, <1>4, <1>5
  <2>2. ASSUME Latest(new) > at PROVE FALSE
    <3>1. Latest(new) - 1 \in at..Len(msgs) /\ new[(Latest(new) - 1) + 1] = msgs[Latest(new) - 1]
      BY <1>1, <1>4, <1>5, <2>2
    <3>2. msgs[Latest(new) - 1].role = "marker"
      BY <1>1, <1>5, <2>2, <3>1
    <3> QED
      BY <1>1, <3>1, <3>2
  <2> QED
    BY <1>1, <1>5, <2>1, <2>2
<1>7. ASSUME NEW x \in History!InContext(msgs) PROVE x \in History!InContext(new)
  <2>1. PICK i \in 1..Len(msgs) :
          /\ i >= Latest(msgs)
          /\ IF msgs[i].role = "marker" THEN x \in msgs[i].covers ELSE x = msgs[i].id
    BY ContextIs
  <2>2. CASE i < at
    <3>1. i \in 1..(at - 1)
      BY <1>1, <2>2
    <3>2. msgs[i].role # "marker" => i > Latest(msgs)
      <4>1. Latest(msgs) # 0 => msgs[Latest(msgs)].role = "marker"
        BY LatestMarker DEF Latest
      <4> QED
        BY <1>1, <2>1, <4>1
    <3>3. x \in m.covers
      BY <2>1, <3>1, <3>2
    <3>4. at \in 1..Len(new) /\ at >= Latest(new) /\ new[at].role = "marker" /\ x \in new[at].covers
      BY <1>1, <1>4, <1>6, <3>3
    <3> QED
      BY <1>4, <3>4, ContextIs
  <2>3. CASE i >= at
    <3>1. i + 1 \in 1..Len(new) /\ i + 1 >= Latest(new) /\ new[i + 1] = msgs[i]
      BY <1>1, <1>4, <1>6, <2>3
    <3> QED
      BY <1>4, <2>1, <3>1, ContextIs
  <2> QED
    BY <1>1, <2>2, <2>3
<1> QED
  BY <1>4, <1>7 DEF new

-----------------------------------------------------------------------------
(* The compaction.                                                         *)

LEMMA TailStart ==
  ASSUME HistoryAssumption, NEW S, NEW msgs \in Seq(S), NEW from \in 1..(Len(msgs) + 1)
  PROVE  History!findTailStart(msgs, from) \in from..(Len(msgs) + 1)
<1> DEFINE half == HistoryTriggerTokens \div 2
           keep == IF HistoryKeepRecent < HistoryTriggerTokens THEN HistoryKeepRecent
                   ELSE IF half < 1 THEN 1 ELSE half
           recent == Len(msgs) + 1 - keep
           candidate == IF recent < from THEN from ELSE recent
           safe == {i \in candidate..(Len(msgs) + 1) : History!isSafeFirstKept(msgs, i)}
<1>1. half \in Nat
  BY DEF HistoryAssumption
<1>2. keep \in Nat
  <2> HIDE DEF half
  <2> QED
    BY <1>1 DEF HistoryAssumption
<1>3. Len(msgs) \in Nat
  OBVIOUS
<1>4. candidate \in from..(Len(msgs) + 1)
  <2> HIDE DEF keep
  <2> QED
    BY <1>2, <1>3
<1>5. History!findTailStart(msgs, from) = History!safeTailStartAtOrAfter(msgs, candidate)
  BY DEF History!findTailStart
<1> HIDE DEF candidate
<1>6. Len(msgs) + 1 \in safe /\ safe \subseteq Nat /\ safe # {}
  BY <1>3, <1>4 DEF History!isSafeFirstKept
<1>7. PICK least \in safe : \A i \in safe : least <= i
  BY <1>6, LeastNumber
<1>8. ASSUME NEW j \in candidate..(least - 1) PROVE ~History!isSafeFirstKept(msgs, j)
  <2>1. j \in candidate..(Len(msgs) + 1) /\ ~(least <= j)
    BY <1>3, <1>4, <1>7
  <2> QED
    BY <1>7, <2>1
<1>9. \E i \in candidate..(Len(msgs) + 1) :
        /\ History!isSafeFirstKept(msgs, i)
        /\ \A j \in candidate..(i - 1) : ~History!isSafeFirstKept(msgs, j)
  BY <1>7, <1>8
<1>10. History!safeTailStartAtOrAfter(msgs, candidate) \in candidate..(Len(msgs) + 1)
  BY <1>9 DEF History!safeTailStartAtOrAfter
<1> QED
  BY <1>3, <1>4, <1>5, <1>10

(* The marker that a compaction makes comes after the latest one and       *)
(* covers all that is before it.                                           *)
LEMMA CompactionIs ==
  ASSUME HistoryAssumption, NEW msgs \in Seq(HistoryMessage), NEW id \in Nat,
         History!Compaction(msgs, id) # <<>>
  PROVE  \E at \in (Latest(msgs) + 1)..(Len(msgs) + 1), m \in HistoryMessage :
           /\ History!Compaction(msgs, id) = <<[at |-> at, marker |-> m]>>
           /\ m.role = "marker" /\ m.id = id
           /\ \A i \in 1..(at - 1) :
                IF msgs[i].role = "marker" THEN msgs[i].covers \subseteq m.covers
                ELSE i > Latest(msgs) => msgs[i].id \in m.covers
<1> DEFINE from == Latest(msgs) + 1
           at == History!findTailStart(msgs, from)
           head == SubSeq(msgs, 1, from - 1)
           body == SubSeq(msgs, from, at - 1)
           covers == History!collectMarkerState(head) \cup History!Ids(body)
           m == [id |-> id, role |-> "marker", tools |-> FALSE, covers |-> covers]
<1>1. /\ Len(msgs) \in Nat /\ Latest(msgs) \in 0..Len(msgs)
      /\ \A i \in 1..Len(msgs) : msgs[i].role = "marker" => i <= Latest(msgs)
      /\ \A i \in 1..Len(msgs) : msgs[i] \in HistoryMessage
  BY LatestMarker DEF Latest
<1>2. from \in 1..(Len(msgs) + 1)
  BY <1>1
<1>3. at \in from..(Len(msgs) + 1)
  <2> HIDE DEF from
  <2> QED
    BY <1>2, TailStart
<1>4. History!Compaction(msgs, id) = <<[at |-> at, marker |-> m]>>
  BY DEF History!Compaction, History!Message, Latest
<1> HIDE DEF at
<1>5. /\ DOMAIN head = 1..(from - 1) /\ \A i \in 1..(from - 1) : head[i] = msgs[i]
      /\ DOMAIN body = 1..(at - from) /\ \A i \in 1..(at - from) : body[i] = msgs[from + i - 1]
  <2>1. from \in Nat /\ at \in Nat /\ from >= 1 /\ at >= from /\ at <= Len(msgs) + 1
    BY <1>1, <1>2, <1>3
  <2> HIDE DEF from
  <2>2. Len(head) = from - 1 /\ \A i \in 1..(from - 1) : head[i] = msgs[i]
    BY <2>1
  <2>3. Len(body) = at - from /\ \A i \in 1..(at - from) : body[i] = msgs[from + i - 1]
    BY <2>1
  <2>4. head \in Seq(HistoryMessage) /\ body \in Seq(HistoryMessage)
    BY <1>1, <2>1
  <2> HIDE DEF head, body
  <2>5. DOMAIN head = 1..Len(head) /\ DOMAIN body = 1..Len(body)
    BY <2>4
  <2> QED
    BY <2>2, <2>3, <2>5
<1> HIDE DEF from
<1>6. \A x : x \in History!collectMarkerState(head) <=>
        \E i \in 1..(from - 1) : msgs[i].role = "marker" /\ x \in msgs[i].covers
  <2> HIDE DEF head
  <2> QED
    BY <1>5 DEF History!collectMarkerState, History!Markers
<1>7. History!Ids(body) = {msgs[from + i - 1].id : i \in 1..(at - from)}
  <2> HIDE DEF body
  <2> QED
    BY <1>5 DEF History!Ids
<1>8. ASSUME NEW i \in from..(at - 1) PROVE msgs[i].id \in History!Ids(body)
  <2>1. i - from + 1 \in 1..(at - from) /\ from + (i - from + 1) - 1 = i
    BY <1>1, <1>2, <1>3
  <2> QED
    BY <1>7, <2>1
<1>9. covers \subseteq Nat
  <2>1. ASSUME NEW x \in History!collectMarkerState(head) PROVE x \in Nat
    <3>1. PICK i \in 1..(from - 1) : msgs[i].role = "marker" /\ x \in msgs[i].covers
      BY <1>6
    <3>2. msgs[i] \in HistoryMessage
      BY <1>1, <1>2
    <3> QED
      BY <3>1, <3>2 DEF HistoryMessage
  <2>2. ASSUME NEW x \in History!Ids(body) PROVE x \in Nat
    <3>1. PICK i \in 1..(at - from) : x = msgs[from + i - 1].id
      BY <1>7
    <3>2. from + i - 1 \in 1..Len(msgs)
      BY <1>1, <1>2, <1>3
    <3>3. msgs[from + i - 1] \in HistoryMessage
      BY <1>1, <3>2
    <3> QED
      BY <3>1, <3>3 DEF HistoryMessage
  <2> QED
    BY <2>1, <2>2
<1>10. ASSUME NEW i \in 1..(at - 1)
       PROVE  IF msgs[i].role = "marker" THEN msgs[i].covers \subseteq covers
              ELSE i > Latest(msgs) => msgs[i].id \in covers
  <2>1. from = Latest(msgs) + 1 /\ i \in 1..Len(msgs)
    BY <1>1, <1>2, <1>3 DEF from
  <2>2. CASE msgs[i].role = "marker"
    <3>1. i \in 1..(from - 1)
      BY <1>1, <2>1, <2>2
    <3> QED
      BY <1>6, <2>2, <3>1
  <2>3. CASE msgs[i].role # "marker" /\ i > Latest(msgs)
    <3>1. i \in from..(at - 1)
      BY <1>1, <1>2, <1>3, <2>1, <2>3
    <3> QED
      BY <1>8, <2>3, <3>1
  <2> QED
    BY <2>2, <2>3
<1> HIDE DEF covers
<1>11. m \in HistoryMessage /\ m.role = "marker" /\ m.id = id /\ m.covers = covers
  BY <1>9 DEF HistoryMessage
<1>12. at \in (Latest(msgs) + 1)..(Len(msgs) + 1)
  BY <1>3 DEF from
<1> HIDE DEF m
<1> QED
  BY <1>4, <1>10, <1>11, <1>12

-----------------------------------------------------------------------------
(* A row.                                                                  *)

LEMMA RowIsSaved ==
  ASSUME NEW idx \in Nat, NEW m \in HistoryMessage, History!Saved(idx, m),
         \E rows \in SUBSET Nat : IsFiniteSet(rows) /\ hstStored \in [rows -> HistoryMessage]
  PROVE  /\ DOMAIN hstStored' = DOMAIN hstStored \cup {idx}
         /\ \A i \in DOMAIN hstStored : hstStored'[i].id = hstStored[i].id
         /\ hstStored'[idx] = m
         /\ \E rows \in SUBSET Nat : IsFiniteSet(rows) /\ hstStored' \in [rows -> HistoryMessage]
<1>1. PICK rows \in SUBSET Nat : IsFiniteSet(rows) /\ hstStored \in [rows -> HistoryMessage]
  OBVIOUS
<1>2. /\ idx \in rows => hstStored[idx].id = m.id
      /\ hstStored' = [i \in rows \cup {idx} |-> IF i = idx THEN m ELSE hstStored[i]]
  BY <1>1 DEF History!Saved
<1>3. IsFiniteSet(rows \cup {idx}) /\ rows \cup {idx} \in SUBSET Nat
  BY <1>1, FS_AddElement
<1>4. hstStored' \in [rows \cup {idx} -> HistoryMessage]
  BY <1>1, <1>2
<1>5. \E r \in SUBSET Nat : IsFiniteSet(r) /\ hstStored' \in [r -> HistoryMessage]
  BY <1>3, <1>4
<1> QED
  BY <1>1, <1>2, <1>5

-----------------------------------------------------------------------------
(* The steps of a session.                                                 *)

(* No step of a run makes the model forget.                                *)
NothingForgotten ==
  hstLoop.at # "idle" /\ hstLoop'.at # "idle"
    => History!InContext(hstMessages) \subseteq History!InContext(hstMessages')

(* The rows, apart from the rest of the types.                             *)
RowsTyped == \E rows \in SUBSET Nat : IsFiniteSet(rows) /\ hstStored \in [rows -> HistoryMessage]

(* The instance has its own name for the operator of FiniteSets.           *)
LEMMA HistoryCardinality == \A S : History!Cardinality(S) = Cardinality(S)
BY DEF History!Cardinality, Cardinality

(* The loop of a run, field by field.                                      *)
LEMMA LoopIs ==
  ASSUME HistoryTyped
  PROVE  /\ hstLoop = [at |-> hstLoop.at, idx |-> hstLoop.idx, failed |-> hstLoop.failed]
         /\ hstLoop.failed \in BOOLEAN /\ hstLoop.idx \in Nat \cup {None}
         /\ hstLoop.at \in LoopStates
BY DEF HistoryTyped

(* StartRun: the message of the user has its row before the loop sees it.  *)
LEMMA StartRunHistory ==
  ASSUME HistoryIInv, History!StartRun PROVE HistoryIInv' /\ NothingForgotten
<1> DEFINE m == [id |-> hstMade + 1, role |-> "user", tools |-> FALSE, covers |-> {}]
           rows == History!Hydrated
           n == Cardinality(DOMAIN hstStored)
<1>1. HistoryTyped /\ NothingWaitsWhenIdle /\ RowsAreHistory /\ EventsAreRows
  BY DEF HistoryIInv
<1>2. /\ hstLoop.at = "idle" /\ hstMade' = hstMade + 1 /\ hstHistory' = Append(rows, m)
      /\ UNCHANGED <<hstEvents, hstSaving>>
      /\ \/ /\ History!Saved(Len(rows), m)
            /\ hstMessages' = hstHistory' /\ hstNextIdx' = Len(hstHistory')
            /\ hstLoop' = [at |-> "turn", idx |-> None, failed |-> FALSE]
            /\ hstReported' = hstReported
         \/ /\ hstReported' = TRUE /\ UNCHANGED <<hstStored, hstMessages, hstNextIdx, hstLoop>>
  BY DEF History!StartRun, History!Message, History!Idle
<1>3. m \in HistoryMessage
  BY <1>1 DEF HistoryTyped, HistoryMessage
<1> HIDE DEF m
<1>4. PICK D \in SUBSET Nat : IsFiniteSet(D) /\ hstStored \in [D -> HistoryMessage]
  BY <1>1 DEF HistoryTyped
<1>5. DOMAIN hstStored = D /\ n \in Nat /\ D \subseteq Nat
  BY <1>4, FS_CardinalityType
<1>6. rows \in Seq(HistoryMessage) /\ (hstHistory = <<>> => Len(rows) = n)
        /\ (hstHistory # <<>> => rows = hstHistory)
  <2>1. CASE hstHistory # <<>>
    BY <1>1, <2>1 DEF History!Hydrated, HistoryTyped
  <2>2. CASE hstHistory = <<>>
    <3> DEFINE row(i) == CHOOSE idx \in DOMAIN hstStored :
                           History!Cardinality({j \in DOMAIN hstStored : j <= idx}) = i
    <3>1. rows = [i \in 1..n |-> hstStored[row(i)]]
      <4>1. rows = [i \in 1..History!Cardinality(DOMAIN hstStored) |-> hstStored[row(i)]]
        BY <2>2 DEF History!Hydrated, History!Rows
      <4> HIDE DEF row, rows
      <4> QED
        BY <4>1, HistoryCardinality
    <3>2. ASSUME NEW i \in 1..n PROVE hstStored[row(i)] \in HistoryMessage
      <4>1. \E x \in D : Cardinality({j \in D : j <= x}) = i
        BY <1>4, <1>5, RanksAreTaken
      <4>3. \E x \in DOMAIN hstStored : History!Cardinality({j \in DOMAIN hstStored : j <= x}) = i
        BY <1>5, <4>1, HistoryCardinality
      <4>2. row(i) \in D
        BY <1>5, <4>3
      <4> QED
        BY <1>4, <4>2
    <3> HIDE DEF row
    <3>3. rows \in [1..n -> HistoryMessage]
      BY <3>1, <3>2
    <3>4. rows \in Seq(HistoryMessage) /\ Len(rows) = n
      <4> HIDE DEF n, rows
      <4> QED
        BY <1>5, <3>3
    <3> QED
      BY <2>2, <3>4
  <2> QED
    BY <2>1, <2>2
<1>7. /\ hstHistory' \in Seq(HistoryMessage) /\ Len(hstHistory') = Len(rows) + 1 /\ Len(rows) \in Nat
      /\ hstMade' \in Nat
  <2> HIDE DEF rows
  <2> QED
    BY <1>1, <1>2, <1>3, <1>6 DEF HistoryTyped
<1>8. hstEvents = <<>> /\ hstSaving = None
  BY <1>1, <1>2 DEF NothingWaitsWhenIdle
<1> HIDE DEF rows
<1>9. CASE /\ History!Saved(Len(rows), m)
           /\ hstMessages' = hstHistory' /\ hstNextIdx' = Len(hstHistory')
           /\ hstLoop' = [at |-> "turn", idx |-> None, failed |-> FALSE]
           /\ hstReported' = hstReported
  <2>1. /\ DOMAIN hstStored' = DOMAIN hstStored \cup {Len(rows)} /\ RowsTyped'
    BY <1>3, <1>4, <1>7, <1>9, RowIsSaved DEF RowsTyped
  <2>2. HistoryTyped'
    <3>1. hstLoop' \in [at : LoopStates, idx : Nat \cup {None}, failed : BOOLEAN]
            /\ hstLoop'.at = "turn"
      BY <1>9 DEF LoopStates
    <3>2. hstMessages' \in Seq(HistoryMessage) /\ hstNextIdx' \in Nat /\ hstReported' \in BOOLEAN
      BY <1>1, <1>7, <1>9 DEF HistoryTyped
    <3>3. hstEvents' \in Seq(HistoryMessage)
            /\ hstSaving' \in {None} \cup [message : HistoryMessage, idx : Nat]
      BY <1>1, <1>2 DEF HistoryTyped
    <3> QED
      BY <1>7, <2>1, <3>1, <3>2, <3>3 DEF HistoryTyped, RowsTyped
  <2>3. EventsAreRows' /\ NothingWaitsWhenIdle' /\ RowsAreHistory'
    <3>1. hstEvents' = <<>> /\ hstLoop'.at = "turn"
      BY <1>2, <1>8, <1>9
    <3> QED
      BY <3>1 DEF EventsAreRows, NothingWaitsWhenIdle, RowsAreHistory
  <2>4. IndexesAreMessages'
    <3>1. SUFFICES ASSUME ~hstReported PROVE IndexesAreMessages'
      BY <1>9 DEF IndexesAreMessages
    <3>2. Len(rows) = n /\ D = 0..(n - 1)
      BY <1>1, <1>2, <1>5, <1>6, <3>1 DEF RowsAreHistory
    <3>3. DOMAIN hstStored' = 0..(hstNextIdx' - 1)
      <4>1. DOMAIN hstStored' = 0..(n - 1) \cup {n} /\ hstNextIdx' = n + 1
        BY <1>5, <1>7, <1>9, <2>1, <3>2
      <4> HIDE DEF n
      <4> QED
        BY <1>5, <4>1
    <3>4. hstEvents' = <<>> /\ hstSaving' = None /\ hstLoop'.at = "turn"
      BY <1>2, <1>8, <1>9
    <3>5. WaitingMarkers(hstEvents') = 0
      <4>1. MarkersIn(<<>>) = {}
        BY DEF MarkersIn
      <4> QED
        BY <3>4, <4>1, FS_EmptySet DEF WaitingMarkers, MarkersIn
    <3>6. ReservedBy(hstLoop', hstSaving') = {} /\ OpenStep(hstLoop') = 0
      BY <3>4 DEF ReservedBy, OpenStep
    <3>7. Len(hstMessages') + 0 = hstNextIdx' + 0
      BY <1>7, <1>9
    <3> QED
      BY <3>3, <3>4, <3>5, <3>6, <3>7 DEF IndexesAreMessages
  <2> QED
    BY <1>2, <2>2, <2>3, <2>4 DEF HistoryIInv, NothingForgotten
<1>10. CASE /\ hstReported' = TRUE /\ UNCHANGED <<hstStored, hstMessages, hstNextIdx, hstLoop>>
  <2>1. HistoryTyped'
    BY <1>1, <1>2, <1>7, <1>10 DEF HistoryTyped
  <2> QED
    BY <1>1, <1>2, <1>10, <2>1 DEF HistoryIInv, EventsAreRows, NothingWaitsWhenIdle, RowsAreHistory,
       IndexesAreMessages, NothingForgotten
<1> QED
  BY <1>2, <1>9, <1>10

(* BeginTurn: a marker is put into the history and its rows wait.          *)
LEMMA BeginTurnHistory ==
  ASSUME HistoryAssumption, HistoryIInv, History!BeginTurn PROVE HistoryIInv' /\ NothingForgotten
<1> DEFINE compaction == History!Compaction(hstMessages, hstMade + 1)
<1>1. HistoryTyped /\ NothingWaitsWhenIdle /\ IndexesAreMessages /\ EventsAreRows
  BY DEF HistoryIInv
<1>2. /\ hstLoop.at = "turn"
      /\ UNCHANGED <<hstHistory, hstSaving, hstStored, hstNextIdx, hstReported>>
      /\ \/ /\ hstLoop' = [hstLoop EXCEPT !.at = "returning", !.failed = TRUE]
            /\ UNCHANGED <<hstMessages, hstEvents, hstMade>>
         \/ /\ hstLoop' = [hstLoop EXCEPT !.at = "checkpoint"]
            /\ UNCHANGED <<hstMessages, hstEvents, hstMade>>
         \/ /\ compaction # <<>>
            /\ hstMessages' = History!InsertAt(hstMessages, compaction[1].at, compaction[1].marker)
            /\ hstEvents' = Append(hstEvents, compaction[1].marker)
            /\ hstMade' = hstMade + 1
            /\ hstLoop' = [hstLoop EXCEPT !.at = "checkpoint"]
  BY DEF History!BeginTurn
<1> HIDE DEF compaction
<1>3. CASE /\ hstLoop' = [hstLoop EXCEPT !.at = "returning", !.failed = TRUE]
           /\ UNCHANGED <<hstMessages, hstEvents, hstMade>>
  <2>1. hstLoop' = [at |-> "returning", idx |-> hstLoop.idx, failed |-> TRUE]
    BY <1>1, <1>3, LoopIs
  <2>2. HistoryTyped'
    BY <1>1, <1>2, <1>3, <2>1, LoopIs DEF HistoryTyped, LoopStates
  <2> QED
    BY <1>1, <1>2, <1>3, <2>1, <2>2 DEF HistoryIInv, EventsAreRows, NothingWaitsWhenIdle,
       RowsAreHistory, IndexesAreMessages, NothingForgotten
<1>4. hstLoop.idx \in Nat \cup {None} /\ hstLoop.failed \in BOOLEAN
  BY <1>1, LoopIs
<1>5. CASE hstLoop' = [hstLoop EXCEPT !.at = "checkpoint"]
  <2>1. hstLoop' = [at |-> "checkpoint", idx |-> hstLoop.idx, failed |-> hstLoop.failed]
    BY <1>1, <1>5, LoopIs
  <2>2. /\ hstLoop' \in [at : LoopStates, idx : Nat \cup {None}, failed : BOOLEAN]
        /\ hstLoop'.at = "checkpoint" /\ hstLoop'.failed = hstLoop.failed
    BY <1>4, <2>1 DEF LoopStates
  <2>3. /\ ReservedBy(hstLoop, hstSaving) = ReservedBy(hstLoop', hstSaving')
        /\ OpenStep(hstLoop) = 0 /\ OpenStep(hstLoop') = 0
    BY <1>2, <2>2 DEF ReservedBy, OpenStep
  <2>4. CASE UNCHANGED <<hstMessages, hstEvents, hstMade>>
    <3>1. HistoryTyped'
      BY <1>1, <1>2, <2>2, <2>4 DEF HistoryTyped
    <3>2. IndexesAreMessages'
      BY <1>1, <1>2, <2>2, <2>3, <2>4 DEF IndexesAreMessages
    <3> QED
      BY <1>1, <1>2, <2>2, <2>4, <3>1, <3>2 DEF HistoryIInv, EventsAreRows, NothingWaitsWhenIdle,
         RowsAreHistory, NothingForgotten
  <2>5. CASE /\ compaction # <<>>
             /\ hstMessages' = History!InsertAt(hstMessages, compaction[1].at, compaction[1].marker)
             /\ hstEvents' = Append(hstEvents, compaction[1].marker)
             /\ hstMade' = hstMade + 1
    <3>1. /\ hstMessages \in Seq(HistoryMessage) /\ hstEvents \in Seq(HistoryMessage)
          /\ hstMade + 1 \in Nat /\ Len(hstMessages) \in Nat /\ hstNextIdx \in Nat
      BY <1>1 DEF HistoryTyped
    <3>2. PICK at \in (Latest(hstMessages) + 1)..(Len(hstMessages) + 1), m \in HistoryMessage :
            /\ compaction = <<[at |-> at, marker |-> m]>>
            /\ m.role = "marker"
            /\ \A i \in 1..(at - 1) :
                 IF hstMessages[i].role = "marker" THEN hstMessages[i].covers \subseteq m.covers
                 ELSE i > Latest(hstMessages) => hstMessages[i].id \in m.covers
      <4> DEFINE id == hstMade + 1
      <4>1. compaction = History!Compaction(hstMessages, id) /\ id \in Nat
        BY <3>1 DEF compaction
      <4> HIDE DEF id
      <4> QED
        BY <2>5, <3>1, <4>1, CompactionIs
    <3>3. /\ hstMessages' = History!InsertAt(hstMessages, at, m)
          /\ hstEvents' = Append(hstEvents, m)
      BY <2>5, <3>2
    <3>4. /\ hstMessages' \in Seq(HistoryMessage) /\ Len(hstMessages') = Len(hstMessages) + 1
          /\ History!InContext(hstMessages) \subseteq History!InContext(hstMessages')
      <4> DEFINE new == History!InsertAt(hstMessages, at, m)
      <4>1. /\ new \in Seq(HistoryMessage) /\ Len(new) = Len(hstMessages) + 1
            /\ History!InContext(hstMessages) \subseteq History!InContext(new)
        BY <3>1, <3>2, MarkerKeepsContext
      <4> HIDE DEF new
      <4> QED
        BY <3>3, <4>1 DEF new
    <3>5. hstEvents' \in Seq(HistoryMessage)
            /\ WaitingMarkers(hstEvents') = WaitingMarkers(hstEvents) + 1
            /\ WaitingMarkers(hstEvents) \in Nat
      BY <3>1, <3>2, <3>3, MarkerIsAppended, MarkersAreFinite
    <3>6. HistoryTyped'
      BY <1>1, <1>2, <2>2, <2>5, <3>1, <3>4, <3>5 DEF HistoryTyped
    <3>7. IndexesAreMessages'
      BY <1>1, <1>2, <2>2, <2>3, <3>1, <3>4, <3>5 DEF IndexesAreMessages
    <3>8. EventsAreRows'
      <4>1. Len(hstEvents') = Len(hstEvents) + 1 /\ Len(hstEvents) \in Nat
              /\ hstEvents'[Len(hstEvents) + 1] = m
              /\ \A i \in 1..Len(hstEvents) : hstEvents'[i] = hstEvents[i]
        BY <3>1, <3>3
      <4> QED
        BY <1>1, <1>2, <3>2, <4>1 DEF EventsAreRows
    <3> QED
      BY <2>2, <3>4, <3>6, <3>7, <3>8 DEF HistoryIInv, NothingWaitsWhenIdle, RowsAreHistory,
         NothingForgotten
  <2> QED
    BY <1>2, <1>5, <2>2, <2>4, <2>5
<1> QED
  BY <1>2, <1>3, <1>5

(* AssignIndex: the next index is given to the answer.                     *)
LEMMA AssignIndexHistory ==
  ASSUME HistoryIInv, History!AssignIndex PROVE HistoryIInv' /\ NothingForgotten
<1>1. HistoryTyped /\ NothingWaitsWhenIdle /\ IndexesAreMessages /\ EventsAreRows
  BY DEF HistoryIInv
<1>2. /\ hstLoop.at = "checkpoint"
      /\ hstLoop' = [at |-> "indexed", idx |-> hstNextIdx, failed |-> hstLoop.failed]
      /\ hstNextIdx' = hstNextIdx + 1 /\ hstMade' = hstMade + 1
      /\ UNCHANGED <<hstHistory, hstMessages, hstEvents, hstSaving, hstStored, hstReported>>
  BY <1>1, LoopIs DEF History!AssignIndex
<1>3. hstNextIdx \in Nat /\ hstLoop.failed \in BOOLEAN /\ hstMade \in Nat
  BY <1>1, LoopIs DEF HistoryTyped
<1>4. /\ hstLoop' \in [at : LoopStates, idx : Nat \cup {None}, failed : BOOLEAN]
      /\ hstLoop'.at = "indexed" /\ hstLoop'.idx = hstNextIdx /\ hstLoop'.failed = hstLoop.failed
  BY <1>2, <1>3 DEF LoopStates
<1>5. HistoryTyped'
  BY <1>1, <1>2, <1>3, <1>4 DEF HistoryTyped
<1>6. IndexesAreMessages'
  <2>1. /\ ReservedBy(hstLoop', hstSaving') = ReservedBy(hstLoop, hstSaving) \cup {hstNextIdx}
        /\ OpenStep(hstLoop) = 0 /\ OpenStep(hstLoop') = 1
    BY <1>2, <1>4 DEF ReservedBy, OpenStep
  <2>2. 0..(hstNextIdx' - 1) = 0..(hstNextIdx - 1) \cup {hstNextIdx}
    BY <1>2, <1>3
  <2>3. WaitingMarkers(hstEvents) \in Nat /\ Len(hstMessages) \in Nat
    BY <1>1, MarkersAreFinite DEF HistoryTyped
  <2>4. SUFFICES ASSUME ~hstReported, ~hstLoop.failed PROVE IndexesAreMessages'
    BY <1>2, <1>4 DEF IndexesAreMessages
  <2>5. /\ DOMAIN hstStored \cup ReservedBy(hstLoop, hstSaving) = 0..(hstNextIdx - 1)
        /\ Len(hstMessages) + 0 = hstNextIdx + WaitingMarkers(hstEvents)
    BY <1>1, <1>2, <2>1, <2>4 DEF IndexesAreMessages
  <2>6. DOMAIN hstStored' \cup ReservedBy(hstLoop', hstSaving') = 0..(hstNextIdx' - 1)
    BY <1>2, <2>1, <2>2, <2>5
  <2>7. Len(hstMessages') + 1 = hstNextIdx' + WaitingMarkers(hstEvents')
    BY <1>2, <1>3, <2>3, <2>5
  <2> QED
    BY <1>4, <2>1, <2>6, <2>7 DEF IndexesAreMessages
<1> QED
  BY <1>1, <1>2, <1>4, <1>5, <1>6 DEF HistoryIInv, EventsAreRows, NothingWaitsWhenIdle,
     RowsAreHistory, NothingForgotten

(* Checkpoint: what there is of the answer is saved under it.              *)
LEMMA CheckpointHistory ==
  ASSUME HistoryIInv, History!Checkpoint PROVE HistoryIInv' /\ NothingForgotten
<1> DEFINE m == [id |-> hstMade, role |-> "assistant", tools |-> FALSE, covers |-> {}]
<1>1. HistoryTyped /\ NothingWaitsWhenIdle /\ IndexesAreMessages /\ EventsAreRows
  BY DEF HistoryIInv
<1>2. /\ hstLoop.at = "indexed" /\ History!Saved(hstLoop.idx, m)
      /\ hstLoop' = [at |-> "streaming", idx |-> hstLoop.idx, failed |-> hstLoop.failed]
      /\ UNCHANGED <<hstHistory, hstMessages, hstEvents, hstSaving, hstNextIdx, hstMade, hstReported>>
  BY <1>1, LoopIs DEF History!Checkpoint, History!Assistant, History!Message
<1>3. m \in HistoryMessage /\ hstLoop.idx \in Nat /\ hstLoop.failed \in BOOLEAN
  BY <1>1, <1>2, LoopIs DEF HistoryTyped, HistoryMessage
<1> HIDE DEF m
<1>4. /\ DOMAIN hstStored' = DOMAIN hstStored \cup {hstLoop.idx} /\ RowsTyped'
      /\ \A i \in DOMAIN hstStored : hstStored'[i].id = hstStored[i].id
  BY <1>1, <1>2, <1>3, RowIsSaved DEF HistoryTyped, RowsTyped
<1>5. /\ hstLoop' \in [at : LoopStates, idx : Nat \cup {None}, failed : BOOLEAN]
      /\ hstLoop'.at = "streaming" /\ hstLoop'.idx = hstLoop.idx /\ hstLoop'.failed = hstLoop.failed
  BY <1>2, <1>3 DEF LoopStates
<1>6. HistoryTyped'
  BY <1>1, <1>2, <1>3, <1>4, <1>5 DEF HistoryTyped, RowsTyped
<1>7. /\ DOMAIN hstStored' \cup ReservedBy(hstLoop', hstSaving')
           = DOMAIN hstStored \cup ReservedBy(hstLoop, hstSaving)
      /\ OpenStep(hstLoop) = 1 /\ OpenStep(hstLoop') = 1
  BY <1>2, <1>4, <1>5 DEF ReservedBy, OpenStep
<1>8. IndexesAreMessages'
  BY <1>1, <1>2, <1>4, <1>5, <1>7 DEF IndexesAreMessages
<1>9. EventsAreRows'
  BY <1>1, <1>2, <1>4 DEF EventsAreRows
<1> QED
  BY <1>1, <1>2, <1>5, <1>6, <1>8, <1>9 DEF HistoryIInv, NothingWaitsWhenIdle,
     RowsAreHistory, NothingForgotten

(* RetainFailed: what there was of an answer that failed stays.            *)
LEMMA RetainFailedHistory ==
  ASSUME HistoryIInv, History!RetainFailed PROVE HistoryIInv' /\ NothingForgotten
<1> DEFINE m == [id |-> hstMade, role |-> "assistant", tools |-> FALSE, covers |-> {}]
<1>1. HistoryTyped /\ NothingWaitsWhenIdle /\ EventsAreRows
  BY DEF HistoryIInv
<1>2. /\ hstLoop.at \in {"indexed", "streaming"}
      /\ History!Saved(hstLoop.idx, m) \/ UNCHANGED hstStored
      /\ hstMessages' = Append(hstMessages, m)
      /\ hstLoop' = [at |-> "returning", idx |-> hstLoop.idx, failed |-> TRUE]
      /\ UNCHANGED <<hstHistory, hstEvents, hstSaving, hstNextIdx, hstMade, hstReported>>
  BY <1>1, LoopIs DEF History!RetainFailed, History!Assistant, History!Message
<1>3. m \in HistoryMessage /\ hstLoop.idx \in Nat /\ m.role = "assistant"
  BY <1>1, <1>2 DEF HistoryTyped, HistoryMessage
<1> HIDE DEF m
<1>4. /\ RowsTyped' /\ DOMAIN hstStored \subseteq DOMAIN hstStored'
      /\ \A i \in DOMAIN hstStored : hstStored'[i].id = hstStored[i].id
  <2>1. CASE UNCHANGED hstStored
    BY <1>1, <2>1 DEF HistoryTyped, RowsTyped
  <2>2. CASE History!Saved(hstLoop.idx, m)
    BY <1>1, <1>3, <2>2, RowIsSaved DEF HistoryTyped, RowsTyped
  <2> QED
    BY <1>2, <2>1, <2>2
<1>5. /\ hstLoop' \in [at : LoopStates, idx : Nat \cup {None}, failed : BOOLEAN]
      /\ hstLoop'.at = "returning" /\ hstLoop'.failed = TRUE
  BY <1>2, <1>3 DEF LoopStates
<1>6. hstMessages' \in Seq(HistoryMessage)
        /\ History!InContext(hstMessages) \subseteq History!InContext(hstMessages')
  BY <1>1, <1>2, <1>3, AppendKeepsContext DEF HistoryTyped
<1>7. HistoryTyped'
  BY <1>1, <1>2, <1>4, <1>5, <1>6 DEF HistoryTyped, RowsTyped
<1>8. EventsAreRows'
  BY <1>1, <1>2, <1>4 DEF EventsAreRows
<1> QED
  BY <1>5, <1>6, <1>7, <1>8 DEF HistoryIInv, NothingWaitsWhenIdle,
     RowsAreHistory, IndexesAreMessages, NothingForgotten

(* FinishTurn: the answer joins the history, and its event the queue.      *)
LEMMA FinishTurnHistory ==
  ASSUME HistoryIInv, History!FinishTurn PROVE HistoryIInv' /\ NothingForgotten
<1>1. HistoryTyped /\ NothingWaitsWhenIdle /\ IndexesAreMessages /\ EventsAreRows
  BY DEF HistoryIInv
<1>2. PICK tools \in BOOLEAN :
        LET m == [id |-> hstMade, role |-> "assistant", tools |-> tools, covers |-> {}]
        IN /\ hstLoop.at = "streaming" /\ History!Saved(hstLoop.idx, m)
           /\ hstMessages' = Append(hstMessages, m) /\ hstEvents' = Append(hstEvents, m)
           /\ hstLoop' = [hstLoop EXCEPT !.at = IF tools THEN "turn" ELSE "returning"]
           /\ UNCHANGED <<hstHistory, hstSaving, hstNextIdx, hstMade, hstReported>>
  BY DEF History!FinishTurn, History!Assistant, History!Message
<1> DEFINE m == [id |-> hstMade, role |-> "assistant", tools |-> tools, covers |-> {}]
           now == IF tools THEN "turn" ELSE "returning"
<1>3. m \in HistoryMessage /\ hstLoop.idx \in Nat /\ m.role = "assistant"
        /\ hstLoop.failed \in BOOLEAN /\ now \in LoopStates \ {"idle", "indexed", "streaming"}
  BY <1>1, <1>2, LoopIs DEF HistoryTyped, HistoryMessage, LoopStates
<1>4. /\ hstLoop.at = "streaming" /\ History!Saved(hstLoop.idx, m)
      /\ hstMessages' = Append(hstMessages, m) /\ hstEvents' = Append(hstEvents, m)
      /\ hstLoop' = [at |-> now, idx |-> hstLoop.idx, failed |-> hstLoop.failed]
      /\ UNCHANGED <<hstHistory, hstSaving, hstNextIdx, hstMade, hstReported>>
  BY <1>1, <1>2, LoopIs
<1> HIDE DEF m, now
<1>5. /\ DOMAIN hstStored' = DOMAIN hstStored \cup {hstLoop.idx} /\ RowsTyped'
      /\ \A i \in DOMAIN hstStored : hstStored'[i].id = hstStored[i].id
      /\ hstStored'[hstLoop.idx] = m
  BY <1>1, <1>3, <1>4, RowIsSaved DEF HistoryTyped, RowsTyped
<1>6. /\ hstLoop' \in [at : LoopStates, idx : Nat \cup {None}, failed : BOOLEAN]
      /\ hstLoop'.at = now /\ hstLoop'.failed = hstLoop.failed
  BY <1>3, <1>4
<1>7. /\ hstMessages' \in Seq(HistoryMessage) /\ Len(hstMessages') = Len(hstMessages) + 1
      /\ Len(hstMessages) \in Nat
      /\ History!InContext(hstMessages) \subseteq History!InContext(hstMessages')
  BY <1>1, <1>3, <1>4, AppendKeepsContext DEF HistoryTyped
<1>8. /\ hstEvents' \in Seq(HistoryMessage) /\ WaitingMarkers(hstEvents) \in Nat
      /\ WaitingMarkers(hstEvents') = WaitingMarkers(hstEvents) + 0
  <2>1. hstEvents \in Seq(HistoryMessage)
    BY <1>1 DEF HistoryTyped
  <2> QED
    BY <1>3, <1>4, <2>1, MarkerIsAppended, MarkersAreFinite
<1>9. HistoryTyped'
  BY <1>1, <1>3, <1>4, <1>5, <1>6, <1>7, <1>8 DEF HistoryTyped, RowsTyped
<1>10. EventsAreRows'
  <2>1. /\ Len(hstEvents') = Len(hstEvents) + 1 /\ Len(hstEvents) \in Nat
        /\ hstEvents'[Len(hstEvents) + 1] = m
        /\ \A i \in 1..Len(hstEvents) : hstEvents'[i] = hstEvents[i]
    BY <1>1, <1>3, <1>4 DEF HistoryTyped
  <2> QED
    BY <1>1, <1>5, <2>1 DEF EventsAreRows
<1>11. IndexesAreMessages'
  <2>1. /\ ReservedBy(hstLoop', hstSaving') = ReservedBy(hstLoop, hstSaving)
        /\ OpenStep(hstLoop) = 1 /\ OpenStep(hstLoop') = 0
    BY <1>3, <1>4, <1>6 DEF ReservedBy, OpenStep
  <2>2. SUFFICES ASSUME ~hstReported, ~hstLoop.failed PROVE IndexesAreMessages'
    BY <1>4, <1>6 DEF IndexesAreMessages
  <2>3. /\ DOMAIN hstStored \cup ReservedBy(hstLoop, hstSaving) = 0..(hstNextIdx - 1)
        /\ hstLoop.idx \in DOMAIN hstStored
        /\ Len(hstMessages) + 1 = hstNextIdx + WaitingMarkers(hstEvents)
    BY <1>1, <1>4, <2>1, <2>2 DEF IndexesAreMessages
  <2>4. DOMAIN hstStored' \cup ReservedBy(hstLoop', hstSaving') = 0..(hstNextIdx' - 1)
    BY <1>4, <1>5, <2>1, <2>3
  <2>5. Len(hstMessages') + 0 = hstNextIdx' + WaitingMarkers(hstEvents')
    BY <1>4, <1>7, <1>8, <2>3
  <2> QED
    BY <1>3, <1>6, <2>1, <2>4, <2>5 DEF IndexesAreMessages
<1> QED
  BY <1>3, <1>6, <1>7, <1>9, <1>10, <1>11 DEF HistoryIInv, NothingWaitsWhenIdle,
     RowsAreHistory, NothingForgotten

(* Return: the run is over when nothing waits.                             *)
LEMMA ReturnHistory ==
  ASSUME HistoryIInv, History!Return PROVE HistoryIInv' /\ NothingForgotten
<1>1. HistoryTyped /\ IndexesAreMessages /\ EventsAreRows
  BY DEF HistoryIInv
<1>2. /\ hstLoop.at = "returning" /\ hstEvents = <<>> /\ hstSaving = None
      /\ hstHistory' = hstMessages /\ hstReported' = (hstReported \/ hstLoop.failed)
      /\ hstLoop' = [at |-> "idle", idx |-> None, failed |-> FALSE]
      /\ UNCHANGED <<hstMessages, hstEvents, hstSaving, hstStored, hstNextIdx, hstMade>>
  BY DEF History!Return, History!Idle
<1>3. hstLoop' \in [at : LoopStates, idx : Nat \cup {None}, failed : BOOLEAN] /\ hstLoop'.at = "idle"
  BY <1>2 DEF LoopStates
<1>4. HistoryTyped'
  <2>1. hstReported' \in BOOLEAN
    BY <1>1, <1>2, LoopIs DEF HistoryTyped
  <2> QED
    BY <1>1, <1>2, <1>3, <2>1 DEF HistoryTyped
<1>5. RowsAreHistory'
  <2>1. SUFFICES ASSUME ~hstReported, ~hstLoop.failed PROVE RowsAreHistory'
    BY <1>2 DEF RowsAreHistory
  <2>2. /\ DOMAIN hstStored = 0..(hstNextIdx - 1) /\ hstNextIdx \in Nat
        /\ Len(hstMessages) = hstNextIdx
    <3>1. ReservedBy(hstLoop, hstSaving) = {} /\ OpenStep(hstLoop) = 0
      BY <1>2 DEF ReservedBy, OpenStep
    <3>2. WaitingMarkers(hstEvents) = 0
      <4>1. MarkersIn(<<>>) = {}
        BY DEF MarkersIn
      <4> QED
        BY <1>2, <4>1, FS_EmptySet DEF WaitingMarkers, MarkersIn
    <3>3. hstNextIdx \in Nat /\ Len(hstMessages) \in Nat
      BY <1>1 DEF HistoryTyped
    <3> QED
      BY <1>1, <1>2, <2>1, <3>1, <3>2, <3>3 DEF IndexesAreMessages
  <2>3. Cardinality(0..(hstNextIdx - 1)) = hstNextIdx
    BY <2>2, FS_Interval
  <2> QED
    BY <1>2, <2>2, <2>3 DEF RowsAreHistory
<1> QED
  BY <1>1, <1>2, <1>3, <1>4, <1>5 DEF HistoryIInv, EventsAreRows, NothingWaitsWhenIdle,
     IndexesAreMessages, NothingForgotten

(* TakeEvent: the drain takes the oldest event, and a marker gets an       *)
(* index.                                                                  *)
LEMMA TakeEventHistory ==
  ASSUME HistoryAssumption, HistoryIInv, History!TakeEvent PROVE HistoryIInv' /\ NothingForgotten
<1> DEFINE m == Head(hstEvents)
           row == CHOOSE i \in DOMAIN hstStored : hstStored[i].id = m.id
<1>1. HistoryTyped /\ IndexesAreMessages /\ EventsAreRows /\ NothingWaitsWhenIdle
  BY DEF HistoryIInv
<1>2. /\ hstEvents # <<>> /\ hstSaving = None /\ hstEvents' = Tail(hstEvents)
      /\ IF m.role = "marker"
         THEN hstSaving' = [message |-> m, idx |-> hstNextIdx] /\ hstNextIdx' = hstNextIdx + 1
         ELSE hstSaving' = [message |-> m, idx |-> row] /\ hstNextIdx' = hstNextIdx
      /\ UNCHANGED <<hstHistory, hstMessages, hstLoop, hstStored, hstReported, hstMade>>
  BY DEF History!TakeEvent
<1> HIDE DEF row
<1>3. /\ m \in HistoryMessage /\ m = hstEvents[1] /\ 1 \in 1..Len(hstEvents) /\ Len(hstEvents) \in Nat
      /\ Tail(hstEvents) \in Seq(HistoryMessage) /\ Len(Tail(hstEvents)) = Len(hstEvents) - 1
      /\ \A i \in 1..Len(Tail(hstEvents)) : i + 1 \in 1..Len(hstEvents) /\ Tail(hstEvents)[i] = hstEvents[i + 1]
  BY <1>1, <1>2 DEF HistoryTyped
<1>4. hstNextIdx \in Nat /\ Len(hstMessages) \in Nat /\ DOMAIN hstStored \subseteq Nat
  <2>1. hstNextIdx \in Nat /\ Len(hstMessages) \in Nat
    BY <1>1 DEF HistoryTyped
  <2>2. PICK rows \in SUBSET Nat : hstStored \in [rows -> HistoryMessage]
    BY <1>1 DEF HistoryTyped
  <2> QED
    BY <2>1, <2>2
<1>5. m.role # "marker" => row \in DOMAIN hstStored
  <2>1. m.role # "marker" => \E i \in DOMAIN hstStored : hstStored[i].id = m.id
    BY <1>1, <1>3 DEF EventsAreRows
  <2> QED
    BY <2>1 DEF row
<1>6. WaitingMarkers(hstEvents)
        = WaitingMarkers(Tail(hstEvents)) + (IF m.role = "marker" THEN 1 ELSE 0)
      /\ WaitingMarkers(Tail(hstEvents)) \in Nat
  BY <1>1, <1>2, <1>3, MarkerIsTaken, MarkersAreFinite DEF HistoryTyped
<1> HIDE DEF m
<1>7. \E idx \in Nat : /\ hstSaving' = [message |-> m, idx |-> idx]
                       /\ idx = IF m.role = "marker" THEN hstNextIdx ELSE row
  BY <1>2, <1>4, <1>5
<1>8. PICK idx \in Nat : /\ hstSaving' = [message |-> m, idx |-> idx]
                         /\ idx = IF m.role = "marker" THEN hstNextIdx ELSE row
  BY <1>7
<1>9. hstSaving' \in [message : HistoryMessage, idx : Nat] /\ hstSaving'.idx = idx
  BY <1>3, <1>8
<1>10. hstSaving' # None
  BY <1>9 DEF HistoryAssumption, HistoryMessage
<1>11. HistoryTyped'
  BY <1>1, <1>2, <1>3, <1>4, <1>9 DEF HistoryTyped
<1>12. EventsAreRows'
  BY <1>1, <1>2, <1>3 DEF EventsAreRows
<1>13. IndexesAreMessages'
  <2>1. ReservedBy(hstLoop', hstSaving') = ReservedBy(hstLoop, hstSaving) \cup {idx}
    BY <1>2, <1>9, <1>10 DEF ReservedBy
  <2>2. SUFFICES ASSUME hstLoop.at # "idle", ~hstReported, ~hstLoop.failed PROVE IndexesAreMessages'
    BY <1>2 DEF IndexesAreMessages
  <2>3. /\ DOMAIN hstStored \cup ReservedBy(hstLoop, hstSaving) = 0..(hstNextIdx - 1)
        /\ hstLoop.at = "streaming" => hstLoop.idx \in DOMAIN hstStored
        /\ Len(hstMessages) + OpenStep(hstLoop) = hstNextIdx + WaitingMarkers(hstEvents)
    BY <1>1, <2>2 DEF IndexesAreMessages
  <2>4. DOMAIN hstStored' \cup ReservedBy(hstLoop', hstSaving') = 0..(hstNextIdx' - 1)
    <3>1. CASE m.role = "marker"
      <4>1. 0..((hstNextIdx + 1) - 1) = 0..(hstNextIdx - 1) \cup {hstNextIdx}
        BY <1>4
      <4> QED
        BY <1>2, <1>8, <2>1, <2>3, <3>1, <4>1
    <3>2. CASE m.role # "marker"
      <4>1. idx \in DOMAIN hstStored
        BY <1>5, <1>8, <3>2
      <4>2. hstNextIdx' = hstNextIdx /\ hstStored' = hstStored
        BY <1>2, <3>2
      <4> QED
        BY <2>1, <2>3, <4>1, <4>2
    <3> QED
      BY <3>1, <3>2
  <2>5. Len(hstMessages') + OpenStep(hstLoop') = hstNextIdx' + WaitingMarkers(hstEvents')
    <3>1. OpenStep(hstLoop) \in Nat
      BY DEF OpenStep
    <3> QED
      BY <1>2, <1>4, <1>6, <2>3, <3>1
  <2> QED
    BY <1>2, <2>3, <2>4, <2>5 DEF IndexesAreMessages
<1>14. hstLoop.at # "idle"
  BY <1>1, <1>2 DEF NothingWaitsWhenIdle
<1> QED
  BY <1>2, <1>11, <1>12, <1>13, <1>14 DEF HistoryIInv, NothingWaitsWhenIdle, RowsAreHistory,
     NothingForgotten

(* SaveEvent: it is saved under its index.                                 *)
LEMMA SaveEventHistory ==
  ASSUME HistoryIInv, History!SaveEvent PROVE HistoryIInv' /\ NothingForgotten
<1>1. HistoryTyped /\ IndexesAreMessages /\ EventsAreRows /\ NothingWaitsWhenIdle
  BY DEF HistoryIInv
<1>2. /\ hstSaving # None /\ hstSaving' = None
      /\ UNCHANGED <<hstHistory, hstMessages, hstEvents, hstNextIdx, hstReported, hstMade>>
      /\ \/ History!Saved(hstSaving.idx, hstSaving.message) /\ hstLoop' = hstLoop
         \/ hstLoop' = [at |-> hstLoop.at, idx |-> hstLoop.idx, failed |-> TRUE]
              /\ hstStored' = hstStored
  BY <1>1, LoopIs DEF History!SaveEvent
<1>3. hstSaving.idx \in Nat /\ hstSaving.message \in HistoryMessage
  BY <1>1, <1>2 DEF HistoryTyped
<1>4. hstLoop.at # "idle" /\ hstLoop.at \in LoopStates /\ hstLoop.idx \in Nat \cup {None}
  BY <1>1, <1>2, LoopIs DEF NothingWaitsWhenIdle
<1>5. CASE History!Saved(hstSaving.idx, hstSaving.message) /\ hstLoop' = hstLoop
  <2>1. /\ DOMAIN hstStored' = DOMAIN hstStored \cup {hstSaving.idx} /\ RowsTyped'
        /\ \A i \in DOMAIN hstStored : hstStored'[i].id = hstStored[i].id
    BY <1>1, <1>3, <1>5, RowIsSaved DEF HistoryTyped, RowsTyped
  <2>2. HistoryTyped'
    BY <1>1, <1>2, <1>5, <2>1 DEF HistoryTyped, RowsTyped
  <2>3. DOMAIN hstStored' \cup ReservedBy(hstLoop', hstSaving')
          = DOMAIN hstStored \cup ReservedBy(hstLoop, hstSaving)
    BY <1>2, <1>5, <2>1 DEF ReservedBy
  <2>4. IndexesAreMessages'
    BY <1>1, <1>2, <1>5, <2>1, <2>3 DEF IndexesAreMessages
  <2>5. EventsAreRows'
    BY <1>1, <1>2, <2>1 DEF EventsAreRows
  <2> QED
    BY <1>2, <1>4, <1>5, <2>2, <2>4, <2>5 DEF HistoryIInv, NothingWaitsWhenIdle, RowsAreHistory,
       NothingForgotten
<1>6. CASE hstLoop' = [at |-> hstLoop.at, idx |-> hstLoop.idx, failed |-> TRUE]
             /\ hstStored' = hstStored
  <2>1. /\ hstLoop' \in [at : LoopStates, idx : Nat \cup {None}, failed : BOOLEAN]
        /\ hstLoop'.at = hstLoop.at /\ hstLoop'.failed = TRUE /\ hstLoop'.idx = hstLoop.idx
    BY <1>4, <1>6
  <2>2. HistoryTyped'
    BY <1>1, <1>2, <1>6, <2>1 DEF HistoryTyped
  <2> QED
    BY <1>1, <1>2, <1>4, <1>6, <2>1, <2>2 DEF HistoryIInv, EventsAreRows, NothingWaitsWhenIdle,
       RowsAreHistory, IndexesAreMessages, NothingForgotten
<1> QED
  BY <1>2, <1>5, <1>6

(* NewSession: a later process has the rows only.                          *)
LEMMA NewSessionHistory ==
  ASSUME HistoryIInv, History!NewSession PROVE HistoryIInv' /\ NothingForgotten
<1>1. /\ hstLoop.at = "idle" /\ hstHistory' = <<>>
      /\ UNCHANGED <<hstMessages, hstLoop, hstEvents, hstSaving, hstStored, hstNextIdx,
                     hstReported, hstMade>>
  BY DEF History!NewSession
<1>2. HistoryTyped'
  BY <1>1 DEF HistoryIInv, HistoryTyped
<1> QED
  BY <1>1, <1>2 DEF HistoryIInv, EventsAreRows, NothingWaitsWhenIdle, RowsAreHistory,
     IndexesAreMessages, NothingForgotten

(* Crash: so has one that begins after a crash.                            *)
LEMMA CrashHistory ==
  ASSUME HistoryIInv, History!Crash PROVE HistoryIInv' /\ NothingForgotten
<1>1. /\ hstHistory' = <<>> /\ hstMessages' = <<>> /\ hstEvents' = <<>> /\ hstSaving' = None
      /\ hstLoop' = [at |-> "idle", idx |-> None, failed |-> FALSE] /\ hstReported' = TRUE
      /\ UNCHANGED <<hstStored, hstNextIdx, hstMade>>
  BY DEF History!Crash, History!Idle
<1>2. hstLoop' \in [at : LoopStates, idx : Nat \cup {None}, failed : BOOLEAN] /\ hstLoop'.at = "idle"
  BY <1>1 DEF LoopStates
<1>3. /\ hstHistory' \in Seq(HistoryMessage) /\ hstMessages' \in Seq(HistoryMessage)
      /\ hstEvents' \in Seq(HistoryMessage)
  BY <1>1
<1>4. HistoryTyped'
  BY <1>1, <1>2, <1>3 DEF HistoryIInv, HistoryTyped
<1> QED
  BY <1>1, <1>2, <1>4 DEF HistoryIInv, EventsAreRows, NothingWaitsWhenIdle, RowsAreHistory,
     IndexesAreMessages, NothingForgotten

(* Cancel: the history stays as it is.                                     *)
LEMMA CancelHistory ==
  ASSUME HistoryIInv, History!Cancel PROVE HistoryIInv' /\ NothingForgotten
BY DEF History!Cancel, HistoryIInv, HistoryTyped, EventsAreRows, NothingWaitsWhenIdle, RowsAreHistory,
     IndexesAreMessages, NothingForgotten

(* Every step of a session keeps the invariant and forgets nothing.        *)
LEMMA HistoryStep ==
  ASSUME HistoryAssumption, HistoryIInv, [History!Next]_hstVars
  PROVE  HistoryIInv' /\ NothingForgotten
<1>1. CASE UNCHANGED hstVars
  BY <1>1 DEF hstVars, HistoryIInv, HistoryTyped, EventsAreRows, NothingWaitsWhenIdle, RowsAreHistory,
     IndexesAreMessages, NothingForgotten
<1> QED
  BY <1>1, StartRunHistory, BeginTurnHistory, AssignIndexHistory, CheckpointHistory,
     RetainFailedHistory, FinishTurnHistory, ReturnHistory, TakeEventHistory, SaveEventHistory,
     CancelHistory, NewSessionHistory, CrashHistory DEF History!Next

-----------------------------------------------------------------------------
(* What the rows tell.  A row may be behind its message, and a message may *)
(* have no row yet; while all goes well the rows catch up, because there   *)
(* is one message of each id, the rows are in the order of the ids but for *)
(* markers, and what has no row waits for the drain.                       *)

(* The history that the next turn, or the next run, goes on from.          *)
Told == IF hstLoop.at = "idle" THEN hstHistory ELSE hstMessages

(* No run has failed so far.                                               *)
WellSoFar == ~hstReported /\ (hstLoop.at = "idle" \/ ~hstLoop.failed)

(* The row of the step that is not in the history yet.                     *)
OpenRow == IF hstLoop.at \in {"indexed", "streaming"} THEN {hstLoop.idx} ELSE {}

(* The messages there are, wherever they are, but for that row.            *)
Known ==
  {Told[i] : i \in 1..Len(Told)} \cup {hstEvents[i] : i \in 1..Len(hstEvents)}
    \cup (IF hstSaving = None THEN {} ELSE {hstSaving.message})
    \cup {hstStored[x] : x \in DOMAIN hstStored \ OpenRow}

(* One message has an id, and the last id is that of the open row.         *)
OneEach == \A p, q \in Known : p.id = q.id => p = q
IdsMade == \A p \in Known : p.id <= hstMade /\ (OpenRow # {} => p.id < hstMade)

(* Messages were made in the order they have, but for markers.             *)
ToldInOrder ==
  \A i, j \in 1..Len(Told) :
    i < j /\ Told[i].role # "marker" /\ Told[j].role # "marker" => Told[i].id < Told[j].id
RowsInOrder ==
  \A x, y \in DOMAIN hstStored :
    x < y /\ hstStored[x].role # "marker" /\ hstStored[y].role # "marker"
      => hstStored[x].id < hstStored[y].id

(* Only markers have been given an index since the open row got its own.   *)
OpenIsLast ==
  /\ hstLoop.at = "indexed" => hstLoop.idx \notin DOMAIN hstStored
  /\ hstLoop.at = "streaming" =>
       hstLoop.idx \in DOMAIN hstStored /\ hstStored[hstLoop.idx].id = hstMade
  /\ OpenRow # {} =>
       /\ \A x \in DOMAIN hstStored : x > hstLoop.idx => hstStored[x].role = "marker"
       /\ hstSaving # None => hstSaving.idx # hstLoop.idx

(* What the drain saves is saved already, unless it is a marker.           *)
SavingIsRow ==
  hstSaving # None =>
    /\ hstSaving.message.role # "marker" => hstSaving.idx \in DOMAIN hstStored
    /\ hstSaving.idx \in DOMAIN hstStored => hstStored[hstSaving.idx] = hstSaving.message

(* A message has its row, or is on its way to it.                          *)
Covered ==
  \A i \in 1..Len(Told) :
    \/ \E x \in DOMAIN hstStored \ OpenRow : hstStored[x] = Told[i]
    \/ \E e \in 1..Len(hstEvents) : hstEvents[e] = Told[i]
    \/ hstSaving # None /\ hstSaving.message = Told[i]

AllTold ==
  OneEach /\ IdsMade /\ ToldInOrder /\ RowsInOrder /\ OpenIsLast /\ SavingIsRow /\ Covered
RowsTold == WellSoFar => AllTold

(* A message with a new id leaves one message of each.                     *)
LEMMA OneMessageMore ==
  ASSUME NEW K, NEW L, NEW m \in HistoryMessage, L \subseteq K \cup {m},
         K \subseteq HistoryMessage,
         \A p, q \in K : p.id = q.id => p = q,
         \A p \in K : p.id < m.id
  PROVE  (\A p, q \in L : p.id = q.id => p = q) /\ (\A p \in L : p.id <= m.id)
<1>1. \A p \in HistoryMessage : p.id \in Nat
  BY DEF HistoryMessage
<1>2. \A p \in K : p.id # m.id /\ p.id <= m.id
  BY <1>1
<1>3. m.id <= m.id
  BY <1>1
<1> QED
  BY <1>2, <1>3

(* The values of what is known.                                            *)
LEMMA KnownTyped ==
  ASSUME HistoryTyped
  PROVE  /\ Known \subseteq HistoryMessage /\ DOMAIN hstStored \subseteq Nat
         /\ Told \in Seq(HistoryMessage) /\ Len(Told) \in Nat /\ Len(hstEvents) \in Nat
         /\ \A x \in DOMAIN hstStored : hstStored[x] \in HistoryMessage
         /\ OpenRow \subseteq Nat
         /\ \A p \in HistoryMessage : p.id \in Nat
<1>1. /\ hstHistory \in Seq(HistoryMessage) /\ hstMessages \in Seq(HistoryMessage)
      /\ hstEvents \in Seq(HistoryMessage)
      /\ hstSaving # None => hstSaving.message \in HistoryMessage
      /\ hstLoop.at \in {"indexed", "streaming"} => hstLoop.idx \in Nat
  BY DEF HistoryTyped
<1>2. PICK rows \in SUBSET Nat : hstStored \in [rows -> HistoryMessage]
  BY DEF HistoryTyped
<1>3. Told \in Seq(HistoryMessage)
  BY <1>1 DEF Told
<1>4. /\ DOMAIN hstStored \subseteq Nat
      /\ \A x \in DOMAIN hstStored : hstStored[x] \in HistoryMessage
  BY <1>2
<1>5. /\ \A i \in 1..Len(Told) : Told[i] \in HistoryMessage
      /\ \A i \in 1..Len(hstEvents) : hstEvents[i] \in HistoryMessage
      /\ Len(Told) \in Nat /\ Len(hstEvents) \in Nat
  BY <1>1, <1>3
<1>6. Known \subseteq HistoryMessage
  BY <1>1, <1>4, <1>5 DEF Known
<1>7. \A p \in HistoryMessage : p.id \in Nat
  BY DEF HistoryMessage
<1> QED
  BY <1>1, <1>3, <1>4, <1>5, <1>6, <1>7 DEF OpenRow

(* What is known, one by one.                                              *)
LEMMA KnownIs ==
  /\ \A i \in 1..Len(Told) : Told[i] \in Known
  /\ \A i \in 1..Len(hstEvents) : hstEvents[i] \in Known
  /\ hstSaving # None => hstSaving.message \in Known
  /\ \A x \in DOMAIN hstStored \ OpenRow : hstStored[x] \in Known
BY DEF Known

LEMMA ToldInit == History!Init => RowsTold
<1> SUFFICES ASSUME History!Init PROVE AllTold
  BY DEF RowsTold
<1>1. /\ hstLoop.at = "idle" /\ hstHistory = <<>> /\ hstEvents = <<>> /\ hstSaving = None
      /\ hstStored = <<>>
  BY DEF History!Init, History!Idle
<1>2. Told = <<>> /\ OpenRow = {} /\ DOMAIN hstStored = {} /\ Len(Told) = 0 /\ Len(hstEvents) = 0
  BY <1>1 DEF Told, OpenRow
<1>3. Known = {}
  BY <1>1, <1>2 DEF Known
<1> QED
  BY <1>1, <1>2, <1>3 DEF AllTold, OneEach, IdsMade, ToldInOrder, RowsInOrder, OpenIsLast,
     SavingIsRow, Covered

(* The rows are hydrated in the order of their indexes, from 0 on.         *)
LEMMA RowsAre ==
  ASSUME RowsTyped, DOMAIN hstStored = 0..(Cardinality(DOMAIN hstStored) - 1)
  PROVE  /\ Cardinality(DOMAIN hstStored) \in Nat
         /\ DOMAIN History!Rows = 1..Cardinality(DOMAIN hstStored)
         /\ \A i \in 1..Cardinality(DOMAIN hstStored) :
              History!Rows[i] = hstStored[i - 1] /\ i - 1 \in DOMAIN hstStored
<1> DEFINE D == DOMAIN hstStored
           n == Cardinality(D)
           row(i) == CHOOSE idx \in D : History!Cardinality({j \in D : j <= idx}) = i
<1>1. n \in Nat
  <2>1. PICK rows \in SUBSET Nat : IsFiniteSet(rows) /\ hstStored \in [rows -> HistoryMessage]
    BY DEF RowsTyped
  <2> QED
    BY <2>1, FS_CardinalityType
<1>2. D = 0..(n - 1)
  OBVIOUS
<1>3. History!Rows = [i \in 1..n |-> hstStored[row(i)]]
  <2>1. History!Rows = [i \in 1..History!Cardinality(D) |-> hstStored[row(i)]]
    BY DEF History!Rows
  <2>2. History!Cardinality(D) = n
    BY HistoryCardinality
  <2> HIDE DEF row, n, D
  <2> QED
    BY <2>1, <2>2
<1> HIDE DEF n, D
<1>4. ASSUME NEW x \in D PROVE Cardinality({j \in D : j <= x}) = x + 1
  <2> DEFINE upTo == {j \in D : j <= x}
  <2>1. x \in Nat /\ upTo = 0..x
    BY <1>1, <1>2
  <2>2. Cardinality(0..x) = IF 0 > x THEN 0 ELSE x - 0 + 1
    BY <2>1, FS_Interval
  <2> HIDE DEF upTo
  <2>3. Cardinality(upTo) = x + 1
    BY <2>1, <2>2
  <2> QED
    BY <2>3 DEF upTo
<1>5. ASSUME NEW i \in 1..n PROVE row(i) = i - 1 /\ i - 1 \in D
  <2>1. i - 1 \in D /\ (i - 1) + 1 = i
    BY <1>1, <1>2
  <2>2. \A x \in D : History!Cardinality({j \in D : j <= x}) = x + 1 /\ x \in Int
    BY <1>1, <1>2, <1>4, HistoryCardinality
  <2>3. \E x \in D : History!Cardinality({j \in D : j <= x}) = i
    BY <2>1, <2>2
  <2>4. row(i) \in D /\ History!Cardinality({j \in D : j <= row(i)}) = i
    BY <2>3
  <2>5. row(i) \in Int /\ row(i) + 1 = i
    <3> HIDE DEF row
    <3> QED
      BY <2>2, <2>4
  <2> HIDE DEF row
  <2> QED
    BY <2>1, <2>5
<1> HIDE DEF row
<1>6. DOMAIN History!Rows = 1..n /\ \A i \in 1..n : History!Rows[i] = hstStored[i - 1] /\ i - 1 \in D
  BY <1>3, <1>5
<1> QED
  BY <1>1, <1>6 DEF n, D

(* A save is of one row.                                                   *)
LEMMA OneRowIsSaved ==
  ASSUME RowsTyped, NEW idx \in Nat, NEW m \in HistoryMessage, History!Saved(idx, m)
  PROVE  /\ DOMAIN hstStored' = DOMAIN hstStored \cup {idx} /\ hstStored'[idx] = m
         /\ \A x \in DOMAIN hstStored : x # idx => hstStored'[x] = hstStored[x]
         /\ idx \in DOMAIN hstStored => hstStored[idx].id = m.id
BY DEF History!Saved

(* What a step leaves alone it tells as before.                            *)
LEMMA ToldStays ==
  ASSUME RowsTold,
         UNCHANGED <<hstHistory, hstMessages, hstLoop, hstEvents, hstSaving, hstStored, hstMade,
                     hstReported>>
  PROVE  RowsTold'
<1>1. Told' = Told /\ OpenRow' = OpenRow
  BY DEF Told, OpenRow
<1>2. Known' = Known
  BY <1>1 DEF Known
<1> QED
  BY <1>1, <1>2 DEF RowsTold, WellSoFar, AllTold, OneEach, IdsMade, ToldInOrder, RowsInOrder,
     OpenIsLast, SavingIsRow, Covered

(* After a failure nothing is told.                                        *)
LEMMA FailedTellsNothing == ~WellSoFar' => RowsTold'
BY DEF RowsTold

(* What is known is what each of the places knows.                         *)
LEMMA KnownWithin ==
  ASSUME NEW K,
         \A i \in 1..Len(Told') : Told'[i] \in K,
         \A i \in 1..Len(hstEvents') : hstEvents'[i] \in K,
         hstSaving' # None => hstSaving'.message \in K,
         \A x \in DOMAIN hstStored' \ OpenRow' : hstStored'[x] \in K
  PROVE  Known' \subseteq K
BY DEF Known

LEMMA StartRunTold ==
  ASSUME HistoryIInv, HistoryIInv', RowsTold, History!StartRun PROVE RowsTold'
<1> SUFFICES ASSUME WellSoFar' PROVE AllTold'
  BY DEF RowsTold
<1> DEFINE m == [id |-> hstMade + 1, role |-> "user", tools |-> FALSE, covers |-> {}]
           h == History!Hydrated
           n == Cardinality(DOMAIN hstStored)
<1>1. /\ HistoryTyped /\ NothingWaitsWhenIdle /\ RowsAreHistory /\ RowsTyped /\ HistoryTyped'
  BY DEF HistoryIInv, HistoryTyped, RowsTyped
<1>2. /\ hstLoop.at = "idle" /\ hstMade' = hstMade + 1 /\ UNCHANGED <<hstEvents, hstSaving>>
      /\ ~hstReported /\ History!Saved(Len(h), m) /\ hstMessages' = Append(h, m)
      /\ hstLoop'.at = "turn"
  BY DEF History!StartRun, History!Message, History!Idle, WellSoFar
<1>3. m \in HistoryMessage /\ m.id = hstMade + 1 /\ m.role = "user" /\ hstMade \in Nat
  BY <1>1 DEF HistoryTyped, HistoryMessage
<1>4. /\ hstEvents = <<>> /\ hstSaving = None /\ DOMAIN hstStored = 0..(n - 1)
      /\ hstHistory # <<>> => Len(hstHistory) = n
      /\ Told = hstHistory /\ OpenRow = {} /\ AllTold /\ n \in Nat
  BY <1>1, <1>2, FS_CardinalityType DEF NothingWaitsWhenIdle, RowsAreHistory, Told, OpenRow,
     RowsTold, WellSoFar, RowsTyped
<1> HIDE DEF m
<1>5. /\ h \in Seq(HistoryMessage) /\ Len(h) = n
      /\ \A i \in 1..n : h[i] \in Known /\ \E x \in DOMAIN hstStored : hstStored[x] = h[i]
      /\ \A i, j \in 1..n : i < j /\ h[i].role # "marker" /\ h[j].role # "marker" => h[i].id < h[j].id
  <2>1. CASE hstHistory # <<>>
    <3>1. h = hstHistory
      BY <2>1 DEF History!Hydrated
    <3>2. Len(hstEvents) = 0
      BY <1>4
    <3> HIDE DEF h, n
    <3> QED
      BY <1>1, <1>4, <2>1, <3>1, <3>2, KnownIs DEF AllTold, Covered, ToldInOrder, HistoryTyped
  <2>2. CASE hstHistory = <<>>
    <3>1. h = History!Rows
      BY <2>2 DEF History!Hydrated
    <3>2. /\ DOMAIN h = 1..n
          /\ \A i \in 1..n : h[i] = hstStored[i - 1] /\ i - 1 \in DOMAIN hstStored
      BY <1>1, <1>4, <3>1, RowsAre
    <3>3. \E R : h = [i \in 1..n |-> R[i]]
      <4>1. \E k, R : History!Rows = [i \in 1..k |-> R[i]]
        <5> DEFINE R == [i \in 1..History!Cardinality(DOMAIN hstStored) |->
                           hstStored[CHOOSE idx \in DOMAIN hstStored :
                             History!Cardinality({j \in DOMAIN hstStored : j <= idx}) = i]]
        <5>1. History!Rows = R
          BY DEF History!Rows
        <5>2. R = [i \in 1..History!Cardinality(DOMAIN hstStored) |-> R[i]]
          OBVIOUS
        <5> HIDE DEF R
        <5> QED
          BY <5>1, <5>2
      <4>2. PICK k, R : h = [i \in 1..k |-> R[i]]
        BY <3>1, <4>1
      <4>3. DOMAIN h = 1..k
        BY <4>2
      <4> HIDE DEF h, n
      <4>4. h = [i \in 1..n |-> R[i]]
        BY <3>2, <4>2, <4>3
      <4> QED
        BY <4>4
    <3>4. \A x \in DOMAIN hstStored : hstStored[x] \in HistoryMessage /\ hstStored[x] \in Known
      BY <1>1, <1>4, KnownTyped, KnownIs
    <3>5. h \in [1..n -> HistoryMessage]
      <4> HIDE DEF h, n
      <4> QED
        BY <3>2, <3>3, <3>4
    <3>6. h \in Seq(HistoryMessage) /\ Len(h) = n
      <4> HIDE DEF h, n
      <4> QED
        BY <1>4, <3>5
    <3>7. \A i, j \in 1..n : i < j => i - 1 < j - 1
      <4> HIDE DEF n
      <4> QED
        BY <1>4
    <3>8. RowsInOrder
      BY <1>4 DEF AllTold
    <3> HIDE DEF h, n
    <3> QED
      BY <3>2, <3>4, <3>6, <3>7, <3>8 DEF RowsInOrder
  <2> QED
    BY <2>1, <2>2
<1> HIDE DEF h, n
<1>6. /\ DOMAIN hstStored' = DOMAIN hstStored \cup {n} /\ hstStored'[n] = m
      /\ \A x \in DOMAIN hstStored : x \in Nat /\ x < n /\ hstStored'[x] = hstStored[x]
  <2>1. /\ DOMAIN hstStored' = DOMAIN hstStored \cup {n} /\ hstStored'[n] = m
        /\ \A x \in DOMAIN hstStored : x # n => hstStored'[x] = hstStored[x]
    BY <1>1, <1>2, <1>3, <1>4, <1>5, OneRowIsSaved
  <2>2. \A x \in DOMAIN hstStored : x \in Nat /\ x < n /\ x # n
    BY <1>4
  <2> QED
    BY <2>1, <2>2
<1>7. /\ Told' = Append(h, m) /\ OpenRow' = {} /\ Len(Append(h, m)) = n + 1
      /\ Append(h, m)[n + 1] = m
      /\ \A i \in 1..n : Append(h, m)[i] = h[i]
  BY <1>2, <1>3, <1>4, <1>5 DEF Told, OpenRow
<1>8. \A i \in 1..(n + 1) : i \in 1..n \/ i = n + 1
  BY <1>4
<1>9. Known' \subseteq Known \cup {m}
  <2>1. \A i \in 1..Len(Told') : Told'[i] \in Known \cup {m}
    BY <1>5, <1>7, <1>8
  <2>2. \A x \in DOMAIN hstStored' : hstStored'[x] \in Known \cup {m}
    BY <1>4, <1>6, KnownIs
  <2>3. hstSaving' = None /\ Len(hstEvents') = 0
    BY <1>2, <1>4
  <2> QED
    <3>1. \A e \in 1..Len(hstEvents') : hstEvents'[e] \in Known \cup {m}
      BY <2>3
    <3> QED
      BY <2>1, <2>2, <2>3, <3>1, KnownWithin
<1>10. Known \subseteq HistoryMessage /\ \A p \in Known : p.id \in Nat /\ p.id < m.id
  <2>1. Known \subseteq HistoryMessage /\ \A p \in Known : p.id \in Nat /\ p.id <= hstMade
    BY <1>1, <1>4, KnownTyped DEF AllTold, IdsMade
  <2> QED
    BY <1>3, <2>1
<1>11. OneEach' /\ IdsMade'
  <2>1. \A p, q \in Known : p.id = q.id => p = q
    BY <1>4 DEF AllTold, OneEach
  <2>2. (\A p, q \in Known' : p.id = q.id => p = q) /\ (\A p \in Known' : p.id <= m.id)
    BY <1>3, <1>9, <1>10, <2>1, OneMessageMore
  <2> QED
    BY <1>2, <1>3, <1>7, <2>2 DEF OneEach, IdsMade
<1>12. ToldInOrder'
  <2> SUFFICES ASSUME NEW i \in 1..(n + 1), NEW j \in 1..(n + 1), i < j,
                      Told'[i].role # "marker", Told'[j].role # "marker"
               PROVE  Told'[i].id < Told'[j].id
    BY <1>7 DEF ToldInOrder
  <2>1. i \in 1..n
    BY <1>4
  <2>2. CASE j \in 1..n
    BY <1>5, <1>7, <2>1, <2>2
  <2>3. CASE j = n + 1
    BY <1>5, <1>7, <1>10, <2>1, <2>3
  <2> QED
    BY <1>8, <2>2, <2>3
<1>13. RowsInOrder'
  <2>1. \A x \in DOMAIN hstStored : hstStored[x].id < m.id
    BY <1>4, <1>10, KnownIs
  <2>2. \A y \in DOMAIN hstStored : ~(n < y)
    BY <1>4, <1>6
  <2>3. ~(n < n)
    BY <1>4
  <2> QED
    BY <1>4, <1>6, <2>1, <2>2, <2>3 DEF RowsInOrder, AllTold
<1>14. OpenIsLast' /\ SavingIsRow'
  BY <1>2, <1>4, <1>7 DEF OpenIsLast, SavingIsRow
<1>15. Covered'
  <2> SUFFICES ASSUME NEW i \in 1..(n + 1)
               PROVE  \E x \in DOMAIN hstStored' \ OpenRow' : hstStored'[x] = Told'[i]
    BY <1>7 DEF Covered
  <2> QED
    BY <1>5, <1>6, <1>7, <1>8
<1> QED
  BY <1>11, <1>12, <1>13, <1>14, <1>15 DEF AllTold

(* A marker is in the history before it has a row.                         *)
LEMMA BeginTurnTold ==
  ASSUME HistoryAssumption, HistoryIInv, HistoryIInv', RowsTold, History!BeginTurn PROVE RowsTold'
<1> SUFFICES ASSUME WellSoFar' PROVE AllTold'
  BY DEF RowsTold
<1> DEFINE compaction == History!Compaction(hstMessages, hstMade + 1)
<1>1. HistoryTyped /\ HistoryTyped'
  BY DEF HistoryIInv
<1>2. /\ hstLoop.at = "turn" /\ hstLoop'.at = "checkpoint" /\ ~hstLoop.failed /\ ~hstReported
      /\ UNCHANGED <<hstHistory, hstSaving, hstStored, hstReported>>
      /\ \/ UNCHANGED <<hstMessages, hstEvents, hstMade>>
         \/ /\ compaction # <<>>
            /\ hstMessages' = History!InsertAt(hstMessages, compaction[1].at, compaction[1].marker)
            /\ hstEvents' = Append(hstEvents, compaction[1].marker)
            /\ hstMade' = hstMade + 1
  BY <1>1, LoopIs DEF History!BeginTurn, WellSoFar
<1> HIDE DEF compaction
<1>3. AllTold /\ Told = hstMessages /\ Told' = hstMessages' /\ OpenRow = {} /\ OpenRow' = {}
  BY <1>2 DEF RowsTold, WellSoFar, Told, OpenRow
<1>4. CASE UNCHANGED <<hstMessages, hstEvents, hstMade>>
  <2>1. Known' = Known
    BY <1>2, <1>3, <1>4 DEF Known
  <2> QED
    BY <1>2, <1>3, <1>4, <2>1 DEF AllTold, OneEach, IdsMade, ToldInOrder, RowsInOrder, OpenIsLast,
       SavingIsRow, Covered
<1>5. CASE /\ compaction # <<>>
           /\ hstMessages' = History!InsertAt(hstMessages, compaction[1].at, compaction[1].marker)
           /\ hstEvents' = Append(hstEvents, compaction[1].marker)
           /\ hstMade' = hstMade + 1
  <2>1. /\ hstMessages \in Seq(HistoryMessage) /\ hstEvents \in Seq(HistoryMessage)
        /\ hstMade \in Nat /\ hstMade + 1 \in Nat /\ Len(hstMessages) \in Nat
        /\ Len(hstEvents) \in Nat
    BY <1>1 DEF HistoryTyped
  <2>2. PICK at \in (Latest(hstMessages) + 1)..(Len(hstMessages) + 1), m \in HistoryMessage :
          /\ compaction = <<[at |-> at, marker |-> m]>>
          /\ m.role = "marker" /\ m.id = hstMade + 1
          /\ \A i \in 1..(at - 1) :
               IF hstMessages[i].role = "marker" THEN hstMessages[i].covers \subseteq m.covers
               ELSE i > Latest(hstMessages) => hstMessages[i].id \in m.covers
    <3> DEFINE id == hstMade + 1
    <3>1. compaction = History!Compaction(hstMessages, id) /\ id \in Nat
      BY <2>1 DEF compaction
    <3> HIDE DEF id
    <3>2. \E at \in (Latest(hstMessages) + 1)..(Len(hstMessages) + 1), m \in HistoryMessage :
            /\ History!Compaction(hstMessages, id) = <<[at |-> at, marker |-> m]>>
            /\ m.role = "marker" /\ m.id = id
            /\ \A i \in 1..(at - 1) :
                 IF hstMessages[i].role = "marker" THEN hstMessages[i].covers \subseteq m.covers
                 ELSE i > Latest(hstMessages) => hstMessages[i].id \in m.covers
      BY <1>5, <2>1, <3>1, CompactionIs
    <3> QED
      BY <3>1, <3>2 DEF id
  <2>3. /\ hstMessages' = History!InsertAt(hstMessages, at, m)
        /\ hstEvents' = Append(hstEvents, m)
    BY <1>5, <2>2
  <2>4. /\ Len(hstMessages') = Len(hstMessages) + 1
        /\ \A i \in 1..(at - 1) : hstMessages'[i] = hstMessages[i]
        /\ hstMessages'[at] = m
        /\ \A i \in at..Len(hstMessages) : hstMessages'[i + 1] = hstMessages[i]
    <3> DEFINE new == History!InsertAt(hstMessages, at, m)
    <3>1. /\ Len(new) = Len(hstMessages) + 1
          /\ \A i \in 1..(at - 1) : new[i] = hstMessages[i]
          /\ new[at] = m
          /\ \A i \in at..Len(hstMessages) : new[i + 1] = hstMessages[i]
      <4>1. at \in 1..(Len(hstMessages) + 1)
        BY <2>1, <2>2, LatestMarker DEF Latest
      <4> QED
        BY <2>1, <4>1, MarkerIsInserted
    <3> HIDE DEF new
    <3> QED
      BY <2>3, <3>1 DEF new
  <2>5. /\ Len(hstEvents') = Len(hstEvents) + 1 /\ hstEvents'[Len(hstEvents) + 1] = m
        /\ \A i \in 1..Len(hstEvents) : hstEvents'[i] = hstEvents[i]
    BY <2>1, <2>2, <2>3
  <2>6. at \in 1..(Len(hstMessages) + 1)
    <3>1. Latest(hstMessages) \in 0..Len(hstMessages)
      BY <2>1, LatestMarker DEF Latest
    <3> QED
      BY <2>1, <2>2, <3>1
  <2>7. ASSUME NEW i \in 1..Len(hstMessages')
        PROVE  \/ i < at /\ i \in 1..Len(hstMessages) /\ hstMessages'[i] = hstMessages[i]
               \/ i = at
               \/ i > at /\ i - 1 \in 1..Len(hstMessages) /\ hstMessages'[i] = hstMessages[i - 1]
    <3>1. i > at => i - 1 \in at..Len(hstMessages) /\ (i - 1) + 1 = i
      BY <2>1, <2>4, <2>6
    <3>2. i < at => i \in 1..(at - 1) /\ i \in 1..Len(hstMessages)
      BY <2>1, <2>4, <2>6
    <3>3. i < at \/ i = at \/ i > at
      BY <2>6
    <3>4. \A k \in at..Len(hstMessages) : k \in 1..Len(hstMessages)
      BY <2>1, <2>6
    <3> QED
      BY <2>4, <3>1, <3>2, <3>3, <3>4
  <2>8. Known' \subseteq Known \cup {m}
    <3>1. \A i \in 1..Len(Told') : Told'[i] \in Known \cup {m}
      BY <1>3, <2>4, <2>7, KnownIs
    <3>2. \A e \in 1..Len(hstEvents') : hstEvents'[e] \in Known \cup {m}
      <4>1. \A e \in 1..(Len(hstEvents) + 1) : e \in 1..Len(hstEvents) \/ e = Len(hstEvents) + 1
        BY <2>1
      <4> QED
        BY <2>5, <4>1, KnownIs
    <3> QED
      BY <1>2, <1>3, <3>1, <3>2, KnownIs, KnownWithin
  <2>9. Known \subseteq HistoryMessage /\ \A p \in Known : p.id \in Nat /\ p.id < m.id
    <3>1. Known \subseteq HistoryMessage /\ \A p \in Known : p.id \in Nat /\ p.id <= hstMade
      BY <1>1, <1>3, KnownTyped DEF AllTold, IdsMade
    <3> QED
      BY <2>1, <2>2, <3>1
  <2>10. OneEach' /\ IdsMade'
    <3>1. \A p, q \in Known : p.id = q.id => p = q
      BY <1>3 DEF AllTold, OneEach
    <3>2. (\A p, q \in Known' : p.id = q.id => p = q) /\ (\A p \in Known' : p.id <= m.id)
      BY <2>2, <2>8, <2>9, <3>1, OneMessageMore
    <3> QED
      BY <1>3, <1>5, <2>2, <3>2 DEF OneEach, IdsMade
  <2>11. ToldInOrder'
    <3> SUFFICES ASSUME NEW i \in 1..Len(hstMessages'), NEW j \in 1..Len(hstMessages'), i < j,
                        hstMessages'[i].role # "marker", hstMessages'[j].role # "marker"
                 PROVE  hstMessages'[i].id < hstMessages'[j].id
      BY <1>3 DEF ToldInOrder
    <3>1. i # at /\ j # at
      BY <2>2, <2>4
    <3>2. \A k, l \in 1..Len(hstMessages) :
            k < l /\ hstMessages[k].role # "marker" /\ hstMessages[l].role # "marker"
              => hstMessages[k].id < hstMessages[l].id
      BY <1>3 DEF AllTold, ToldInOrder
    <3>3. CASE j < at
      <4>1. i < at
        BY <2>6, <3>3
      <4> QED
        BY <2>6, <2>7, <3>1, <3>2, <3>3, <4>1
    <3>4. CASE i < at /\ j > at
      <4>1. i < j - 1
        BY <2>6, <3>4
      <4>2. ~(i > at) /\ ~(j < at)
        BY <2>6, <3>4
      <4> QED
        BY <2>7, <3>1, <3>2, <4>1, <4>2
    <3>5. CASE i > at
      <4>1. i - 1 < j - 1 /\ ~(i < at) /\ ~(j < at)
        BY <2>6, <3>5
      <4> QED
        BY <2>7, <3>1, <3>2, <4>1
    <3>6. j < at \/ (i < at /\ j > at) \/ i > at
      BY <2>6, <3>1
    <3> QED
      BY <3>3, <3>4, <3>5, <3>6
  <2>12. RowsInOrder' /\ OpenIsLast' /\ SavingIsRow'
    BY <1>2, <1>3 DEF AllTold, RowsInOrder, OpenIsLast, SavingIsRow
  <2>13. Covered'
    <3> SUFFICES ASSUME NEW i \in 1..Len(hstMessages')
                 PROVE  \/ \E x \in DOMAIN hstStored : hstStored[x] = hstMessages'[i]
                        \/ \E e \in 1..Len(hstEvents') : hstEvents'[e] = hstMessages'[i]
                        \/ hstSaving # None /\ hstSaving.message = hstMessages'[i]
      BY <1>2, <1>3 DEF Covered
    <3>1. /\ Len(hstEvents) + 1 \in 1..Len(hstEvents')
          /\ \A e \in 1..Len(hstEvents) : e \in 1..Len(hstEvents')
      BY <2>1, <2>5
    <3>2. \A k \in 1..Len(hstMessages) :
            \/ \E x \in DOMAIN hstStored : hstStored[x] = hstMessages[k]
            \/ \E e \in 1..Len(hstEvents) : hstEvents[e] = hstMessages[k]
            \/ hstSaving # None /\ hstSaving.message = hstMessages[k]
      BY <1>3 DEF AllTold, Covered
    <3>3. i = at \/ \E k \in 1..Len(hstMessages) : hstMessages'[i] = hstMessages[k]
      BY <2>7
    <3> QED
      BY <2>4, <2>5, <3>1, <3>2, <3>3
  <2> QED
    BY <2>10, <2>11, <2>12, <2>13 DEF AllTold
<1> QED
  BY <1>2, <1>4, <1>5

(* The index of the open row comes after all that have been given out.     *)
LEMMA AssignIndexTold ==
  ASSUME HistoryIInv, HistoryIInv', RowsTold, History!AssignIndex PROVE RowsTold'
<1> SUFFICES ASSUME WellSoFar' PROVE AllTold'
  BY DEF RowsTold
<1>1. HistoryTyped /\ HistoryTyped' /\ IndexesAreMessages
  BY DEF HistoryIInv
<1>2. /\ hstLoop.at = "checkpoint"
      /\ hstLoop' = [at |-> "indexed", idx |-> hstNextIdx, failed |-> hstLoop.failed]
      /\ hstMade' = hstMade + 1
      /\ UNCHANGED <<hstHistory, hstMessages, hstEvents, hstSaving, hstStored, hstReported>>
  BY <1>1, LoopIs DEF History!AssignIndex
<1>3. hstNextIdx \in Nat /\ hstMade \in Nat
  BY <1>1 DEF HistoryTyped
<1>4. AllTold /\ Told' = Told /\ OpenRow = {} /\ OpenRow' = {hstNextIdx} /\ ~hstReported /\ ~hstLoop.failed
  BY <1>2 DEF RowsTold, WellSoFar, Told, OpenRow
<1>5. /\ DOMAIN hstStored \subseteq 0..(hstNextIdx - 1)
      /\ hstSaving # None => hstSaving.idx \in 0..(hstNextIdx - 1)
  <2>1. DOMAIN hstStored \cup ReservedBy(hstLoop, hstSaving) = 0..(hstNextIdx - 1)
    BY <1>1, <1>2, <1>4 DEF IndexesAreMessages
  <2> QED
    BY <1>2, <2>1 DEF ReservedBy
<1>6. /\ hstNextIdx \notin DOMAIN hstStored
      /\ \A x \in DOMAIN hstStored : ~(x > hstNextIdx)
      /\ hstSaving # None => hstSaving.idx # hstNextIdx
  BY <1>3, <1>5
<1>7. Known' = Known
  BY <1>2, <1>4, <1>6 DEF Known
<1>8. IdsMade'
  <2>1. \A p \in Known : p.id \in Nat /\ p.id <= hstMade
    BY <1>1, <1>4, KnownTyped DEF AllTold, IdsMade
  <2>2. \A p \in Known : p.id <= hstMade + 1 /\ p.id < hstMade + 1
    BY <1>3, <2>1
  <2> QED
    BY <1>2, <1>7, <2>2 DEF IdsMade
<1>9. OpenIsLast'
  BY <1>2, <1>6 DEF OpenIsLast
<1>10. OneEach' /\ ToldInOrder' /\ RowsInOrder' /\ SavingIsRow'
  BY <1>2, <1>4, <1>7 DEF AllTold, OneEach, ToldInOrder, RowsInOrder, SavingIsRow
<1>11. Covered'
  <2>1. DOMAIN hstStored \ OpenRow = DOMAIN hstStored' \ OpenRow'
    BY <1>2, <1>4, <1>6
  <2> QED
    BY <1>2, <1>4, <2>1 DEF AllTold, Covered
<1> QED
  BY <1>8, <1>9, <1>10, <1>11 DEF AllTold

(* The open row is saved over, and once more when it joins the history.    *)
LEMMA OpenRowIsSaved ==
  ASSUME HistoryTyped, NEW m \in HistoryMessage, m.id = hstMade, m.role = "assistant",
         AllTold, OpenRow # {}, History!Saved(hstLoop.idx, m)
  PROVE  /\ hstLoop.idx \in Nat /\ OpenRow = {hstLoop.idx}
         /\ DOMAIN hstStored' = DOMAIN hstStored \cup {hstLoop.idx} /\ hstStored'[hstLoop.idx] = m
         /\ \A x \in DOMAIN hstStored \ OpenRow :
              /\ x \in DOMAIN hstStored' /\ hstStored'[x] = hstStored[x]
              /\ hstStored[x] \in Known /\ hstStored[x].id < m.id
              /\ x > hstLoop.idx => hstStored[x].role = "marker"
         /\ DOMAIN hstStored' \ {hstLoop.idx} = DOMAIN hstStored \ OpenRow
         /\ RowsInOrder'
         /\ \A x \in DOMAIN hstStored' : x > hstLoop.idx => hstStored'[x].role = "marker"
<1>1. hstLoop.idx \in Nat /\ OpenRow = {hstLoop.idx} /\ RowsTyped /\ DOMAIN hstStored \subseteq Nat
  <2>1. hstLoop.idx \in Nat /\ OpenRow = {hstLoop.idx} /\ RowsTyped
    BY DEF HistoryTyped, OpenRow, RowsTyped
  <2> QED
    BY <2>1, KnownTyped
<1>2. /\ DOMAIN hstStored' = DOMAIN hstStored \cup {hstLoop.idx} /\ hstStored'[hstLoop.idx] = m
      /\ \A x \in DOMAIN hstStored : x # hstLoop.idx => hstStored'[x] = hstStored[x]
  BY <1>1, OneRowIsSaved
<1>3. /\ \A p \in Known : p.id < hstMade
      /\ \A x \in DOMAIN hstStored : x > hstLoop.idx => hstStored[x].role = "marker"
      /\ RowsInOrder
  BY DEF AllTold, IdsMade, OpenIsLast
<1>4. \A x \in DOMAIN hstStored \ OpenRow :
        /\ x \in DOMAIN hstStored' /\ hstStored'[x] = hstStored[x] /\ x # hstLoop.idx
        /\ hstStored[x] \in Known /\ hstStored[x].id < m.id
  BY <1>1, <1>2, <1>3, KnownIs
<1>5. ~(hstLoop.idx > hstLoop.idx) /\ ~(hstLoop.idx < hstLoop.idx)
  BY <1>1
<1>6. \A x \in DOMAIN hstStored : hstLoop.idx < x <=> x > hstLoop.idx
  BY <1>1
<1>7. \A x \in DOMAIN hstStored' : x = hstLoop.idx \/ x \in DOMAIN hstStored \ OpenRow
  BY <1>1, <1>2
<1>8. \A x \in DOMAIN hstStored' : x > hstLoop.idx => hstStored'[x].role = "marker"
  BY <1>3, <1>4, <1>5, <1>7
<1>9. RowsInOrder'
  <2> SUFFICES ASSUME NEW x \in DOMAIN hstStored', NEW y \in DOMAIN hstStored', x < y,
                      hstStored'[x].role # "marker", hstStored'[y].role # "marker"
               PROVE  hstStored'[x].id < hstStored'[y].id
    BY DEF RowsInOrder
  <2>1. CASE x = hstLoop.idx
    <3>1. y > hstLoop.idx
      BY <1>1, <1>2, <2>1
    <3> QED
      BY <1>8, <3>1
  <2>2. CASE x # hstLoop.idx /\ y = hstLoop.idx
    BY <1>2, <1>4, <1>7, <2>2
  <2>3. CASE x # hstLoop.idx /\ y # hstLoop.idx
    <3>1. x \in DOMAIN hstStored \ OpenRow /\ y \in DOMAIN hstStored \ OpenRow
      BY <1>7, <2>3
    <3> QED
      BY <1>3, <1>4, <3>1 DEF RowsInOrder
  <2> QED
    BY <2>1, <2>2, <2>3
<1> QED
  BY <1>1, <1>2, <1>3, <1>4, <1>8, <1>9

LEMMA CheckpointTold ==
  ASSUME HistoryIInv, HistoryIInv', RowsTold, History!Checkpoint PROVE RowsTold'
<1> SUFFICES ASSUME WellSoFar' PROVE AllTold'
  BY DEF RowsTold
<1> DEFINE m == [id |-> hstMade, role |-> "assistant", tools |-> FALSE, covers |-> {}]
<1>1. HistoryTyped
  BY DEF HistoryIInv
<1>2. /\ hstLoop.at = "indexed" /\ History!Saved(hstLoop.idx, m)
      /\ hstLoop' = [at |-> "streaming", idx |-> hstLoop.idx, failed |-> hstLoop.failed]
      /\ UNCHANGED <<hstHistory, hstMessages, hstEvents, hstSaving, hstMade, hstReported>>
  BY <1>1, LoopIs DEF History!Checkpoint, History!Assistant, History!Message
<1>3. m \in HistoryMessage /\ m.id = hstMade /\ m.role = "assistant"
  BY <1>1 DEF HistoryTyped, HistoryMessage
<1> HIDE DEF m
<1>4. AllTold /\ Told' = Told /\ OpenRow # {} /\ OpenRow' = OpenRow
  BY <1>2 DEF RowsTold, WellSoFar, Told, OpenRow
<1>5. /\ OpenRow = {hstLoop.idx}
      /\ DOMAIN hstStored' = DOMAIN hstStored \cup {hstLoop.idx} /\ hstStored'[hstLoop.idx] = m
      /\ \A x \in DOMAIN hstStored \ OpenRow : hstStored'[x] = hstStored[x]
      /\ DOMAIN hstStored' \ OpenRow' = DOMAIN hstStored \ OpenRow
      /\ RowsInOrder'
      /\ \A x \in DOMAIN hstStored' : x > hstLoop.idx => hstStored'[x].role = "marker"
  BY <1>1, <1>2, <1>3, <1>4, OpenRowIsSaved
<1>6. Known' = Known
  <2>1. {hstStored'[x] : x \in DOMAIN hstStored' \ OpenRow'} = {hstStored[x] : x \in DOMAIN hstStored \ OpenRow}
    BY <1>5
  <2> QED
    BY <1>2, <1>4, <2>1 DEF Known
<1>7. OneEach' /\ IdsMade' /\ ToldInOrder'
  BY <1>2, <1>4, <1>6 DEF AllTold, OneEach, IdsMade, ToldInOrder
<1>8. OpenIsLast'
  BY <1>2, <1>3, <1>4, <1>5 DEF AllTold, OpenIsLast
<1>9. SavingIsRow'
  BY <1>2, <1>4, <1>5 DEF AllTold, OpenIsLast, SavingIsRow
<1>10. Covered'
  BY <1>2, <1>4, <1>5 DEF AllTold, Covered
<1> QED
  BY <1>5, <1>7, <1>8, <1>9, <1>10 DEF AllTold

LEMMA FinishTurnTold ==
  ASSUME HistoryIInv, HistoryIInv', RowsTold, History!FinishTurn PROVE RowsTold'
<1> SUFFICES ASSUME WellSoFar' PROVE AllTold'
  BY DEF RowsTold
<1>1. HistoryTyped
  BY DEF HistoryIInv
<1>2. PICK tools \in BOOLEAN :
        LET m == [id |-> hstMade, role |-> "assistant", tools |-> tools, covers |-> {}]
        IN /\ hstLoop.at = "streaming" /\ History!Saved(hstLoop.idx, m)
           /\ hstMessages' = Append(hstMessages, m) /\ hstEvents' = Append(hstEvents, m)
           /\ hstLoop' = [hstLoop EXCEPT !.at = IF tools THEN "turn" ELSE "returning"]
           /\ UNCHANGED <<hstSaving, hstMade, hstReported>>
  BY DEF History!FinishTurn, History!Assistant, History!Message
<1> DEFINE m == [id |-> hstMade, role |-> "assistant", tools |-> tools, covers |-> {}]
<1>3. m \in HistoryMessage /\ m.id = hstMade /\ m.role = "assistant"
  BY <1>1 DEF HistoryTyped, HistoryMessage
<1>4. /\ hstLoop.at = "streaming" /\ History!Saved(hstLoop.idx, m)
      /\ hstMessages' = Append(hstMessages, m) /\ hstEvents' = Append(hstEvents, m)
      /\ hstLoop'.at \in {"turn", "returning"} /\ hstLoop'.failed = hstLoop.failed
      /\ UNCHANGED <<hstSaving, hstMade, hstReported>>
  BY <1>1, <1>2, LoopIs
<1> HIDE DEF m
<1>5. AllTold /\ Told = hstMessages /\ Told' = hstMessages' /\ OpenRow # {} /\ OpenRow' = {}
  BY <1>4 DEF RowsTold, WellSoFar, Told, OpenRow
<1>6. /\ OpenRow = {hstLoop.idx}
      /\ DOMAIN hstStored' = DOMAIN hstStored \cup {hstLoop.idx} /\ hstStored'[hstLoop.idx] = m
      /\ \A x \in DOMAIN hstStored \ OpenRow : hstStored'[x] = hstStored[x] /\ x \in DOMAIN hstStored'
      /\ DOMAIN hstStored' \ {hstLoop.idx} = DOMAIN hstStored \ OpenRow
      /\ RowsInOrder'
  BY <1>1, <1>3, <1>4, <1>5, OpenRowIsSaved
<1>7. /\ Len(hstMessages) \in Nat /\ Len(hstEvents) \in Nat
      /\ Len(hstMessages') = Len(hstMessages) + 1 /\ Len(hstEvents') = Len(hstEvents) + 1
      /\ hstMessages'[Len(hstMessages) + 1] = m /\ hstEvents'[Len(hstEvents) + 1] = m
      /\ \A i \in 1..Len(hstMessages) : hstMessages'[i] = hstMessages[i]
      /\ \A e \in 1..Len(hstEvents) : hstEvents'[e] = hstEvents[e]
  BY <1>1, <1>3, <1>4 DEF HistoryTyped
<1>8. /\ \A i \in 1..Len(hstMessages') : i \in 1..Len(hstMessages) \/ i = Len(hstMessages) + 1
      /\ \A e \in 1..Len(hstEvents') : e \in 1..Len(hstEvents) \/ e = Len(hstEvents) + 1
      /\ \A e \in 1..Len(hstEvents) : e \in 1..Len(hstEvents')
  BY <1>7
<1>9. Known' \subseteq Known \cup {m}
  <2>1. \A i \in 1..Len(Told') : Told'[i] \in Known \cup {m}
    BY <1>5, <1>7, <1>8, KnownIs
  <2>2. \A e \in 1..Len(hstEvents') : hstEvents'[e] \in Known \cup {m}
    BY <1>7, <1>8, KnownIs
  <2>3. \A x \in DOMAIN hstStored' : hstStored'[x] \in Known \cup {m}
    BY <1>6, KnownIs
  <2> QED
    BY <1>4, <2>1, <2>2, <2>3, KnownIs, KnownWithin
<1>10. Known \subseteq HistoryMessage /\ \A p \in Known : p.id \in Nat /\ p.id < m.id
  BY <1>1, <1>3, <1>5, KnownTyped DEF AllTold, IdsMade
<1>11. OneEach' /\ IdsMade'
  <2>1. \A p, q \in Known : p.id = q.id => p = q
    BY <1>5 DEF AllTold, OneEach
  <2>2. (\A p, q \in Known' : p.id = q.id => p = q) /\ (\A p \in Known' : p.id <= m.id)
    BY <1>3, <1>9, <1>10, <2>1, OneMessageMore
  <2> QED
    BY <1>3, <1>4, <1>5, <2>2 DEF OneEach, IdsMade
<1>12. ToldInOrder'
  <2> SUFFICES ASSUME NEW i \in 1..Len(hstMessages'), NEW j \in 1..Len(hstMessages'), i < j,
                      hstMessages'[i].role # "marker", hstMessages'[j].role # "marker"
               PROVE  hstMessages'[i].id < hstMessages'[j].id
    BY <1>5 DEF ToldInOrder
  <2>1. i \in 1..Len(hstMessages)
    BY <1>7
  <2>2. CASE j \in 1..Len(hstMessages)
    BY <1>5, <1>7, <2>1, <2>2 DEF AllTold, ToldInOrder
  <2>3. CASE j = Len(hstMessages) + 1
    BY <1>5, <1>7, <1>10, <2>1, <2>3, KnownIs
  <2> QED
    BY <1>8, <2>2, <2>3
<1>13. OpenIsLast'
  BY <1>4, <1>5 DEF OpenIsLast
<1>14. SavingIsRow'
  BY <1>4, <1>5, <1>6 DEF AllTold, OpenIsLast, SavingIsRow
<1>15. Covered'
  <2> SUFFICES ASSUME NEW i \in 1..Len(hstMessages')
               PROVE  \/ \E x \in DOMAIN hstStored' : hstStored'[x] = hstMessages'[i]
                      \/ \E e \in 1..Len(hstEvents') : hstEvents'[e] = hstMessages'[i]
                      \/ hstSaving # None /\ hstSaving.message = hstMessages'[i]
    BY <1>4, <1>5 DEF Covered
  <2>1. CASE i = Len(hstMessages) + 1
    BY <1>6, <1>7, <2>1
  <2>2. CASE i \in 1..Len(hstMessages)
    <3>1. \/ \E x \in DOMAIN hstStored \ OpenRow : hstStored[x] = hstMessages[i]
          \/ \E e \in 1..Len(hstEvents) : hstEvents[e] = hstMessages[i]
          \/ hstSaving # None /\ hstSaving.message = hstMessages[i]
      BY <1>5, <2>2 DEF AllTold, Covered
    <3> QED
      BY <1>6, <1>7, <1>8, <2>2, <3>1
  <2> QED
    BY <1>8, <2>1, <2>2
<1> QED
  BY <1>6, <1>11, <1>12, <1>13, <1>14, <1>15 DEF AllTold

(* A run that went well leaves its messages to the session.                *)
LEMMA ReturnTold ==
  ASSUME HistoryIInv, RowsTold, History!Return PROVE RowsTold'
<1> SUFFICES ASSUME WellSoFar' PROVE AllTold'
  BY DEF RowsTold
<1>1. /\ hstLoop.at = "returning" /\ hstEvents = <<>> /\ hstSaving = None
      /\ hstHistory' = hstMessages /\ ~hstReported /\ ~hstLoop.failed
      /\ hstLoop'.at = "idle"
      /\ UNCHANGED <<hstMessages, hstEvents, hstSaving, hstStored, hstMade>>
  BY DEF History!Return, History!Idle, WellSoFar
<1>2. AllTold /\ Told' = Told /\ OpenRow = {} /\ OpenRow' = {}
  BY <1>1 DEF RowsTold, WellSoFar, Told, OpenRow
<1>3. Known' = Known
  BY <1>1, <1>2 DEF Known
<1> QED
  BY <1>1, <1>2, <1>3 DEF AllTold, OneEach, IdsMade, ToldInOrder, RowsInOrder, OpenIsLast,
     SavingIsRow, Covered

(* An event is a row already, or a marker, which gets an index of its own. *)
LEMMA TakeEventTold ==
  ASSUME HistoryAssumption, HistoryIInv, HistoryIInv', RowsTold, History!TakeEvent PROVE RowsTold'
<1> SUFFICES ASSUME WellSoFar' PROVE AllTold'
  BY DEF RowsTold
<1> DEFINE m == Head(hstEvents)
           row == CHOOSE i \in DOMAIN hstStored : hstStored[i].id = m.id
           idx == IF m.role = "marker" THEN hstNextIdx ELSE row
<1>1. HistoryTyped /\ EventsAreRows /\ NothingWaitsWhenIdle /\ IndexesAreMessages
  BY DEF HistoryIInv
<1>2. /\ hstEvents # <<>> /\ hstSaving = None /\ hstEvents' = Tail(hstEvents)
      /\ hstSaving' = [message |-> m, idx |-> idx]
      /\ UNCHANGED <<hstHistory, hstMessages, hstLoop, hstStored, hstReported, hstMade>>
  BY DEF History!TakeEvent
<1>3. /\ m \in HistoryMessage /\ m = hstEvents[1] /\ 1 \in 1..Len(hstEvents) /\ Len(hstEvents) \in Nat
      /\ Len(Tail(hstEvents)) = Len(hstEvents) - 1
      /\ \A i \in 1..Len(Tail(hstEvents)) : i + 1 \in 1..Len(hstEvents) /\ Tail(hstEvents)[i] = hstEvents[i + 1]
  BY <1>1, <1>2 DEF HistoryTyped
<1>4. AllTold /\ Told' = Told /\ OpenRow' = OpenRow /\ hstLoop.at # "idle" /\ ~hstReported /\ ~hstLoop.failed
  BY <1>1, <1>2 DEF RowsTold, WellSoFar, Told, OpenRow, NothingWaitsWhenIdle
<1>5. m \in Known /\ hstNextIdx \in Nat
  BY <1>1, <1>3, KnownIs DEF HistoryTyped
<1>6. hstSaving'.message = m /\ hstSaving'.idx = idx /\ hstSaving' # None
  <2>1. hstSaving' \in {None} \cup [message : HistoryMessage, idx : Nat]
    BY DEF HistoryIInv, HistoryTyped
  <2>2. m.role # "marker" => \E i \in DOMAIN hstStored : hstStored[i].id = m.id
    BY <1>1, <1>3 DEF EventsAreRows
  <2>3. DOMAIN hstStored \subseteq Nat
    BY <1>1, KnownTyped
  <2>4. m.role # "marker" => row \in DOMAIN hstStored
    BY <2>2
  <2> HIDE DEF m, row
  <2>5. idx \in Nat
    BY <1>5, <2>3, <2>4
  <2> HIDE DEF idx
  <2>6. [message |-> m, idx |-> idx] \in [message : HistoryMessage, idx : Nat]
    BY <1>3, <2>5
  <2>7. [message |-> m, idx |-> idx] # None
    BY <2>6 DEF HistoryAssumption, HistoryMessage
  <2> QED
    BY <1>2, <2>7
<1>7. ASSUME m.role # "marker"
      PROVE  idx \in DOMAIN hstStored \ OpenRow /\ hstStored[idx] = m
  <2>1. \E i \in DOMAIN hstStored : hstStored[i].id = m.id
    BY <1>1, <1>3, <1>7 DEF EventsAreRows
  <2>2. row \in DOMAIN hstStored /\ hstStored[row].id = m.id
    BY <2>1
  <2>3. idx = row
    BY <1>7
  <2> HIDE DEF m, row, idx
  <2>4. row \notin OpenRow
    <3> SUFFICES ASSUME row \in OpenRow PROVE FALSE
      OBVIOUS
    <3>1. m.id < hstMade /\ m.id \in Nat /\ hstMade \in Nat
      BY <1>1, <1>4, <1>5, KnownTyped DEF AllTold, IdsMade, HistoryTyped
    <3>2. row = hstLoop.idx /\ hstLoop.at \in {"indexed", "streaming"}
      BY DEF OpenRow
    <3>3. hstStored[row].id = hstMade
      BY <1>4, <2>2, <3>2 DEF AllTold, OpenIsLast
    <3> QED
      BY <2>2, <3>1, <3>3
  <2>5. hstStored[row] \in Known
    BY <2>2, <2>4, KnownIs
  <2>6. hstStored[row] = m
    BY <1>4, <1>5, <2>2, <2>5 DEF AllTold, OneEach
  <2> QED
    BY <2>2, <2>3, <2>4, <2>6
<1>8. ASSUME m.role = "marker"
      PROVE  idx \notin DOMAIN hstStored /\ idx \notin OpenRow
  <2>1. DOMAIN hstStored \cup ReservedBy(hstLoop, hstSaving) = 0..(hstNextIdx - 1)
    BY <1>1, <1>4 DEF IndexesAreMessages
  <2>2. OpenRow \subseteq DOMAIN hstStored \cup ReservedBy(hstLoop, hstSaving)
    BY <1>1, <1>4 DEF OpenRow, ReservedBy, IndexesAreMessages
  <2>3. hstNextIdx \notin 0..(hstNextIdx - 1)
    BY <1>5
  <2>4. idx = hstNextIdx
    BY <1>8
  <2> QED
    BY <2>1, <2>2, <2>3, <2>4
<1> HIDE DEF m, row, idx
<1>9. Known' \subseteq Known
  <2>1. \A i \in 1..Len(hstEvents') : hstEvents'[i] \in Known
    BY <1>2, <1>3, KnownIs
  <2> QED
    BY <1>2, <1>4, <1>5, <1>6, <2>1, KnownIs, KnownWithin
<1>10. OneEach' /\ IdsMade' /\ ToldInOrder' /\ RowsInOrder'
  BY <1>2, <1>4, <1>9 DEF AllTold, OneEach, IdsMade, ToldInOrder, RowsInOrder
<1>11. idx \notin OpenRow
  BY <1>7, <1>8
<1>12. OpenIsLast'
  <2>1. OpenRow # {} => hstSaving'.idx # hstLoop.idx
    BY <1>6, <1>11 DEF OpenRow
  <2> QED
    BY <1>2, <1>4, <2>1 DEF AllTold, OpenIsLast
<1>13. SavingIsRow'
  BY <1>2, <1>6, <1>7, <1>8 DEF SavingIsRow
<1>14. Covered'
  <2> SUFFICES ASSUME NEW i \in 1..Len(Told)
               PROVE  \/ \E x \in DOMAIN hstStored \ OpenRow : hstStored[x] = Told[i]
                      \/ \E e \in 1..Len(hstEvents') : hstEvents'[e] = Told[i]
                      \/ m = Told[i]
    BY <1>2, <1>4, <1>6 DEF Covered
  <2>1. CASE \E e \in 1..Len(hstEvents) : hstEvents[e] = Told[i]
    <3>1. PICK e \in 1..Len(hstEvents) : hstEvents[e] = Told[i]
      BY <2>1
    <3>2. CASE e = 1
      BY <1>3, <3>1, <3>2
    <3>3. CASE e # 1
      <4>1. e - 1 \in 1..Len(Tail(hstEvents)) /\ (e - 1) + 1 = e
        BY <1>3, <3>3
      <4> QED
        BY <1>2, <1>3, <3>1, <4>1
    <3> QED
      BY <3>2, <3>3
  <2> QED
    BY <1>2, <1>4, <2>1 DEF AllTold, Covered
<1> QED
  BY <1>10, <1>12, <1>13, <1>14 DEF AllTold

LEMMA SaveEventTold ==
  ASSUME HistoryIInv, RowsTold, History!SaveEvent PROVE RowsTold'
<1> SUFFICES ASSUME WellSoFar' PROVE AllTold'
  BY DEF RowsTold
<1>1. HistoryTyped /\ NothingWaitsWhenIdle /\ RowsTyped
  BY DEF HistoryIInv, HistoryTyped, RowsTyped
<1>2. hstSaving # None /\ hstSaving' = None /\ hstLoop.at # "idle"
        /\ UNCHANGED <<hstHistory, hstMessages, hstEvents, hstReported, hstMade>>
  BY <1>1 DEF History!SaveEvent, NothingWaitsWhenIdle
<1>3. History!Saved(hstSaving.idx, hstSaving.message) /\ hstLoop' = hstLoop
  <2>1. \/ hstLoop'.failed = TRUE /\ hstLoop'.at = hstLoop.at
        \/ History!Saved(hstSaving.idx, hstSaving.message) /\ hstLoop' = hstLoop
    BY <1>1, LoopIs DEF History!SaveEvent
  <2> QED
    BY <1>2, <2>1 DEF WellSoFar
<1> DEFINE m == hstSaving.message
           idx == hstSaving.idx
<1>4. idx \in Nat /\ m \in HistoryMessage
  BY <1>1, <1>2 DEF HistoryTyped
<1>5. AllTold /\ Told' = Told /\ OpenRow' = OpenRow
  BY <1>2, <1>3 DEF RowsTold, WellSoFar, Told, OpenRow
<1>6. /\ DOMAIN hstStored' = DOMAIN hstStored \cup {idx} /\ hstStored'[idx] = m
      /\ \A x \in DOMAIN hstStored : x # idx => hstStored'[x] = hstStored[x]
  BY <1>1, <1>3, <1>4, OneRowIsSaved
<1>7. /\ idx \in DOMAIN hstStored => hstStored[idx] = m
      /\ idx \notin DOMAIN hstStored => m.role = "marker"
      /\ OpenRow # {} => idx # hstLoop.idx
      /\ m \in Known
  BY <1>2, <1>5, KnownIs DEF AllTold, SavingIsRow, OpenIsLast
<1> HIDE DEF m, idx
<1>8. \A x \in DOMAIN hstStored : x \in DOMAIN hstStored' /\ hstStored'[x] = hstStored[x]
  BY <1>6, <1>7
<1>9. \A x \in DOMAIN hstStored' :
        x \in DOMAIN hstStored \/ (x = idx /\ hstStored'[x] = m /\ m.role = "marker")
  BY <1>6, <1>7
<1>10. idx \notin OpenRow
  BY <1>7 DEF OpenRow
<1>11. Known' \subseteq Known
  <2>1. \A x \in DOMAIN hstStored' \ OpenRow : hstStored'[x] \in Known
    BY <1>7, <1>8, <1>9, KnownIs
  <2> QED
    BY <1>2, <1>5, <2>1, KnownIs, KnownWithin
<1>12. OneEach' /\ IdsMade' /\ ToldInOrder' /\ SavingIsRow'
  BY <1>2, <1>5, <1>11 DEF AllTold, OneEach, IdsMade, ToldInOrder, SavingIsRow
<1>13. RowsInOrder'
  BY <1>5, <1>8, <1>9 DEF AllTold, RowsInOrder
<1>14. OpenIsLast'
  <2>1. hstLoop.at \in {"indexed", "streaming"} => idx # hstLoop.idx
    BY <1>7 DEF OpenRow
  <2>2. \A x \in DOMAIN hstStored' : OpenRow # {} /\ x > hstLoop.idx => hstStored'[x].role = "marker"
    BY <1>5, <1>8, <1>9 DEF AllTold, OpenIsLast
  <2>3. hstLoop.at = "indexed" => hstLoop.idx \notin DOMAIN hstStored'
    BY <1>5, <1>6, <2>1 DEF AllTold, OpenIsLast
  <2>4. hstLoop.at = "streaming" =>
          hstLoop.idx \in DOMAIN hstStored' /\ hstStored'[hstLoop.idx].id = hstMade
    BY <1>5, <1>8 DEF AllTold, OpenIsLast
  <2> QED
    BY <1>2, <1>3, <1>5, <2>2, <2>3, <2>4 DEF OpenIsLast
<1>15. Covered'
  <2> SUFFICES ASSUME NEW i \in 1..Len(Told)
               PROVE  \/ \E x \in DOMAIN hstStored' \ OpenRow : hstStored'[x] = Told[i]
                      \/ \E e \in 1..Len(hstEvents) : hstEvents[e] = Told[i]
    BY <1>2, <1>5 DEF Covered
  <2>1. \/ \E x \in DOMAIN hstStored \ OpenRow : hstStored[x] = Told[i]
        \/ \E e \in 1..Len(hstEvents) : hstEvents[e] = Told[i]
        \/ m = Told[i]
    BY <1>5 DEF AllTold, Covered, m
  <2>2. idx \in DOMAIN hstStored' \ OpenRow
    BY <1>6, <1>10
  <2> QED
    BY <1>6, <1>8, <2>1, <2>2
<1> QED
  BY <1>12, <1>13, <1>14, <1>15 DEF AllTold

(* A session that is built anew has only the rows to go on from.           *)
LEMMA NewSessionTold ==
  ASSUME RowsTold, History!NewSession PROVE RowsTold'
<1> SUFFICES ASSUME WellSoFar' PROVE AllTold'
  BY DEF RowsTold
<1>1. /\ hstLoop.at = "idle" /\ hstHistory' = <<>>
      /\ UNCHANGED <<hstLoop, hstEvents, hstSaving, hstStored, hstReported, hstMade>>
  BY DEF History!NewSession
<1>2. AllTold /\ Told' = <<>> /\ Len(<<>>) = 0 /\ OpenRow' = OpenRow
  BY <1>1 DEF RowsTold, WellSoFar, Told, OpenRow
<1>3. Known' \subseteq Known
  BY <1>1, <1>2 DEF Known
<1> QED
  BY <1>1, <1>2, <1>3 DEF AllTold, OneEach, IdsMade, ToldInOrder, RowsInOrder, OpenIsLast,
     SavingIsRow, Covered

(* Every step goes on telling.                                             *)
LEMMA ToldStep ==
  ASSUME HistoryAssumption, HistoryIInv, HistoryIInv', RowsTold, [History!Next]_hstVars
  PROVE  RowsTold'
<1>1. ASSUME History!RetainFailed PROVE RowsTold'
  <2>1. hstLoop'.at = "returning" /\ hstLoop'.failed = TRUE
    <3>1. HistoryTyped
      BY DEF HistoryIInv
    <3> QED
      BY <1>1, <3>1, LoopIs DEF History!RetainFailed
  <2> QED
    BY <2>1, FailedTellsNothing DEF WellSoFar
<1>2. ASSUME History!Crash PROVE RowsTold'
  BY <1>2, FailedTellsNothing DEF WellSoFar, History!Crash
<1>3. ASSUME History!Cancel PROVE RowsTold'
  BY <1>3, ToldStays DEF History!Cancel
<1>4. ASSUME UNCHANGED hstVars PROVE RowsTold'
  BY <1>4, ToldStays DEF hstVars
<1> QED
  BY <1>1, <1>2, <1>3, <1>4, StartRunTold, BeginTurnTold, AssignIndexTold, CheckpointTold,
     FinishTurnTold, ReturnTold, TakeEventTold, SaveEventTold, NewSessionTold DEF History!Next

(* What is told between runs that went well is what the rows are.          *)
SameRows ==
  hstLoop.at = "idle" /\ ~hstReported /\ hstHistory # <<>> =>
    History!SameMessages(hstStored, hstHistory)

LEMMA RowsAreTold == HistoryIInv /\ RowsTold => SameRows
<1> SUFFICES ASSUME HistoryIInv, RowsTold, hstLoop.at = "idle", ~hstReported, hstHistory # <<>>
             PROVE  History!SameMessages(hstStored, hstHistory)
  BY DEF SameRows
<1>1. /\ Told = hstHistory /\ OpenRow = {} /\ AllTold /\ hstSaving = None /\ Len(hstEvents) = 0
      /\ Len(hstHistory) = Cardinality(DOMAIN hstStored) /\ DOMAIN hstHistory = 1..Len(hstHistory)
  BY DEF HistoryIInv, HistoryTyped, NothingWaitsWhenIdle, RowsAreHistory, RowsTold, WellSoFar, Told,
     OpenRow
<1>2. \A i \in DOMAIN hstHistory : \E x \in DOMAIN hstStored : hstStored[x] = hstHistory[i]
  BY <1>1 DEF AllTold, Covered
<1>3. ASSUME NEW i \in 1..Len(hstHistory), NEW j \in 1..Len(hstHistory), i < j,
             hstHistory[i].role # "marker", hstHistory[j].role # "marker",
             NEW x \in DOMAIN hstStored, NEW y \in DOMAIN hstStored,
             hstStored[x] = hstHistory[i], hstStored[y] = hstHistory[j]
      PROVE  x < y
  <2>1. hstHistory[i].id < hstHistory[j].id
    BY <1>1, <1>3 DEF AllTold, ToldInOrder
  <2>2. y < x => hstHistory[j].id < hstHistory[i].id
    BY <1>1, <1>3 DEF AllTold, RowsInOrder
  <2>3. hstHistory[i].id \in Nat /\ hstHistory[j].id \in Nat /\ x \in Nat /\ y \in Nat
    <3>1. HistoryTyped
      BY DEF HistoryIInv
    <3> QED
      BY <1>1, <1>3, <3>1, KnownTyped
  <2>4. x # y
    BY <1>3, <2>1, <2>3
  <2> QED
    BY <2>1, <2>2, <2>3, <2>4
<1>4. \A i, j \in DOMAIN hstHistory \ History!Markers(hstHistory) : i < j =>
        \A x, y \in DOMAIN hstStored : hstStored[x] = hstHistory[i] /\ hstStored[y] = hstHistory[j] => x < y
  BY <1>1, <1>3 DEF History!Markers
<1>5. Len(hstHistory) = History!Cardinality(DOMAIN hstStored)
  BY <1>1, HistoryCardinality
<1> QED
  BY <1>2, <1>4, <1>5 DEF History!SameMessages

LEMMA RowsAreToldNext == (HistoryIInv /\ RowsTold => SameRows)'
BY RowsAreTold, PTL

(* What is not forgotten is in the context; the rows are what a session    *)
(* has told.                                                               *)
LEMMA HistorySafe ==
  ASSUME HistoryIInv', RowsTold', NothingForgotten PROVE History!KeepsHistory
<1>1. hstLoop'.at = "idle" /\ ~hstReported' =>
        DOMAIN hstStored' = 0..(Cardinality(DOMAIN hstStored') - 1)
  BY DEF HistoryIInv, RowsAreHistory
<1>2. hstLoop'.at = "idle" /\ ~hstReported' /\ hstHistory' # <<>> =>
        History!SameMessages(hstStored', hstHistory')
  BY RowsAreToldNext DEF SameRows
<1>3. History!Cardinality(DOMAIN hstStored') = Cardinality(DOMAIN hstStored')
  BY HistoryCardinality
<1> QED
  BY <1>1, <1>2, <1>3 DEF History!KeepsHistory, NothingForgotten

-----------------------------------------------------------------------------
LEMMA HistoryInitially == LoopPartsInit => (machine = "history" => HistoryIInv /\ RowsTold)
BY HistoryInit, ToldInit DEF LoopPartsInit

(* The history is not disturbed by the other components, and forgets       *)
(* nothing.                                                                *)
LEMMA HistoryStepOfLoop ==
  ASSUME machine = "history" => HistoryIInv /\ RowsTold,
         [LoopPartsNext]_<<machine, loopPartVars>>
  PROVE  /\ machine' = "history" => HistoryIInv' /\ RowsTold'
         /\ machine = "history" => History!KeepsHistory
<1>1. machine' = machine
  BY DEF LoopPartsNext
<1>2. SUFFICES ASSUME machine = "history" PROVE HistoryIInv' /\ RowsTold' /\ History!KeepsHistory
  BY <1>1
<1>3. [History!Next]_hstVars
  BY <1>2 DEF LoopPartsNext, loopPartVars
<1>4. HistoryIInv' /\ NothingForgotten
  BY <1>2, <1>3, HistoryAssumption, HistoryStep
<1>5. RowsTold'
  BY <1>2, <1>3, <1>4, HistoryAssumption, ToldStep
<1> QED
  BY <1>4, <1>5, HistorySafe

(* As long as a run lasts, what the model has been told stays in its       *)
(* context or in a summary of it, whatever is cancelled, fails or crashes; *)
(* and while the runs of a session all end well, its rows are all of its   *)
(* messages, at indexes without a gap and in order but for the markers of  *)
(* compactions (transformHistory, sessionMessagePersistence, hydrate).  A  *)
(* marker may have another place in the rows than in memory, and then      *)
(* hides messages from a later process that are kept here.  For histories  *)
(* of any length and budgets of any size.                                  *)
THEOREM HistoryIsAlwaysKept == LoopPartsSpec => HistoryIsKept
<1> DEFINE Inv == machine = "history" => HistoryIInv /\ RowsTold
<1>1. Inv /\ [LoopPartsNext]_<<machine, loopPartVars>>
        => Inv' /\ (machine = "history" => History!KeepsHistory)
  BY HistoryStepOfLoop
<1>2. LoopPartsInit => Inv
  BY HistoryInitially
<1> QED
  BY <1>1, <1>2, PTL DEF LoopPartsSpec, HistoryIsKept
=============================================================================
