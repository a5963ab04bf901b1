------------------------- MODULE GatewayLinkProofs -------------------------
(***************************************************************************)
(* Theorems about GatewayLink, for any frames, sockets, renewals, faults   *)
(* and bound of the queue.                                                 *)
(***************************************************************************)
EXTENDS GatewayLink, TLAPS

-----------------------------------------------------------------------------
(* Type correctness: what each helper leaves behind, then the actions.     *)

States == {"disconnected", "connecting", "connected", "reconnecting"}
Places == {"new", "off", "waiting", "asking", "told", "dial", "flush"}
Loops == {"off", "stopping", "sleeping", "dialing"}

\* The conjuncts of TypeOK, by the part of the state they are about.
LinkTypes ==
  /\ conn \in States
  /\ ws \in Sockets \cup {NoSocket}
  /\ loop \in Loops
  /\ shutdown \in BOOLEAN
  /\ closing \in {"no", "begun", "ended"}
  /\ loop = "dialing" <=> at["again"] # "off"

TokenTypes ==
  /\ at \in [Clients -> Places]
  /\ outcome \in [Clients -> {"ok", "network_error", "auth_expired"}]
  /\ {expired, spent} \subseteq BOOLEAN

TaskTypes ==
  /\ {receivers, timers} \subseteq SUBSET Sockets
  /\ latest \in Sockets \cup {NoSocket}

FrameTypes ==
  /\ queue \in Seq(Messages) /\ Len(queue) <= MaxQueue
  /\ {pending, given} \subseteq SUBSET Messages
  /\ tries \in [Messages -> 0..MaxRetries]
  /\ hand \in [Messages -> {"none", "app"} \cup Dialers]
  /\ on \in [Messages -> Sockets \cup {NoSocket}]
  /\ done \in [Messages -> Fates]

NetTypes ==
  /\ open \subseteq Sockets
  /\ relayWs \in Sockets \cup {NoSocket}
  /\ wire \subseteq Messages \X Sockets

LEMMA Parts ==
  TypeOK <=> /\ LinkTypes /\ TokenTypes /\ TaskTypes /\ FrameTypes /\ NetTypes
             /\ stuck \in BOOLEAN /\ faults \in 0..MaxFaults
BY DEF TypeOK, LinkTypes, TokenTypes, TaskTypes, FrameTypes, NetTypes, States, Places, Loops

LEMMA NextParts ==
  ASSUME LinkTypes', TokenTypes', TaskTypes', FrameTypes', NetTypes',
         stuck' \in BOOLEAN, faults' \in 0..MaxFaults
  PROVE  TypeOK'
BY DEF TypeOK, LinkTypes, TokenTypes, TaskTypes, FrameTypes, NetTypes, States, Places, Loops

\* A fault is within its bound.
LEMMA FaultTypes == faults \in 0..MaxFaults /\ Fault => faults' \in 0..MaxFaults
BY GatewayAssumption DEF GatewayAssumption, Fault

\* What an unchanged part keeps.
LEMMA Kept ==
  /\ LinkTypes /\ UNCHANGED <<link, at>> => LinkTypes'
  /\ TokenTypes /\ UNCHANGED token => TokenTypes'
  /\ TaskTypes /\ UNCHANGED tasks => TaskTypes'
  /\ FrameTypes /\ UNCHANGED frames => FrameTypes'
  /\ NetTypes /\ UNCHANGED net => NetTypes'
BY DEF LinkTypes, TokenTypes, TaskTypes, FrameTypes, NetTypes, link, token, tasks, frames, net

\* A frame that is put in the queue.
LEMMA EnqueueTypes ==
  ASSUME FrameTypes, NEW m \in Messages, Enqueue(m)
  PROVE  /\ queue' \in Seq(Messages)
         /\ Len(queue') <= MaxQueue
         /\ done' \in [Messages -> Fates]
<1>1. CASE Len(queue) < MaxQueue
  <2>1. queue' = Append(queue, m) /\ done' = done
    BY <1>1 DEF Enqueue
  <2>2. queue' \in Seq(Messages) /\ Len(queue') = Len(queue) + 1
    BY <2>1 DEF FrameTypes
  <2>3. Len(queue) \in Nat /\ MaxQueue \in Nat
    BY GatewayAssumption DEF FrameTypes, GatewayAssumption
  <2>. QED
    BY <1>1, <2>1, <2>2, <2>3 DEF FrameTypes
<1>2. CASE ~(Len(queue) < MaxQueue)
  <2>1. Len(queue) = MaxQueue /\ queue # <<>> /\ MaxQueue \in Nat \ {0}
    BY <1>2, GatewayAssumption DEF FrameTypes, GatewayAssumption
  <2>2. Head(queue) \in Messages /\ Tail(queue) \in Seq(Messages)
          /\ Len(Tail(queue)) = Len(queue) - 1
    BY <2>1 DEF FrameTypes
  <2>3. queue' = Append(Tail(queue), m) /\ done' = [done EXCEPT ![Head(queue)] = "evicted"]
    BY <1>2 DEF Enqueue
  <2>4. queue' \in Seq(Messages) /\ Len(queue') = Len(Tail(queue)) + 1
    BY <2>2, <2>3
  <2>. QED
    BY <2>1, <2>2, <2>3, <2>4 DEF FrameTypes, Fates
<1>. QED
  BY <1>1, <1>2

LEMMA DiesTypes ==
  ASSUME NetTypes, NEW s \in Sockets, Dies(s)
  PROVE  NetTypes'
BY DEF NetTypes, Dies

LEMMA WritesTypes ==
  ASSUME NetTypes, LinkTypes, NEW m \in Messages, Writes(m)
  PROVE  wire' \subseteq Messages \X Sockets
BY DEF NetTypes, LinkTypes, Writes

\* The reconnect loop begins, or not; it does not dial yet.
LEMMA ReconnectsTypes ==
  ASSUME LinkTypes, Reconnects
  PROVE  /\ conn' \in States /\ loop' \in Loops
         /\ loop' = "dialing" <=> loop = "dialing"
BY DEF LinkTypes, Reconnects, States, Loops

\* A frame is sent, or the sending of it ends.
LEMMA TypeSending ==
  ASSUME TypeOK, NEW m \in Messages,
         Send(m) \/ SendEnds(m) \/ SendCancelled(m) \/ Retry(m) \/ Expire(m)
  PROVE  TypeOK'
<1> USE Parts
<1>1. CASE Send(m)
  <2>1. CASE Sendable /\ StartsSending(m, "app") /\ UNCHANGED <<queue, done>>
    <3>1. FrameTypes'
      BY <1>1, <2>1 DEF Send, StartsSending, FrameTypes, LinkTypes
    <3>2. NetTypes'
      BY <1>1, <2>1, WritesTypes DEF Send, StartsSending, NetTypes
    <3>. QED
      BY <1>1, <3>1, <3>2, Kept, NextParts DEF Send, token
  <2>2. CASE Enqueue(m) /\ UNCHANGED <<hand, on, wire>>
    BY <1>1, <2>2, Kept, EnqueueTypes, NextParts DEF Send, FrameTypes, NetTypes, token
  <2>. QED
    BY <1>1, <2>1, <2>2 DEF Send
<1>2. CASE SendEnds(m)
  <2>1. CASE on[m] \in open
    BY <1>2, <2>1, Kept, NextParts, GatewayAssumption
    DEF SendEnds, FrameTypes, token, GatewayAssumption
  <2>2. CASE on[m] \notin open
    BY <1>2, <2>2, Kept, EnqueueTypes, NextParts DEF SendEnds, FrameTypes, token
  <2>. QED
    BY <2>1, <2>2
<1>3. CASE Retry(m)
  BY <1>3, Kept, WritesTypes, NextParts, GatewayAssumption
  DEF Retry, FrameTypes, NetTypes, token, GatewayAssumption
<1>4. CASE Expire(m)
  BY <1>4, Kept, NextParts, GatewayAssumption
  DEF Expire, Forgets, FrameTypes, Fates, token, GatewayAssumption
<1>5. CASE SendCancelled(m)
  <2>1. FrameTypes'
    BY <1>5, GatewayAssumption DEF SendCancelled, FrameTypes, Fates, GatewayAssumption
  <2>2. NetTypes'
    BY <1>5 DEF SendCancelled, NetTypes
  <2>. QED
    BY <1>5, <2>1, <2>2, Kept, NextParts DEF SendCancelled, token
<1>. QED
  BY <1>1, <1>2, <1>3, <1>4, <1>5

\* What comes in, and the ends of the loops of a connection.
LEMMA TypeIncoming ==
  ASSUME TypeOK, NEW s \in Sockets,
         (\E m \in Messages : ReceiveAck(m, s)) \/ ReceiveEnds(s) \/ TimersEnd(s)
  PROVE  TypeOK'
<1> USE Parts
<1>1. ASSUME NEW m \in Messages, ReceiveAck(m, s)
      PROVE  TypeOK'
  <2>1. FrameTypes'
    <3>1. 0 \in 0..MaxRetries /\ FrameTypes
      BY GatewayAssumption DEF GatewayAssumption
    <3>2. UNCHANGED <<queue, hand, on, given>>
      BY <1>1 DEF ReceiveAck
    <3>3. \/ UNCHANGED <<pending, tries, done>>
          \/ Forgets(m) /\ done' = [done EXCEPT ![m] = "acked"]
      BY <1>1 DEF ReceiveAck
    <3>. QED
      BY <3>1, <3>2, <3>3 DEF Forgets, FrameTypes, Fates
  <2>2. NetTypes' /\ TaskTypes'
    BY <1>1 DEF ReceiveAck, NetTypes, TaskTypes
  <2>. QED
    BY <1>1, <2>1, <2>2, Kept, NextParts DEF ReceiveAck, token
<1>2. CASE ReceiveEnds(s)
  <2>1. LinkTypes'
    BY <1>2, ReconnectsTypes DEF ReceiveEnds, LinkTypes, token
  <2>. QED
    BY <1>2, <2>1, Kept, NextParts DEF ReceiveEnds, TaskTypes
<1>3. CASE TimersEnd(s)
  BY <1>3, Kept, NextParts DEF TimersEnd, TaskTypes, token
<1>. QED
  BY <1>1, <1>2, <1>3

LEMMA TypeInactive ==
  ASSUME TypeOK, Inactive
  PROVE  TypeOK'
<1> USE Parts
<1>1. LinkTypes'
  BY ReconnectsTypes DEF Inactive, LinkTypes, token
<1>2. ws \in Sockets
  BY DEF Inactive, NetTypes
<1>. QED
  BY <1>1, <1>2, Kept, DiesTypes, FaultTypes, NextParts DEF Inactive

\* Where the clients of the token are, when one of them moves.
LEMMA GoesTypes ==
  ASSUME TokenTypes, NEW c \in Clients, NEW place \in Places, Goes(c, place)
  PROVE  /\ at' \in [Clients -> Places]
         /\ at'[c] = place
         /\ \A b \in Clients : b # c => at'[b] = at[b]
BY DEF TokenTypes, Goes

\* The reconnect loop dials exactly while its _connect runs.
LEMMA LoopAfterTypes ==
  ASSUME LinkTypes, TokenTypes, NEW d \in Dialers, at[d] # "off", Goes(d, "off"),
         NEW state, NEW ending \in BOOLEAN, loop' = LoopAfter(d, state, ending)
  PROVE  loop' \in Loops /\ (loop' = "dialing" <=> at'["again"] # "off")
<1>1. d \in Clients /\ "again" \in Clients /\ "off" \in Places
  BY DEF Clients, Dialers, Places
<1>2. at'[d] = "off" /\ (d # "again" => at'["again"] = at["again"])
  BY <1>1, GoesTypes
<1>. QED
  BY <1>2 DEF LoopAfter, LinkTypes, Loops, Dialers

LEMMA NotConnectedTypes ==
  ASSUME LinkTypes, TokenTypes, NEW d \in Dialers, at[d] # "off", Goes(d, "off"),
         NotConnected(d)
  PROVE  /\ conn' \in States /\ loop' \in Loops
         /\ loop' = "dialing" <=> at'["again"] # "off"
<1>1. CASE d = "first"
  <2>1. at'["again"] = at["again"]
    BY <1>1, GoesTypes DEF Clients, Dialers, Places
  <2>. QED
    BY <1>1, <2>1, ReconnectsTypes DEF NotConnected, LinkTypes
<1>2. CASE d # "first"
  BY <1>2, LoopAfterTypes DEF NotConnected, LinkTypes, States
<1>. QED
  BY <1>1, <1>2

LEMMA TypeDial ==
  ASSUME TypeOK, NEW d \in Dialers, Dial(d)
  PROVE  TypeOK'
<1> USE Parts
<1>a. d \in Clients /\ "again" \in Clients /\ {"off", "flush", "waiting"} \subseteq Places
  BY DEF Clients, Dialers, Places
<1>1. CASE DialSucceeds(d)
  <2>1. PICK s \in Sockets : /\ ws' = s /\ latest' = s /\ relayWs' = s
                             /\ open' = open \cup {s}
                             /\ receivers' = receivers \cup {s}
                             /\ timers' = timers \cup {s}
    <3>1. \E s \in Sockets : Free(s)
      BY <1>1 DEF DialSucceeds
    <3>2. (CHOOSE s \in Sockets : Free(s)) \in Sockets
      BY <3>1
    <3>. QED
      BY <1>1, <3>2 DEF DialSucceeds
  <2>2. TaskTypes' /\ NetTypes'
    BY <1>1, <2>1 DEF DialSucceeds, TaskTypes, NetTypes
  <2>3. at[d] = "dial" /\ conn' = "connected" /\ UNCHANGED <<shutdown, closing>>
    BY <1>1 DEF DialSucceeds
  <2>4. at' \in [Clients -> Places] /\ LinkTypes'
    <3>1. CASE Goes(d, "flush") /\ UNCHANGED loop
      BY <2>1, <2>3, <3>1, <1>a, GoesTypes DEF LinkTypes, States
    <3>2. CASE Goes(d, "off") /\ loop' = LoopAfter(d, "connected", shutdown)
      <4>1. at' \in [Clients -> Places]
        BY <3>2, <1>a, GoesTypes
      <4>2. loop' \in Loops /\ (loop' = "dialing" <=> at'["again"] # "off")
        BY <2>3, <3>2, LoopAfterTypes DEF LinkTypes
      <4>. QED
        BY <2>1, <2>3, <4>1, <4>2 DEF LinkTypes, States
    <3>. QED
      BY <1>1, <3>1, <3>2 DEF DialSucceeds
  <2>. QED
    BY <1>1, <2>2, <2>4, Kept, NextParts DEF DialSucceeds, TokenTypes
<1>2. CASE DialFails(d)
  <2>1. LinkTypes'
    BY <1>2, NotConnectedTypes DEF DialFails, LinkTypes
  <2>. QED
    BY <1>2, <2>1, <1>a, Kept, GoesTypes, FaultTypes, NextParts DEF DialFails, TokenTypes
<1>3. CASE DialRefused(d)
  <2>1. CASE spent
    <3>1. LinkTypes'
      BY <1>3, <2>1, NotConnectedTypes DEF DialRefused, LinkTypes
    <3>. QED
      BY <1>3, <2>1, <3>1, <1>a, Kept, GoesTypes, FaultTypes, NextParts
      DEF DialRefused, TokenTypes
  <2>2. CASE ~spent
    <3>1. PICK r \in Renewers : at' = [at EXCEPT ![d] = "off", ![r] = "waiting"]
      <4>1. \E r \in Renewers : at[r] = "off"
        BY <1>3, <2>2 DEF DialRefused
      <4>2. (CHOOSE r \in Renewers : at[r] = "off") \in Renewers
        BY <4>1
      <4>. QED
        BY <1>3, <2>2, <4>2 DEF DialRefused
    <3>2. at' \in [Clients -> Places]
      BY <3>1, <1>a DEF TokenTypes
    <3>3. r # "again" /\ r # d /\ r \in Clients
      BY GatewayAssumption DEF GatewayAssumption, Dialers, Clients
    <3>4. at'[d] = "off" /\ (d # "again" => at'["again"] = at["again"])
      BY <3>1, <3>3, <1>a DEF TokenTypes
    <3>5. loop' \in Loops /\ (loop' = "dialing" <=> at'["again"] # "off")
      BY <1>3, <2>2, <3>4 DEF DialRefused, LoopAfter, LinkTypes, Loops, Dialers
    <3>6. LinkTypes'
      BY <1>3, <2>2, <3>5 DEF DialRefused, LinkTypes, States
    <3>. QED
      BY <1>3, <3>2, <3>6, Kept, FaultTypes, NextParts DEF DialRefused, TokenTypes
  <2>. QED
    BY <2>1, <2>2 DEF TypeOK
<1>. QED
  BY <1>1, <1>2, <1>3 DEF Dial

\* A flush takes frames out of the queue.
LEMMA TypeFlush ==
  ASSUME TypeOK, NEW d \in Dialers, Flush(d) \/ Flushed(d)
  PROVE  TypeOK'
<1> USE Parts
<1>1. CASE Flush(d)
  <2>1. CASE Sendable /\ ws \in open /\ StartsSending(Head(queue), d)
               /\ queue' = Tail(queue) /\ UNCHANGED stuck
    <3>1. /\ queue # <<>> /\ Head(queue) \in Messages
          /\ Tail(queue) \in Seq(Messages) /\ Len(Tail(queue)) = Len(queue) - 1
          /\ Len(queue) \in Nat
      BY <1>1 DEF Flush, FrameTypes
    <3>2. Len(queue') <= MaxQueue
      BY <2>1, <3>1, GatewayAssumption DEF FrameTypes, GatewayAssumption
    <3>3. FrameTypes'
      BY <1>1, <2>1, <3>1, <3>2 DEF Flush, StartsSending, FrameTypes, LinkTypes
    <3>4. NetTypes'
      BY <1>1, <2>1, <3>1, WritesTypes DEF Flush, StartsSending, NetTypes
    <3>. QED
      BY <1>1, <2>1, <3>3, <3>4, Kept, NextParts DEF Flush, token
  <2>2. CASE stuck' = TRUE /\ UNCHANGED <<queue, hand, on, wire>>
    BY <1>1, <2>2, Kept, NextParts DEF Flush, frames, net, token
  <2>. QED
    BY <1>1, <2>1, <2>2 DEF Flush
<1>2. CASE Flushed(d)
  <2>1. loop' \in Loops /\ (loop' = "dialing" <=> at'["again"] # "off")
    BY <1>2, LoopAfterTypes DEF Flushed, LinkTypes
  <2>2. at' \in [Clients -> Places]
    BY <1>2, GoesTypes DEF Flushed, Clients, Places
  <2>. QED
    BY <1>2, <2>1, <2>2, Kept, NextParts DEF Flushed, LinkTypes, TokenTypes
<1>. QED
  BY <1>1, <1>2

\* What becomes of a client of the token when its renewal is over.
LEMMA GoesOnTypes ==
  ASSUME LinkTypes, TokenTypes, NEW c \in Clients, at[c] # "off",
         NEW result \in {"ok", "network_error", "auth_expired"}, GoesOn(c, result),
         UNCHANGED <<ws, closing>>
  PROVE  at' \in [Clients -> Places] /\ LinkTypes'
<1>1. CASE c \in Dialers /\ result = "auth_expired"
  <2>1. Goes(c, "off") /\ conn' = "disconnected" /\ shutdown' = TRUE
          /\ loop' = LoopAfter(c, "disconnected", TRUE)
    BY <1>1, GatewayAssumption DEF GoesOn, GatewayAssumption, Dialers
  <2>2. loop' \in Loops /\ (loop' = "dialing" <=> at'["again"] # "off")
    BY <1>1, <2>1, LoopAfterTypes
  <2>. QED
    BY <2>1, <2>2, GoesTypes DEF LinkTypes, States, Places
<1>2. CASE c \in Dialers /\ result # "auth_expired"
  <2>1. Goes(c, "dial") /\ UNCHANGED <<conn, loop, shutdown>>
    BY <1>2, GatewayAssumption DEF GoesOn, GatewayAssumption, Dialers
  <2>. QED
    BY <2>1, GoesTypes DEF LinkTypes, Places, Clients, Dialers
<1>3. CASE c \in Renewers
  <2>1. c # "again" /\ c \notin Dialers
    BY <1>3, GatewayAssumption DEF GatewayAssumption, Dialers
  <2>2. Goes(c, "off") /\ UNCHANGED shutdown
    BY <1>3, <2>1 DEF GoesOn
  <2>3. at' \in [Clients -> Places] /\ at'["again"] = at["again"]
    BY <2>1, <2>2, GoesTypes DEF Places, Clients, Dialers
  <2>4. UNCHANGED <<conn, loop>> \/ Reconnects
    BY <1>3, <2>1 DEF GoesOn, LinkTypes
  <2>. QED
    BY <2>2, <2>3, <2>4, ReconnectsTypes DEF LinkTypes
<1>. QED
  BY <1>1, <1>2, <1>3 DEF Clients

LEMMA TypeRefresh ==
  ASSUME TypeOK, NEW c \in Clients, Refresh(c)
  PROVE  TypeOK'
<1> USE Parts
<1>1. CASE TakeLock(c)
  <2>1. at' \in [Clients -> Places] /\ LinkTypes'
    <3>1. CASE Goes(c, "asking") /\ UNCHANGED <<conn, loop, shutdown>>
      BY <1>1, <3>1, GoesTypes DEF TakeLock, LinkTypes, Places, Clients, Dialers
    <3>2. CASE \E result \in {"ok", "auth_expired"} : GoesOn(c, result)
      BY <1>1, <3>2, GoesOnTypes DEF TakeLock
    <3>. QED
      BY <1>1, <3>1, <3>2 DEF TakeLock
  <2>. QED
    BY <1>1, <2>1, Kept, NextParts DEF TakeLock, TokenTypes
<1>2. CASE Renewed(c)
  <2>1. at' \in [Clients -> Places] /\ (at'["again"] # "off" <=> at["again"] # "off")
    BY <1>2, GoesTypes DEF Renewed, Places, Clients, Dialers
  <2>2. LinkTypes'
    BY <1>2, <2>1 DEF Renewed, LinkTypes, link
  <2>. QED
    BY <1>2, <2>1, <2>2, Kept, NextParts DEF Renewed, TokenTypes
<1>3. CASE NotRenewed(c)
  <2>1. at' \in [Clients -> Places] /\ LinkTypes'
    BY <1>3, GoesOnTypes DEF NotRenewed
  <2>. QED
    BY <1>3, <2>1, Kept, FaultTypes, NextParts DEF NotRenewed, TokenTypes
<1>4. CASE CalledBack(c)
  <2>1. at' \in [Clients -> Places] /\ LinkTypes'
    BY <1>4, GoesOnTypes DEF CalledBack, TokenTypes
  <2>. QED
    BY <1>4, <2>1, Kept, NextParts DEF CalledBack, TokenTypes
<1>. QED
  BY <1>1, <1>2, <1>3, <1>4 DEF Refresh

LEMMA StopTasksTypes ==
  ASSUME LinkTypes, TaskTypes, NetTypes, StopTasks
  PROVE  TaskTypes' /\ NetTypes' /\ ws' = NoSocket
<1>1. NetTypes'
  <2>1. CASE ws = NoSocket
    BY <2>1, Kept DEF StopTasks
  <2>2. CASE ws # NoSocket
    BY <2>2, DiesTypes DEF StopTasks, LinkTypes
  <2>. QED
    BY <2>1, <2>2
<1>. QED
  BY <1>1 DEF StopTasks, TaskTypes

\* The reconnect loop, the first connection and the orderly end.
LEMMA TypeLoop ==
  ASSUME TypeOK, Establish \/ Stop \/ Wake \/ CloseBegins \/ CloseEnds
  PROVE  TypeOK'
<1> USE Parts
<1>a. {"first", "again"} \subseteq Clients /\ {"waiting", "dial", "off"} \subseteq Places
  BY DEF Clients, Dialers, Places
<1>1. CASE Establish
  <2>1. at' \in [Clients -> Places] /\ at'["again"] = at["again"]
    BY <1>1, <1>a, GoesTypes DEF Establish, Begins
  <2>. QED
    BY <1>1, <2>1, Kept, NextParts DEF Establish, Begins, LinkTypes, TokenTypes, States
<1>2. CASE Stop
  <2>1. LinkTypes'
    BY <1>2, StopTasksTypes DEF Stop, LinkTypes, Loops, token
  <2>. QED
    BY <1>2, <2>1, StopTasksTypes, Kept, NextParts DEF Stop
<1>3. CASE Wake
  <2>1. CASE shutdown
    BY <1>3, <2>1, Kept, NextParts DEF Wake, LinkTypes, TokenTypes, Loops
  <2>2. CASE ~shutdown
    <3>1. at' \in [Clients -> Places] /\ at'["again"] # "off"
      BY <1>3, <2>2, <1>a, GoesTypes DEF Wake, Begins
    <3>. QED
      BY <1>3, <2>2, <3>1, Kept, NextParts
      DEF Wake, Begins, LinkTypes, TokenTypes, Loops, States
  <2>. QED
    BY <2>1, <2>2
<1>4. CASE CloseBegins
  BY <1>4, Kept, NextParts DEF CloseBegins, LinkTypes, token
<1>5. CASE CloseEnds
  <2>1. FrameTypes'
    BY <1>5, GatewayAssumption DEF CloseEnds, FrameTypes, Fates, GatewayAssumption
  <2>2. LinkTypes'
    BY <1>5, StopTasksTypes DEF CloseEnds, LinkTypes, States, token
  <2>. QED
    BY <1>5, <2>1, <2>2, StopTasksTypes, Kept, NextParts DEF CloseEnds
<1>. QED
  BY <1>1, <1>2, <1>3, <1>4, <1>5

LEMMA TypeNet ==
  ASSUME TypeOK, TokenExpires \/ \E s \in Sockets : Drop(s) \/ Replaced(s)
  PROVE  TypeOK'
<1> USE Parts
<1>1. CASE TokenExpires
  BY <1>1, Kept, FaultTypes, NextParts DEF TokenExpires, TokenTypes, link
<1>2. ASSUME NEW s \in Sockets, Drop(s)
      PROVE  TypeOK'
  BY <1>2, Kept, DiesTypes, FaultTypes, NextParts DEF Drop, token
<1>3. ASSUME NEW s \in Sockets, Replaced(s)
      PROVE  TypeOK'
  BY <1>3, Kept, DiesTypes, NextParts DEF Replaced, token
<1>. QED
  BY <1>1, <1>2, <1>3

LEMMA TypeInductive == TypeOK /\ [Next]_vars => TypeOK'
<1> SUFFICES ASSUME TypeOK, [Next]_vars
             PROVE  TypeOK'
  OBVIOUS
<1>1. CASE UNCHANGED vars
  <2>1. UNCHANGED <<link, at>> /\ UNCHANGED token /\ UNCHANGED tasks /\ UNCHANGED frames
          /\ UNCHANGED net /\ UNCHANGED <<stuck, faults>>
    BY <1>1 DEF vars, token
  <2>2. LinkTypes' /\ TokenTypes' /\ TaskTypes' /\ FrameTypes' /\ NetTypes'
    BY <2>1, Parts, Kept
  <2>. QED
    BY <2>1, <2>2, Parts, NextParts
<1>2. CASE \E d \in Dialers : Flush(d) \/ Flushed(d)
  BY <1>2, TypeFlush
<1>3. CASE Waits
  <2>1. CASE \E m \in Messages :
              Send(m) \/ SendEnds(m) \/ SendCancelled(m) \/ Retry(m) \/ Expire(m)
    BY <2>1, TypeSending
  <2>2. CASE \E s \in Sockets : \/ ReceiveEnds(s) \/ TimersEnd(s)
                               \/ \E m \in Messages : ReceiveAck(m, s)
    BY <2>2, TypeIncoming
  <2>3. CASE TokenExpires \/ \E s \in Sockets : Drop(s) \/ Replaced(s)
    BY <2>3, TypeNet
  <2>4. CASE Inactive
    BY <2>4, TypeInactive
  <2>5. CASE Establish \/ Stop \/ Wake \/ CloseBegins \/ CloseEnds
    BY <2>5, TypeLoop
  <2>6. CASE \E d \in Dialers : Dial(d)
    BY <2>6, TypeDial
  <2>7. CASE \E c \in Clients : Refresh(c)
    BY <2>7, TypeRefresh
  <2>. QED
    BY <1>3, <2>1, <2>2, <2>3, <2>4, <2>5, <2>6, <2>7 DEF Waits
<1>. QED
  BY <1>1, <1>2, <1>3 DEF Next

LEMMA InitTypes == Init => TypeOK
<1> SUFFICES ASSUME Init
             PROVE  TypeOK
  OBVIOUS
<1>1. LinkTypes /\ TokenTypes
  BY DEF Init, LinkTypes, TokenTypes, States, Loops, Places, Clients, Dialers
<1>2. FrameTypes
  <2>1. queue \in Seq(Messages) /\ Len(queue) = 0
    BY DEF Init
  <2>2. tries \in [Messages -> 0..MaxRetries]
    BY GatewayAssumption DEF Init, GatewayAssumption
  <2>3. hand \in [Messages -> {"none", "app"} \cup Dialers]
    BY DEF Init
  <2>4. MaxQueue \in Nat
    BY GatewayAssumption DEF GatewayAssumption
  <2>. QED
    BY <2>1, <2>2, <2>3, <2>4 DEF Init, FrameTypes, Fates
<1>3. TaskTypes /\ NetTypes /\ stuck \in BOOLEAN /\ faults \in 0..MaxFaults
  <2>1. faults \in 0..MaxFaults
    BY GatewayAssumption DEF Init, GatewayAssumption
  <2>. QED
    BY <2>1 DEF Init, TaskTypes, NetTypes
<1>. QED
  BY <1>1, <1>2, <1>3, Parts

\* The types of GatewayLink hold always, the bound of the queue among them:
\* with _enqueue_outbound it never holds more than outbound_queue_max_size.
THEOREM TypeCorrect == Spec => []TypeOK
<1>. QED
  BY InitTypes, TypeInductive, PTL DEF Spec

-----------------------------------------------------------------------------
(* A frame is in one place.  The queue is read by position, so the lemmas  *)
(* say first what an append and a removal do to what it holds.             *)

Placed(m) ==
  /\ m \in given =>
       InQueue(m) \/ hand[m] # "none" \/ m \in pending \/ done[m] # "none"
  /\ InQueue(m) => hand[m] = "none" /\ m \notin pending /\ done[m] = "none"
  /\ hand[m] # "none" => m \notin pending /\ done[m] = "none"
  /\ m \in pending => done[m] = "none"
  /\ m \notin given =>
       ~InQueue(m) /\ hand[m] = "none" /\ m \notin pending /\ done[m] = "none"

LEMMA OnePlaceParts ==
  /\ OnePlace <=> QueuedOnce /\ \A m \in Messages : Placed(m)
  /\ OnePlace' <=> QueuedOnce' /\ \A m \in Messages : Placed(m)'
BY DEF OnePlace, Placed

\* Without its head a queue of distinct frames holds the others.
LEMMA TailHolds ==
  ASSUME queue \in Seq(Messages), queue # <<>>, QueuedOnce
  PROVE  /\ Tail(queue) \in Seq(Messages)
         /\ \A i, j \in DOMAIN Tail(queue) : Tail(queue)[i] = Tail(queue)[j] => i = j
         /\ \A n : (\E i \in DOMAIN Tail(queue) : Tail(queue)[i] = n)
                     <=> InQueue(n) /\ n # Head(queue)
<1>1. /\ Tail(queue) \in Seq(Messages)
      /\ DOMAIN Tail(queue) = 1..(Len(queue) - 1)
      /\ DOMAIN queue = 1..Len(queue) /\ Len(queue) \in Nat /\ Len(queue) > 0
      /\ \A i \in 1..(Len(queue) - 1) : Tail(queue)[i] = queue[i + 1]
      /\ Head(queue) = queue[1]
  OBVIOUS
<1>2. \A i, j \in DOMAIN Tail(queue) : Tail(queue)[i] = Tail(queue)[j] => i = j
  <2> SUFFICES ASSUME NEW i \in DOMAIN Tail(queue), NEW j \in DOMAIN Tail(queue),
                      Tail(queue)[i] = Tail(queue)[j]
               PROVE  i = j
    OBVIOUS
  <2>1. i + 1 \in DOMAIN queue /\ j + 1 \in DOMAIN queue /\ queue[i + 1] = queue[j + 1]
    BY <1>1
  <2>2. i + 1 = j + 1
    BY <2>1 DEF QueuedOnce
  <2>. QED
    BY <1>1, <2>2
<1>3. ASSUME NEW n
      PROVE  (\E i \in DOMAIN Tail(queue) : Tail(queue)[i] = n)
               <=> InQueue(n) /\ n # Head(queue)
  <2>1. ASSUME NEW i \in DOMAIN Tail(queue), Tail(queue)[i] = n
        PROVE  InQueue(n) /\ n # Head(queue)
    <3>1. i + 1 \in DOMAIN queue /\ queue[i + 1] = n /\ 1 \in DOMAIN queue /\ i + 1 # 1
      BY <1>1, <2>1
    <3>. QED
      BY <1>1, <3>1 DEF QueuedOnce, InQueue
  <2>2. ASSUME InQueue(n), n # Head(queue)
        PROVE  \E i \in DOMAIN Tail(queue) : Tail(queue)[i] = n
    <3>1. PICK i \in DOMAIN queue : queue[i] = n
      BY <2>2 DEF InQueue
    <3>2. i - 1 \in DOMAIN Tail(queue) /\ Tail(queue)[i - 1] = queue[i]
      BY <1>1, <2>2, <3>1
    <3>. QED
      BY <3>1, <3>2
  <2>. QED
    BY <2>1, <2>2
<1>. QED
  BY <1>1, <1>2, <1>3

\* A frame that is not in a queue of distinct ones can be appended to it.
LEMMA AppendHolds ==
  ASSUME NEW q \in Seq(Messages), NEW m \in Messages,
         \A i, j \in DOMAIN q : q[i] = q[j] => i = j,
         \A i \in DOMAIN q : q[i] # m,
         queue' = Append(q, m)
  PROVE  /\ QueuedOnce'
         /\ \A n : InQueue(n)' <=> n = m \/ \E i \in DOMAIN q : q[i] = n
<1>1. /\ DOMAIN queue' = 1..(Len(q) + 1) /\ DOMAIN q = 1..Len(q) /\ Len(q) \in Nat
      /\ \A i \in 1..Len(q) : queue'[i] = q[i]
      /\ queue'[Len(q) + 1] = m
  OBVIOUS
<1>2. \A i \in DOMAIN queue' : i \in DOMAIN q \/ i = Len(q) + 1
  BY <1>1
<1>. QED
  BY <1>1, <1>2 DEF QueuedOnce, InQueue

\* What the queue holds after _enqueue_outbound, and who was evicted.
LEMMA EnqueueHolds ==
  ASSUME TypeOK, QueuedOnce, NEW m \in Messages, ~InQueue(m), Enqueue(m)
  PROVE  /\ QueuedOnce'
         /\ InQueue(m)'
         /\ \/ /\ \A n \in Messages : InQueue(n)' <=> n = m \/ InQueue(n)
               /\ done' = done
            \/ \E h \in Messages :
                 /\ InQueue(h)
                 /\ \A n \in Messages : InQueue(n)' <=> n = m \/ (InQueue(n) /\ n # h)
                 /\ done' = [done EXCEPT ![h] = "evicted"]
<1>0. queue \in Seq(Messages)
  BY DEF TypeOK
<1>1. CASE Len(queue) < MaxQueue
  <2>1. queue' = Append(queue, m) /\ done' = done
    BY <1>1 DEF Enqueue
  <2>2. QueuedOnce' /\ \A n : InQueue(n)' <=> n = m \/ \E i \in DOMAIN queue : queue[i] = n
    BY <1>0, <2>1, AppendHolds DEF QueuedOnce, InQueue
  <2>. QED
    BY <2>1, <2>2 DEF InQueue
<1>2. CASE ~(Len(queue) < MaxQueue)
  <2>1. queue # <<>>
    BY <1>2, GatewayAssumption DEF TypeOK, GatewayAssumption
  <2>2. Head(queue) \in Messages /\ InQueue(Head(queue))
    <3>1. 1 \in DOMAIN queue /\ Head(queue) = queue[1] /\ queue[1] \in Messages
      BY <1>0, <2>1
    <3>. QED
      BY <3>1 DEF InQueue
  <2>3. queue' = Append(Tail(queue), m) /\ done' = [done EXCEPT ![Head(queue)] = "evicted"]
    BY <1>2 DEF Enqueue
  <2>4. /\ Tail(queue) \in Seq(Messages)
        /\ \A i, j \in DOMAIN Tail(queue) : Tail(queue)[i] = Tail(queue)[j] => i = j
        /\ \A n : (\E i \in DOMAIN Tail(queue) : Tail(queue)[i] = n)
                    <=> InQueue(n) /\ n # Head(queue)
    BY <1>0, <2>1, TailHolds
  <2>5. \A i \in DOMAIN Tail(queue) : Tail(queue)[i] # m
    BY <2>4
  <2>6. /\ QueuedOnce'
        /\ \A n : InQueue(n)' <=> n = m \/ \E i \in DOMAIN Tail(queue) : Tail(queue)[i] = n
    BY <2>3, <2>4, <2>5, AppendHolds
  <2>. QED
    BY <2>2, <2>3, <2>4, <2>6
<1>. QED
  BY <1>1, <1>2

\* A frame that comes back to the queue, be it new or one whose send failed.
LEMMA EnqueuePlaces ==
  ASSUME TypeOK, OnePlace, NEW m \in Messages, ~InQueue(m), Enqueue(m),
         m \notin pending, done[m] = "none",
         hand' = [hand EXCEPT ![m] = "none"], given' = given \cup {m},
         UNCHANGED pending
  PROVE  OnePlace'
<1>1. QueuedOnce /\ \A n \in Messages : Placed(n)
  BY OnePlaceParts
<1>2. /\ \A n \in Messages : hand'[n] = IF n = m THEN "none" ELSE hand[n]
      /\ \A n \in Messages : n \in given' <=> n = m \/ n \in given
  BY DEF TypeOK
<1>3. QueuedOnce' /\ InQueue(m)'
  BY <1>1, EnqueueHolds
<1>4. CASE /\ \A n \in Messages : InQueue(n)' <=> n = m \/ InQueue(n)
           /\ done' = done
  BY <1>1, <1>2, <1>3, <1>4, OnePlaceParts DEF Placed
<1>5. CASE \E h \in Messages :
             /\ InQueue(h)
             /\ \A n \in Messages : InQueue(n)' <=> n = m \/ (InQueue(n) /\ n # h)
             /\ done' = [done EXCEPT ![h] = "evicted"]
  <2>1. PICK h \in Messages :
             /\ InQueue(h)
             /\ \A n \in Messages : InQueue(n)' <=> n = m \/ (InQueue(n) /\ n # h)
             /\ done' = [done EXCEPT ![h] = "evicted"]
    BY <1>5
  <2>2. h # m /\ \A n \in Messages : done'[n] = IF n = h THEN "evicted" ELSE done[n]
    BY <2>1 DEF TypeOK
  <2>. QED
    BY <1>1, <1>2, <1>3, <2>1, <2>2, OnePlaceParts DEF Placed
<1>. QED
  BY <1>1, <1>4, <1>5, EnqueueHolds

\* One frame changes its place, and the queue stays.
LEMMA MovePlaces ==
  ASSUME TypeOK, OnePlace, NEW m \in Messages, UNCHANGED queue, m \in given',
         \A n \in Messages \ {m} :
           /\ hand'[n] = hand[n] /\ done'[n] = done[n]
           /\ n \in pending' <=> n \in pending
           /\ n \in given' <=> n \in given,
         \/ ~InQueue(m) /\ m \in pending' /\ hand'[m] = "none" /\ done'[m] = "none"
         \/ ~InQueue(m) /\ m \notin pending' /\ hand'[m] # "none" /\ done'[m] = "none"
         \/ ~InQueue(m) /\ m \notin pending' /\ hand'[m] = "none" /\ done'[m] # "none"
  PROVE  OnePlace'
<1>1. QueuedOnce' /\ \A n : InQueue(n)' <=> InQueue(n)
  BY OnePlaceParts DEF QueuedOnce, InQueue
<1>2. \A n \in Messages : Placed(n)'
  BY <1>1, OnePlaceParts DEF Placed
<1>. QED
  BY <1>1, <1>2, OnePlaceParts

LEMMA PlaceSending ==
  ASSUME TypeOK, OnePlace, NEW m \in Messages,
         Send(m) \/ SendEnds(m) \/ SendCancelled(m) \/ Retry(m) \/ Expire(m)
  PROVE  OnePlace'
<1>0. Placed(m)
  BY OnePlaceParts
<1>1. CASE Send(m)
  <2>1. m \notin pending /\ hand[m] = "none" /\ done[m] = "none" /\ ~InQueue(m)
    BY <1>0, <1>1 DEF Send, Placed
  <2>2. CASE Sendable /\ StartsSending(m, "app") /\ UNCHANGED <<queue, done>>
    <3>1. /\ hand' = [hand EXCEPT ![m] = "app"] /\ given' = given \cup {m}
          /\ UNCHANGED <<queue, done, pending>>
      BY <1>1, <2>2 DEF Send, StartsSending
    <3>. QED
      BY <2>1, <3>1, MovePlaces DEF TypeOK
  <2>3. CASE Enqueue(m) /\ UNCHANGED <<hand, on, wire>>
    <3>1. hand' = [hand EXCEPT ![m] = "none"]
      BY <2>1, <2>3 DEF TypeOK
    <3>. QED
      BY <1>1, <2>1, <2>3, <3>1, EnqueuePlaces DEF Send
  <2>. QED
    BY <1>1, <2>2, <2>3 DEF Send
<1>2. CASE SendEnds(m)
  <2>1. m \notin pending /\ done[m] = "none" /\ ~InQueue(m) /\ m \in given
    BY <1>0, <1>2 DEF SendEnds, Placed
  <2>2. CASE on[m] \in open
    <3>1. /\ hand' = [hand EXCEPT ![m] = "none"] /\ pending' = pending \cup {m}
          /\ UNCHANGED <<queue, done, given>>
      BY <1>2, <2>2 DEF SendEnds
    <3>. QED
      BY <2>1, <3>1, MovePlaces DEF TypeOK
  <2>3. CASE on[m] \notin open
    <3>1. /\ hand' = [hand EXCEPT ![m] = "none"] /\ Enqueue(m)
          /\ UNCHANGED <<pending, given>>
      BY <1>2, <2>3 DEF SendEnds
    <3>2. given' = given \cup {m}
      BY <2>1, <3>1
    <3>. QED
      BY <2>1, <3>1, <3>2, EnqueuePlaces
  <2>. QED
    BY <2>2, <2>3
<1>3. CASE Retry(m)
  BY <1>3 DEF Retry, OnePlace, QueuedOnce, InQueue
<1>4. CASE Expire(m)
  <2>1. m \in pending /\ hand[m] = "none" /\ ~InQueue(m) /\ m \in given
    BY <1>0, <1>4 DEF Expire, Placed
  <2>2. /\ pending' = pending \ {m} /\ done' = [done EXCEPT ![m] = "failed"]
        /\ UNCHANGED <<queue, hand, given>>
    BY <1>4 DEF Expire, Forgets
  <2>. QED
    BY <2>1, <2>2, MovePlaces DEF TypeOK
<1>5. CASE SendCancelled(m)
  <2>1. m \notin pending /\ ~InQueue(m) /\ m \in given
    BY <1>0, <1>5 DEF SendCancelled, Placed
  <2>2. /\ hand' = [hand EXCEPT ![m] = "none"] /\ done' = [done EXCEPT ![m] = "dropped"]
        /\ UNCHANGED <<queue, pending, given>>
    BY <1>5 DEF SendCancelled
  <2>. QED
    BY <2>1, <2>2, MovePlaces DEF TypeOK
<1>. QED
  BY <1>1, <1>2, <1>3, <1>4, <1>5

\* Nothing moves.
LEMMA PlaceKept ==
  OnePlace /\ UNCHANGED <<queue, pending, hand, given, done>> => OnePlace'
BY DEF OnePlace, QueuedOnce, InQueue

LEMMA PlaceAck ==
  ASSUME TypeOK, OnePlace, NEW m \in Messages, NEW s \in Sockets, ReceiveAck(m, s)
  PROVE  OnePlace'
<1>1. CASE UNCHANGED <<pending, done>>
  BY <1>1, PlaceKept DEF ReceiveAck
<1>2. CASE m \in pending /\ Forgets(m) /\ done' = [done EXCEPT ![m] = "acked"]
  <2>1. hand[m] = "none" /\ ~InQueue(m) /\ m \in given
    BY <1>2, OnePlaceParts DEF Placed
  <2>2. pending' = pending \ {m} /\ UNCHANGED <<queue, hand, given>>
    BY <1>2 DEF ReceiveAck, Forgets
  <2>. QED
    BY <1>2, <2>1, <2>2, MovePlaces DEF TypeOK
<1>. QED
  BY <1>1, <1>2 DEF ReceiveAck

LEMMA PlaceFlush ==
  ASSUME TypeOK, OnePlace, NEW d \in Dialers, Flush(d)
  PROVE  OnePlace'
<1>1. CASE UNCHANGED <<queue, hand>>
  BY <1>1, PlaceKept DEF Flush
<1>2. CASE StartsSending(Head(queue), d) /\ queue' = Tail(queue)
  <2>0. queue \in Seq(Messages) /\ queue # <<>> /\ QueuedOnce
    BY <1>2 DEF Flush, TypeOK, OnePlace
  <2>1. Head(queue) \in Messages /\ InQueue(Head(queue))
    <3>1. 1 \in DOMAIN queue /\ Head(queue) = queue[1] /\ queue[1] \in Messages
      BY <2>0
    <3>. QED
      BY <3>1 DEF InQueue
  <2>2. /\ \A i, j \in DOMAIN Tail(queue) : Tail(queue)[i] = Tail(queue)[j] => i = j
        /\ \A n : (\E i \in DOMAIN Tail(queue) : Tail(queue)[i] = n)
                    <=> InQueue(n) /\ n # Head(queue)
    BY <2>0, TailHolds
  <2>3. QueuedOnce' /\ \A n : InQueue(n)' <=> InQueue(n) /\ n # Head(queue)
    BY <1>2, <2>2 DEF QueuedOnce, InQueue
  <2>4. /\ \A n \in Messages : hand'[n] = IF n = Head(queue) THEN d ELSE hand[n]
        /\ d # "none"
    BY <1>2 DEF StartsSending, TypeOK, Dialers
  <2>5. UNCHANGED <<pending, given, done>>
    BY <1>2 DEF Flush
  <2>6. \A n \in Messages : Placed(n)'
    BY <2>1, <2>3, <2>4, <2>5, OnePlaceParts DEF Placed
  <2>. QED
    BY <2>3, <2>6, OnePlaceParts
<1>. QED
  BY <1>1, <1>2 DEF Flush

LEMMA PlaceClose ==
  ASSUME TypeOK, OnePlace, CloseEnds
  PROVE  OnePlace'
<1>1. QueuedOnce' /\ \A n : ~InQueue(n)'
  BY DEF CloseEnds, QueuedOnce, InQueue
<1>2. /\ pending' = {} /\ UNCHANGED <<hand, given>>
      /\ \A m \in Messages : done'[m] = IF m \in pending \/ InQueue(m) THEN "cleared"
                                        ELSE done[m]
  BY DEF CloseEnds
<1>3. \A m \in Messages : Placed(m)'
  BY <1>1, <1>2, OnePlaceParts DEF Placed
<1>. QED
  BY <1>1, <1>3, OnePlaceParts

LEMMA PlaceInductive == TypeOK /\ OnePlace /\ [Next]_vars => OnePlace'
<1> SUFFICES ASSUME TypeOK, OnePlace, [Next]_vars
             PROVE  OnePlace'
  OBVIOUS
<1>1. CASE UNCHANGED vars
  BY <1>1, PlaceKept DEF vars, frames
<1>2. CASE \E d \in Dialers : Flush(d) \/ Flushed(d)
  BY <1>2, PlaceFlush, PlaceKept DEF Flushed, frames
<1>3. CASE Waits
  <2>1. CASE \E m \in Messages :
              Send(m) \/ SendEnds(m) \/ SendCancelled(m) \/ Retry(m) \/ Expire(m)
    BY <2>1, PlaceSending
  <2>2. CASE \E s \in Sockets : \E m \in Messages : ReceiveAck(m, s)
    BY <2>2, PlaceAck
  <2>3. CASE \E s \in Sockets : ReceiveEnds(s) \/ TimersEnd(s) \/ Drop(s) \/ Replaced(s)
    BY <2>3, PlaceKept DEF ReceiveEnds, TimersEnd, Drop, Replaced, frames
  <2>4. CASE CloseEnds
    BY <2>4, PlaceClose
  <2>5. CASE Establish \/ Stop \/ Wake \/ CloseBegins \/ Inactive \/ TokenExpires
    BY <2>5, PlaceKept
    DEF Establish, Stop, Wake, CloseBegins, Inactive, TokenExpires, frames
  <2>6. CASE \E d \in Dialers : Dial(d)
    BY <2>6, PlaceKept DEF Dial, DialSucceeds, DialFails, DialRefused, frames
  <2>7. CASE \E c \in Clients : Refresh(c)
    BY <2>7, PlaceKept DEF Refresh, TakeLock, Renewed, NotRenewed, CalledBack, frames
  <2>. QED
    BY <1>3, <2>1, <2>2, <2>3, <2>4, <2>5, <2>6, <2>7 DEF Waits
<1>. QED
  BY <1>1, <1>2, <1>3 DEF Next

\* A frame handed over is in exactly one of the places the code keeps it in, or
\* at its end (OnePlace), in every behaviour of the gateway; a cancelled sender is
\* such an end.
THEOREM FramesAreKept == Spec => []OnePlace
<1>1. Init => OnePlace
  BY DEF Init, OnePlace, QueuedOnce, InQueue
<1>. QED
  BY <1>1, InitTypes, TypeInductive, PlaceInductive, PTL DEF Spec

-----------------------------------------------------------------------------
(* The link comes back: whatever is lost, refused or replaced, as long as  *)
(* the gateway has not given up some task of it will take the next step    *)
(* for a frame that is not settled.                                        *)

\* A connection is lost and its receive loop has yet to notice.
Unnoticed == \E s \in receivers : s \notin open

\* A frame is being sent on a connection that is lost.
Lost(m) == hand[m] # "none" /\ on[m] \notin open

\* One task at a time renews the token, and none asks with one that is spent.
TokenInv ==
  /\ \A c \in Clients : at[c] = "asking" => expired /\ ~spent
  /\ \A c \in Clients : at[c] = "told" /\ outcome[c] = "auth_expired" => expired /\ spent
  /\ \A c, d \in Clients : {at[c], at[d]} \subseteq {"asking", "told"} => c = d
  /\ \A r \in Renewers : at[r] \notin {"dial", "flush"}

\* Until the first connection there is nothing but its dialer.
Unconnected == {"new", "waiting", "asking", "told", "dial"}

FirstInv ==
  at["first"] \in Unconnected =>
    /\ loop = "off" /\ receivers = {} /\ timers = {}
    /\ \A r \in Renewers : at[r] = "off"

SocketInv ==
  /\ latest = ws
  /\ open \subseteq receivers
  /\ closing = "no"
  /\ loop = "stopping" => conn # "connected"

\* While the gateway takes itself for connected, its timers run, the receive
\* loop of a lost connection on which a frame is being sent has yet to notice,
\* and frames are in the queue only if some receive loop has yet to notice or
\* the queue is being flushed.
ConnectedInv ==
  conn = "connected" =>
    /\ ws \in timers /\ ws \in receivers
    /\ \A m \in Messages : Lost(m) => on[m] \in receivers
    /\ queue # <<>> => Unnoticed \/ \E d \in Dialers : at[d] = "flush"

\* Nobody at work on the connection means that it is there.
Quiet == loop = "off" /\ at["first"] \notin Unconnected /\ \A r \in Renewers : at[r] = "off"

QuietInv == Quiet /\ ~(expired /\ spent) => conn = "connected"

AliveInv == TokenInv /\ FirstInv /\ SocketInv /\ ConnectedInv /\ QuietInv

LinkInv == ~shutdown => AliveInv

\* Only the event loop, the network or the relay keeps c from its next step.
MayStep(c) ==
  \/ at[c] \in {"new", "asking", "told"}
  \/ at[c] = "waiting" /\ LockFree
  \/ at[c] = "dial" /\ \A m \in Messages : ~Lost(m)
  \/ at[c] = "flush" /\ c \in Dialers /\ FlushedBy(c) = {}

LoopMayStep ==
  \/ loop = "stopping"
  \/ loop = "sleeping" /\ (LockFree => \A r \in Renewers : at[r] # "waiting")

\* A frame that is not settled is being sent, has a timer, or waits for a link
\* that somebody is about to bring back.
FramesGoOn ==
  ~stuck /\ ~GivenUp =>
    \A m \in given :
      done[m] = "none" =>
        \/ \E n \in Messages : hand[n] # "none"
        \/ m \in pending /\ timers # {}
        \/ Unnoticed
        \/ LoopMayStep
        \/ \E c \in Clients : MayStep(c)

LEMMA LinkInvGoesOn == TypeOK /\ OnePlace /\ LinkInv => FramesGoOn
<1> SUFFICES ASSUME TypeOK, OnePlace, LinkInv, ~GivenUp,
                    NEW m \in given, done[m] = "none",
                    \A n \in Messages : hand[n] = "none",
                    ~(m \in pending /\ timers # {}), ~Unnoticed, ~LoopMayStep,
                    \A c \in Clients : ~MayStep(c)
             PROVE  FALSE
  BY DEF FramesGoOn
<1>1. AliveInv /\ ~(expired /\ spent)
  BY DEF LinkInv, GivenUp
<1>2. m \in Messages /\ (InQueue(m) \/ m \in pending)
  BY DEF TypeOK, OnePlace
<1>3. ASSUME NEW c \in Clients
      PROVE  at[c] = "off"
  <2>1. at[c] \in {"off", "waiting"}
    <3>1. at[c] # "dial"
      BY DEF MayStep, Lost
    <3>2. at[c] # "flush"
      BY <1>1 DEF MayStep, FlushedBy, Clients, Dialers, AliveInv, TokenInv
    <3>. QED
      BY <3>1, <3>2 DEF TypeOK, MayStep
  <2>2. LockFree
    BY DEF LockFree, MayStep
  <2>. QED
    BY <2>1, <2>2 DEF MayStep
<1>4. loop = "off"
  <2>1. loop # "dialing"
    BY <1>3 DEF TypeOK, Clients, Dialers
  <2>2. \A r \in Renewers : at[r] = "off"
    BY <1>3 DEF Clients
  <2>. QED
    BY <2>1, <2>2 DEF TypeOK, LoopMayStep
<1>5. conn = "connected"
  <2>1. at["first"] = "off" /\ \A r \in Renewers : at[r] = "off"
    BY <1>3 DEF Clients, Dialers
  <2>. QED
    BY <1>1, <1>4, <2>1 DEF AliveInv, QuietInv, Quiet, Unconnected
<1>6. ws \in timers /\ queue = <<>>
  BY <1>1, <1>3, <1>5 DEF AliveInv, ConnectedInv, Clients
<1>7. ~InQueue(m)
  BY <1>6 DEF InQueue
<1>. QED
  BY <1>2, <1>6, <1>7

\* What the invariant needs of a step that leaves the tasks alone.
LEMMA LinkKept ==
  ASSUME AliveInv, UNCHANGED <<link, token, tasks>>,
         conn = "connected" =>
           /\ \A m \in Messages : Lost(m)' => on'[m] \in receivers
           /\ queue' # <<>> => Unnoticed' \/ \E d \in Dialers : at[d] = "flush",
         open' \subseteq open
  PROVE  AliveInv'
<1>1. TokenInv'
  BY DEF AliveInv, TokenInv, token
<1>2. FirstInv'
  BY DEF AliveInv, FirstInv, link, token, tasks
<1>3. SocketInv'
  BY DEF AliveInv, SocketInv, link, tasks
<1>4. ConnectedInv'
  BY DEF AliveInv, ConnectedInv, link, token, tasks
<1>5. QuietInv'
  BY DEF AliveInv, QuietInv, Quiet, link, token
<1>. QED
  BY <1>1, <1>2, <1>3, <1>4, <1>5 DEF AliveInv

LEMMA LinkSending ==
  ASSUME TypeOK, AliveInv, NEW m \in Messages, Send(m) \/ SendEnds(m) \/ SendCancelled(m)
  PROVE  AliveInv'
<1>1. UNCHANGED <<link, token, tasks, open>>
  BY DEF Send, SendEnds, SendCancelled, net
<1>2. UNCHANGED <<conn, ws, receivers, open>>
  BY <1>1 DEF link, tasks
<1>3. Unnoticed' <=> Unnoticed
  BY <1>2 DEF Unnoticed
<1>4. ASSUME conn = "connected"
      PROVE  /\ \A n \in Messages : Lost(n)' => on'[n] \in receivers
             /\ queue' # <<>> => Unnoticed' \/ \E d \in Dialers : at[d] = "flush"
  <2>1. /\ ws \in receivers /\ ws # NoSocket
        /\ \A n \in Messages : Lost(n) => on[n] \in receivers
        /\ queue # <<>> => Unnoticed \/ \E d \in Dialers : at[d] = "flush"
    BY <1>4, GatewayAssumption DEF AliveInv, ConnectedInv, TypeOK, GatewayAssumption
  <2>2. CASE Send(m)
    <3>1. /\ hand' = [hand EXCEPT ![m] = "app"] /\ on' = [on EXCEPT ![m] = ws]
          /\ queue' = queue
      BY <1>4, <2>1, <2>2 DEF Send, Sendable, StartsSending
    <3>. QED
      BY <1>2, <1>3, <2>1, <3>1 DEF Lost, TypeOK
  <2>3. CASE SendEnds(m)
    <3>1. /\ hand[m] # "none" /\ hand' = [hand EXCEPT ![m] = "none"]
          /\ on' = [on EXCEPT ![m] = NoSocket]
          /\ on[m] \in open => queue' = queue
      BY <2>3 DEF SendEnds
    <3>2. \A n \in Messages : Lost(n)' => on'[n] \in receivers
      BY <1>2, <2>1, <3>1 DEF Lost, TypeOK
    <3>3. on[m] \notin open => Unnoticed
      BY <2>1, <3>1 DEF Lost, Unnoticed
    <3>. QED
      BY <1>3, <2>1, <3>1, <3>2, <3>3
  <2>4. CASE SendCancelled(m)
    <3>1. /\ hand' = [hand EXCEPT ![m] = "none"] /\ on' = [on EXCEPT ![m] = NoSocket]
          /\ queue' = queue
      BY <2>4 DEF SendCancelled
    <3>2. \A n \in Messages : Lost(n)' => on'[n] \in receivers
      BY <1>2, <2>1, <3>1 DEF Lost, TypeOK
    <3>. QED
      BY <1>3, <2>1, <3>1, <3>2
  <2>. QED
    BY <2>2, <2>3, <2>4
<1>. QED
  BY <1>1, <1>4, LinkKept

\* The other steps of a frame: retries, acknowledgements, and lost connections.
LEMMA LinkNet ==
  ASSUME TypeOK, AliveInv, ~shutdown,
         \/ \E m \in Messages : \/ Retry(m) \/ Expire(m)
                                \/ \E s \in Sockets : ReceiveAck(m, s)
         \/ \E s \in Sockets : Drop(s) \/ Replaced(s)
  PROVE  AliveInv'
<1>1. /\ UNCHANGED <<link, token, tasks, queue, hand, on>>
      /\ open' \subseteq open
  BY DEF Retry, Expire, ReceiveAck, Drop, Replaced, Dies, frames, net, tasks
<1>2. Unnoticed => Unnoticed'
  BY <1>1 DEF Unnoticed, tasks
<1>3. ASSUME conn = "connected", NEW m \in Messages, Lost(m)'
      PROVE  on'[m] \in receivers
  BY <1>1, <1>3 DEF Lost, AliveInv, ConnectedInv, SocketInv
<1>4. conn = "connected" /\ queue' # <<>> => Unnoticed' \/ \E d \in Dialers : at[d] = "flush"
  BY <1>1, <1>2 DEF AliveInv, ConnectedInv
<1>. QED
  BY <1>1, <1>3, <1>4, LinkKept

\* A task that begins to reconnect, or finds that another one does.
LEMMA LinkReconnects ==
  ASSUME TypeOK, AliveInv, ~shutdown, Reconnects, at["first"] \notin Unconnected,
         UNCHANGED <<ws, latest, closing, token>>, open' \subseteq receivers'
  PROVE  AliveInv'
<1>1. conn' # "connected" /\ loop' # "off"
  BY DEF Reconnects
<1>. QED
  BY <1>1 DEF AliveInv, TokenInv, FirstInv, SocketInv, ConnectedInv, QuietInv, Quiet, token

LEMMA LinkLosses ==
  ASSUME TypeOK, AliveInv, ~shutdown,
         Inactive \/ \E s \in Sockets : ReceiveEnds(s) \/ TimersEnd(s)
  PROVE  AliveInv'
<1>1. CASE Inactive
  <2>1. /\ Reconnects /\ timers # {} /\ UNCHANGED <<ws, latest, closing, token, receivers>>
        /\ open' \subseteq open
    BY <1>1 DEF Inactive, Dies, tasks
  <2>. QED
    BY <2>1, LinkReconnects DEF AliveInv, FirstInv, SocketInv
<1>2. ASSUME NEW s \in Sockets, ReceiveEnds(s)
      PROVE  AliveInv'
  <2>1. /\ Reconnects /\ receivers # {} /\ UNCHANGED <<ws, latest, closing, token, open>>
        /\ s \notin open /\ receivers' = receivers \ {s}
    BY <1>2 DEF ReceiveEnds, net
  <2>. QED
    BY <2>1, LinkReconnects DEF AliveInv, FirstInv, SocketInv
<1>. QED
  BY <1>1, <1>2 DEF TimersEnd

LEMMA DialerLoops ==
  ASSUME TypeOK, AliveInv, NEW d \in Dialers, at[d] \notin {"off", "new"}
  PROVE  /\ d = "first" /\ at[d] # "flush" => loop = "off"
         /\ d = "again" => loop = "dialing" /\ at["first"] \notin Unconnected
<1>1. at[d] \in Places /\ (at["again"] # "off" => loop = "dialing")
  BY DEF TypeOK, Places, Clients
<1>. QED
  BY <1>1 DEF AliveInv, FirstInv, Unconnected, Dialers, Places

LEMMA LinkDialed ==
  ASSUME TypeOK, AliveInv, ~shutdown, NEW d \in Dialers, DialSucceeds(d)
  PROVE  AliveInv'
<1> DEFINE s == CHOOSE s \in Sockets : Free(s)
<1>1. s \in Sockets
  BY DEF DialSucceeds
<1> HIDE DEF s
<1>2. /\ at[d] = "dial" /\ conn' = "connected"
      /\ \A m \in Messages : hand[m] = "none" \/ on[m] \in open
      /\ ws' = s /\ latest' = s /\ open' = open \cup {s}
      /\ receivers' = receivers \cup {s} /\ timers' = timers \cup {s}
      /\ UNCHANGED <<closing, outcome, expired, spent, queue, hand, on>>
  BY DEF DialSucceeds, s, frames
<1>3. \/ queue # <<>> /\ at' = [at EXCEPT ![d] = "flush"] /\ loop' = loop
      \/ queue = <<>> /\ at' = [at EXCEPT ![d] = "off"] /\ loop' = LoopAfter(d, "connected", shutdown)
  BY DEF DialSucceeds, Goes
<1>4. loop' \in {"off", "dialing"} /\ (d = "again" => at["first"] \notin Unconnected)
  BY <1>2, <1>3, DialerLoops DEF LoopAfter, Dialers
<1>5. /\ at \in [Clients -> Places] /\ d \in Clients /\ "first" \in Clients
      /\ Renewers \subseteq Clients /\ d \notin Renewers
  BY GatewayAssumption DEF GatewayAssumption, TypeOK, Places, Clients, Dialers
<1>6. TokenInv'
  BY <1>2, <1>3, <1>5 DEF AliveInv, TokenInv
<1>7. FirstInv'
  BY <1>3, <1>4, <1>5 DEF FirstInv, Unconnected, Dialers
<1>8. SocketInv'
  BY <1>2, <1>4 DEF AliveInv, SocketInv
<1>9. ConnectedInv'
  BY <1>2, <1>3, <1>5 DEF ConnectedInv, Lost
<1>10. QuietInv'
  BY <1>2 DEF QuietInv
<1>. QED
  BY <1>6, <1>7, <1>8, <1>9, <1>10 DEF AliveInv

\* The dialer leaves without a connection, and perhaps with a renewal begun.
LEMMA LinkUndialed ==
  ASSUME TypeOK, AliveInv, ~shutdown, NEW d \in Dialers, DialFails(d) \/ DialRefused(d)
  PROVE  AliveInv'
<1> USE GatewayAssumption DEF GatewayAssumption
<1>1. /\ at[d] = "dial" /\ conn' \in {"disconnected", "reconnecting"}
      /\ UNCHANGED <<ws, latest, closing, outcome, expired, spent, receivers, timers, open>>
  BY DEF DialFails, DialRefused, NotConnected, Reconnects, tasks, net
<1>2. at \in [Clients -> Places] /\ d \in Clients /\ "first" \in Clients /\ Renewers \subseteq Clients
  BY DEF TypeOK, Places, Clients, Dialers
<1>3. \/ at' = [at EXCEPT ![d] = "off"] /\ NotConnected(d)
      \/ \E r \in Renewers :
           /\ at' = [at EXCEPT ![d] = "off", ![r] = "waiting"]
           /\ loop' = LoopAfter(d, "disconnected", shutdown)
  BY DEF DialFails, DialRefused, Goes
<1>4. at'["first"] \notin Unconnected
  BY <1>1, <1>2, <1>3, DialerLoops DEF Unconnected, Dialers
<1>5. loop' # "off" \/ \E r \in Renewers : at'[r] # "off"
  <2>1. CASE NotConnected(d)
    BY <2>1 DEF NotConnected, Reconnects, LoopAfter
  <2>2. ASSUME NEW r \in Renewers, at' = [at EXCEPT ![d] = "off", ![r] = "waiting"]
        PROVE  at'[r] # "off"
    BY <1>2, <2>2
  <2>. QED
    BY <1>3, <2>1, <2>2
<1>6. TokenInv'
  BY <1>1, <1>2, <1>3 DEF AliveInv, TokenInv
<1>7. FirstInv' /\ QuietInv'
  BY <1>4, <1>5 DEF FirstInv, QuietInv, Quiet
<1>8. SocketInv' /\ ConnectedInv'
  BY <1>1 DEF AliveInv, SocketInv, ConnectedInv
<1>. QED
  BY <1>6, <1>7, <1>8 DEF AliveInv

LEMMA LinkFlush ==
  ASSUME TypeOK, AliveInv, ~shutdown, NEW d \in Dialers, Flush(d) \/ Flushed(d)
  PROVE  AliveInv'
<1>1. CASE Flush(d)
  <2>1. UNCHANGED <<link, token, tasks, open>> /\ at[d] = "flush"
    BY <1>1 DEF Flush
  <2>2. \/ UNCHANGED <<hand, on>>
        \/ /\ ws \in open
           /\ hand' = [hand EXCEPT ![Head(queue)] = d]
           /\ on' = [on EXCEPT ![Head(queue)] = ws]
    BY <1>1 DEF Flush, StartsSending
  <2>3. \A m \in Messages : Lost(m)' => Lost(m) /\ on'[m] = on[m]
    BY <2>1, <2>2 DEF Lost, TypeOK
  <2>4. conn = "connected" => \A m \in Messages : Lost(m)' => on'[m] \in receivers
    BY <2>3 DEF AliveInv, ConnectedInv
  <2>. QED
    BY <2>1, <2>4, LinkKept
<1>2. CASE Flushed(d)
  <2>1. /\ at[d] = "flush" /\ queue = <<>> /\ at' = [at EXCEPT ![d] = "off"]
        /\ loop' = LoopAfter(d, conn, shutdown)
        /\ UNCHANGED <<conn, ws, closing, outcome, expired, spent, receivers, timers, latest,
                       queue, hand, on, open>>
    BY <1>2 DEF Flushed, Goes, tasks, frames, net
  <2>2. at \in [Clients -> Places] /\ d \in Clients /\ "first" \in Clients
    BY DEF TypeOK, Places, Clients, Dialers
  <2>3. \/ d = "first" /\ loop' = loop
        \/ /\ d = "again" /\ at["first"] \notin Unconnected
           /\ loop' \in {"off", "sleeping"} /\ (loop' = "off" => conn = "connected")
    BY <2>1, DialerLoops DEF LoopAfter, Dialers
  <2>4. at'["first"] \in Unconnected <=> at["first"] \in Unconnected /\ d # "first"
    BY <2>1, <2>2 DEF Unconnected
  <2>5. \A r \in Renewers : at'[r] = at[r]
    BY <2>1, <2>2, GatewayAssumption DEF GatewayAssumption, Clients, Dialers
  <2>6. TokenInv'
    BY <2>1, <2>2 DEF AliveInv, TokenInv
  <2>7. FirstInv'
    BY <2>1, <2>3, <2>4, <2>5 DEF AliveInv, FirstInv
  <2>8. SocketInv'
    BY <2>1, <2>3 DEF AliveInv, SocketInv
  <2>9. ConnectedInv'
    BY <2>1 DEF AliveInv, ConnectedInv, Lost
  <2>10. QuietInv'
    BY <2>1, <2>2, <2>3, <2>4, <2>5 DEF AliveInv, QuietInv, Quiet, Unconnected
  <2>. QED
    BY <2>6, <2>7, <2>8, <2>9, <2>10 DEF AliveInv
<1>. QED
  BY <1>1, <1>2

\* What a task does with the outcome of the renewal, or without one.
LEMMA LinkGoesOn ==
  ASSUME TypeOK, AliveInv, ~shutdown, ~shutdown', NEW c \in Clients,
         at[c] \in {"waiting", "asking", "told"},
         NEW result \in {"ok", "auth_expired", "network_error"}, GoesOn(c, result),
         result = "auth_expired" => expired /\ spent,
         UNCHANGED <<ws, closing, expired, spent, tasks, open, queue, hand, on>>,
         \A e \in Clients \ {c} : outcome'[e] = outcome[e]
  PROVE  AliveInv'
<1> USE GatewayAssumption DEF GatewayAssumption
<1>1. at \in [Clients -> Places] /\ "first" \in Clients /\ Renewers \subseteq Clients
  BY DEF TypeOK, Places, Clients, Dialers
<1>2. UNCHANGED <<receivers, timers, latest>>
  BY DEF tasks
<1>3. CASE c \in Dialers
  <2>1. at' = [at EXCEPT ![c] = "dial"] /\ UNCHANGED <<conn, loop>>
    BY <1>3 DEF GoesOn, Goes, Dialers
  <2>2. TokenInv'
    BY <1>1, <1>3, <2>1 DEF AliveInv, TokenInv, Dialers
  <2>3. FirstInv'
    BY <1>1, <1>2, <1>3, <2>1 DEF AliveInv, FirstInv, Unconnected, Dialers
  <2>4. SocketInv'
    BY <1>2, <2>1 DEF AliveInv, SocketInv
  <2>5. ConnectedInv'
    <3>1. \A d \in Dialers : at[d] = "flush" => at'[d] = "flush"
      BY <1>1, <2>1 DEF Clients
    <3>2. Unnoticed' <=> Unnoticed
      BY <1>2 DEF Unnoticed
    <3>. QED
      BY <1>2, <2>1, <3>1, <3>2 DEF AliveInv, ConnectedInv, Lost
  <2>6. Quiet' => FALSE
    <3>1. CASE c = "first"
      BY <1>1, <2>1, <3>1 DEF Quiet, Unconnected
    <3>2. CASE c = "again"
      BY <2>1, <3>2 DEF Quiet, TypeOK
    <3>. QED
      BY <1>3, <3>1, <3>2 DEF Dialers
  <2>. QED
    BY <2>2, <2>3, <2>4, <2>5, <2>6 DEF AliveInv, QuietInv
<1>4. CASE c \in Renewers
  <2>1. at' = [at EXCEPT ![c] = "off"] /\ c \notin Dialers
    BY <1>4 DEF GoesOn, Goes, Dialers
  <2>2. at'["first"] = at["first"] /\ at["first"] \notin Unconnected
    BY <1>1, <1>4, <2>1 DEF AliveInv, FirstInv, Dialers
  <2>3. TokenInv'
    BY <1>1, <2>1 DEF AliveInv, TokenInv
  <2>4. FirstInv'
    BY <2>2 DEF FirstInv
  <2>5. CASE Reconnects
    <3>1. conn' # "connected" /\ loop' # "off"
      BY <2>5 DEF Reconnects
    <3>. QED
      BY <1>2, <2>3, <2>4, <3>1 DEF AliveInv, SocketInv, ConnectedInv, QuietInv, Quiet
  <2>6. CASE UNCHANGED <<conn, loop>> /\ (result = "auth_expired" \/ loop # "off")
    <3>1. SocketInv'
      BY <1>2, <2>6 DEF AliveInv, SocketInv
    <3>2. \A d \in Dialers : at'[d] = at[d]
      BY <1>1, <2>1 DEF Clients
    <3>3. Unnoticed' <=> Unnoticed
      BY <1>2 DEF Unnoticed
    <3>4. ConnectedInv'
      BY <1>2, <2>6, <3>2, <3>3 DEF AliveInv, ConnectedInv, Lost
    <3>5. QuietInv'
      BY <2>6 DEF QuietInv, Quiet
    <3>. QED
      BY <2>3, <2>4, <3>1, <3>4, <3>5 DEF AliveInv
  <2>7. \/ result = "auth_expired" /\ UNCHANGED <<conn, loop>>
        \/ result = "ok" /\ Reconnects
        \/ result = "network_error" /\ (Reconnects \/ (loop # "off" /\ UNCHANGED <<conn, loop>>))
    BY <2>1 DEF GoesOn
  <2>. QED
    BY <2>5, <2>6, <2>7
<1>. QED
  BY <1>3, <1>4 DEF Clients

LEMMA LinkRefresh ==
  ASSUME TypeOK, AliveInv, ~shutdown, ~shutdown', NEW c \in Clients, Refresh(c)
  PROVE  AliveInv'
<1>1. at \in [Clients -> Places] /\ "first" \in Clients /\ Dialers \subseteq Clients
        /\ Renewers \subseteq Clients
  BY DEF TypeOK, Places, Clients, Dialers
<1>2. ASSUME NEW result \in {"ok", "auth_expired", "network_error"}, GoesOn(c, result),
             result = "auth_expired" => expired /\ spent,
             TakeLock(c) \/ NotRenewed(c) \/ CalledBack(c)
      PROVE  AliveInv'
  <2>1. /\ at[c] \in {"waiting", "asking", "told"}
        /\ UNCHANGED <<ws, closing, expired, spent, tasks, open, queue, hand, on>>
        /\ \A e \in Clients \ {c} : outcome'[e] = outcome[e]
    BY <1>2 DEF TakeLock, NotRenewed, CalledBack, frames, net, TypeOK
  <2>. QED
    BY <1>2, <2>1, LinkGoesOn
<1>3. ASSUME NEW place \in {"asking", "told"}, at' = [at EXCEPT ![c] = place],
             at[c] \in {"waiting", "asking"},
             UNCHANGED <<link, tasks, frames, net>>, TokenInv'
      PROVE  AliveInv'
  <2>1. UNCHANGED <<conn, ws, loop, closing, receivers, timers, latest, queue, hand, on, open>>
    BY <1>3 DEF link, tasks, frames, net
  <2>2. at'["first"] \in Unconnected <=> at["first"] \in Unconnected
    BY <1>1, <1>3 DEF Unconnected
  <2>3. at[c] \notin {"off", "flush"} /\ at'[c] \notin {"off", "flush"}
    BY <1>1, <1>3
  <2>4. \A d \in Clients : (at'[d] = "off" <=> at[d] = "off") /\ (at'[d] = "flush" <=> at[d] = "flush")
    BY <1>1, <1>3, <2>3
  <2>5. FirstInv' /\ SocketInv'
    BY <1>1, <2>1, <2>2, <2>4 DEF AliveInv, FirstInv, SocketInv
  <2>6. ConnectedInv'
    <3>1. Unnoticed' <=> Unnoticed
      BY <2>1 DEF Unnoticed
    <3>. QED
      BY <1>1, <2>1, <2>4, <3>1 DEF AliveInv, ConnectedInv, Lost
  <2>7. ~Quiet'
    <3>1. CASE c = "first"
      BY <1>1, <1>3, <3>1 DEF Quiet, Unconnected
    <3>2. CASE c = "again"
      BY <1>1, <1>3, <2>1, <3>2 DEF Quiet, TypeOK
    <3>3. CASE c \in Renewers
      BY <1>1, <2>3, <3>3 DEF Quiet
    <3>. QED
      BY <3>1, <3>2, <3>3 DEF Clients, Dialers
  <2>. QED
    BY <1>3, <2>5, <2>6, <2>7 DEF AliveInv, QuietInv
<1>4. CASE TakeLock(c)
  <2>1. CASE expired /\ ~spent /\ Goes(c, "asking") /\ UNCHANGED <<conn, loop, shutdown>>
    <3>1. /\ at' = [at EXCEPT ![c] = "asking"] /\ at[c] = "waiting" /\ LockFree
          /\ UNCHANGED <<link, outcome, expired, spent, tasks, frames, net>>
      BY <1>4, <2>1 DEF TakeLock, Goes, link
    <3>2. TokenInv'
      BY <1>1, <2>1, <3>1 DEF AliveInv, TokenInv, LockFree
    <3>. QED
      BY <1>3, <3>1, <3>2
  <2>2. CASE GoesOn(c, "ok") \/ (expired /\ spent /\ GoesOn(c, "auth_expired"))
    BY <1>2, <1>4, <2>2
  <2>. QED
    BY <1>4, <2>1, <2>2 DEF TakeLock
<1>5. CASE Renewed(c)
  <2>1. /\ at[c] = "asking" /\ at' = [at EXCEPT ![c] = "told"]
        /\ UNCHANGED <<link, tasks, frames, net>>
        /\ \/ outcome' = [outcome EXCEPT ![c] = "ok"]
           \/ outcome' = [outcome EXCEPT ![c] = "auth_expired"] /\ spent' = TRUE /\ UNCHANGED expired
    BY <1>5 DEF Renewed, Goes
  <2>2. expired
    BY <2>1 DEF AliveInv, TokenInv
  <2>3. \A e \in Clients \ {c} : at'[e] = at[e] /\ at[e] \notin {"asking", "told"}
    BY <1>1, <2>1 DEF AliveInv, TokenInv
  <2>4. outcome \in [Clients -> {"ok", "network_error", "auth_expired"}] /\ at'[c] = "told"
    BY <1>1, <2>1 DEF TypeOK
  <2>5. outcome'[c] = "auth_expired" => expired' /\ spent'
    BY <2>1, <2>2, <2>4
  <2>6. TokenInv'
    BY <1>1, <2>3, <2>4, <2>5 DEF AliveInv, TokenInv
  <2>. QED
    BY <1>3, <2>1, <2>6
<1>6. CASE NotRenewed(c)
  BY <1>2, <1>6 DEF NotRenewed
<1>7. CASE CalledBack(c)
  <2>1. GoesOn(c, outcome[c]) /\ at[c] = "told"
    BY <1>7 DEF CalledBack
  <2>2. /\ outcome[c] \in {"ok", "auth_expired", "network_error"}
        /\ outcome[c] = "auth_expired" => expired /\ spent
    BY <2>1 DEF TypeOK, AliveInv, TokenInv
  <2>. QED
    BY <1>2, <1>7, <2>1, <2>2
<1>. QED
  BY <1>4, <1>5, <1>6, <1>7 DEF Refresh

LEMMA LinkLoop ==
  ASSUME TypeOK, AliveInv, ~shutdown, ~shutdown',
         Establish \/ Stop \/ Wake \/ CloseBegins \/ CloseEnds \/ TokenExpires
  PROVE  AliveInv'
<1>1. /\ at \in [Clients -> Places] /\ "first" \in Clients /\ "again" \in Clients
      /\ Renewers \subseteq Clients /\ Renewers \cap Dialers = {}
  BY GatewayAssumption DEF GatewayAssumption, TypeOK, Places, Clients, Dialers
<1>2. CASE Establish
  <2>1. /\ at["first"] = "new" /\ conn' = "connecting"
        /\ at' \in {[at EXCEPT !["first"] = "waiting"], [at EXCEPT !["first"] = "dial"]}
        /\ UNCHANGED <<ws, loop, closing, outcome, expired, spent, receivers, timers, latest, open>>
    BY <1>2 DEF Establish, Begins, Goes, tasks, net
  <2>2. at'["first"] \in Unconnected /\ at["first"] \in Unconnected
    BY <1>1, <2>1 DEF Unconnected
  <2>3. \A c \in Clients : c # "first" => at'[c] = at[c]
    BY <1>1, <2>1
  <2>4. \A r \in Renewers : at'[r] = at[r]
    BY <1>1, <2>3 DEF Dialers
  <2>5. TokenInv'
    BY <1>1, <2>1, <2>4 DEF AliveInv, TokenInv
  <2>6. FirstInv' /\ SocketInv'
    BY <2>1, <2>2, <2>4 DEF AliveInv, FirstInv, SocketInv
  <2>7. ConnectedInv' /\ QuietInv'
    BY <2>1, <2>2 DEF ConnectedInv, QuietInv, Quiet
  <2>. QED
    BY <2>5, <2>6, <2>7 DEF AliveInv
<1>3. CASE Stop
  <2>1. /\ loop = "stopping" /\ loop' = "sleeping" /\ UNCHANGED <<conn, closing, token>>
        /\ ws' = NoSocket /\ latest' = NoSocket
        /\ receivers' = receivers \ {latest} /\ (open' = open \/ open' = open \ {ws})
        /\ (ws = NoSocket => open' = open)
        /\ (ws # NoSocket => open' = open \ {ws})
    BY <1>3 DEF Stop, StopTasks, Dies, net
  <2>2. latest \notin open'
    BY <2>1, GatewayAssumption DEF GatewayAssumption, AliveInv, SocketInv, TypeOK
  <2>3. SocketInv'
    BY <2>1, <2>2 DEF AliveInv, SocketInv
  <2>4. FirstInv'
    BY <2>1 DEF AliveInv, FirstInv, token
  <2>. QED
    BY <2>1, <2>3, <2>4 DEF AliveInv, SocketInv, TokenInv, ConnectedInv, QuietInv, Quiet, token
<1>4. CASE Wake
  <2>1. /\ loop = "sleeping" /\ loop' = "dialing" /\ conn' = "connecting"
        /\ at' \in {[at EXCEPT !["again"] = "waiting"], [at EXCEPT !["again"] = "dial"]}
        /\ UNCHANGED <<ws, closing, outcome, expired, spent, receivers, timers, latest, open>>
    BY <1>4 DEF Wake, Begins, Goes, tasks, net
  <2>2. at["first"] \notin Unconnected /\ at'["first"] = at["first"]
    BY <1>1, <2>1 DEF AliveInv, FirstInv
  <2>3. TokenInv'
    BY <1>1, <2>1 DEF AliveInv, TokenInv, Dialers
  <2>. QED
    BY <2>1, <2>2, <2>3 DEF AliveInv, FirstInv, SocketInv, ConnectedInv, QuietInv, Quiet
<1>5. CASE CloseBegins \/ CloseEnds
  BY <1>5 DEF CloseBegins, CloseEnds, AliveInv, SocketInv
<1>6. CASE TokenExpires
  <2>1. /\ ~expired /\ expired' = TRUE
        /\ UNCHANGED <<link, at, outcome, spent, tasks, queue, hand, on, open>>
    BY <1>6 DEF TokenExpires, frames, net
  <2>2. UNCHANGED <<conn, ws, loop, closing, receivers, timers, latest>>
    BY <2>1 DEF link, tasks
  <2>3. TokenInv' /\ FirstInv' /\ SocketInv' /\ QuietInv'
    BY <2>1, <2>2 DEF AliveInv, TokenInv, FirstInv, SocketInv, QuietInv, Quiet
  <2>4. ConnectedInv'
    BY <2>1, <2>2 DEF AliveInv, ConnectedInv, Unnoticed, Lost
  <2>. QED
    BY <2>3, <2>4 DEF AliveInv
<1>. QED
  BY <1>2, <1>3, <1>4, <1>5, <1>6

\* A shutdown is never taken back.
LEMMA ShutdownStays == TypeOK /\ shutdown /\ [Next]_vars => shutdown'
<1> SUFFICES ASSUME TypeOK, shutdown, [Next]_vars
             PROVE  shutdown'
  OBVIOUS
<1>1. ASSUME NEW c \in Clients, NEW result \in {"ok", "network_error", "auth_expired"}, GoesOn(c, result)
      PROVE  shutdown'
  BY <1>1 DEF GoesOn
<1>2. ASSUME NEW c \in Clients, Refresh(c)
      PROVE  shutdown'
  <2>1. outcome[c] \in {"ok", "network_error", "auth_expired"}
    BY DEF TypeOK
  <2>. QED
    BY <1>1, <1>2, <2>1 DEF Refresh, TakeLock, Renewed, NotRenewed, CalledBack, link
<1>3. ASSUME NEW d \in Dialers, Dial(d) \/ Flush(d) \/ Flushed(d)
      PROVE  shutdown'
  BY <1>3 DEF Dial, DialSucceeds, DialFails, DialRefused, Flush, Flushed, link
<1>4. CASE Establish \/ Stop \/ Wake \/ CloseBegins \/ CloseEnds \/ Inactive \/ TokenExpires
  BY <1>4 DEF Establish, Stop, Wake, CloseBegins, CloseEnds, Inactive, TokenExpires, link
<1>5. ASSUME NEW m \in Messages,
             Send(m) \/ SendEnds(m) \/ SendCancelled(m) \/ Retry(m) \/ Expire(m)
      PROVE  shutdown'
  BY <1>5 DEF Send, SendEnds, SendCancelled, Retry, Expire, link
<1>6. ASSUME NEW s \in Sockets,
             \/ ReceiveEnds(s) \/ TimersEnd(s) \/ Drop(s) \/ Replaced(s)
             \/ \E m \in Messages : ReceiveAck(m, s)
      PROVE  shutdown'
  BY <1>6 DEF ReceiveEnds, TimersEnd, Drop, Replaced, ReceiveAck, link
<1>. QED
  BY <1>2, <1>3, <1>4, <1>5, <1>6 DEF Next, Waits, vars, link

LEMMA LinkStep == TypeOK /\ LinkInv /\ [Next]_vars => LinkInv'
<1> SUFFICES ASSUME TypeOK, LinkInv, [Next]_vars, ~shutdown'
             PROVE  AliveInv'
  BY DEF LinkInv
<1>1. ~shutdown /\ AliveInv
  BY ShutdownStays DEF LinkInv, TypeOK
<1>2. CASE UNCHANGED vars
  BY <1>1, <1>2 DEF vars, link, token, tasks, frames, net, AliveInv, TokenInv, FirstInv, SocketInv,
     ConnectedInv, QuietInv, Quiet, Unnoticed, Lost
<1>3. CASE \E d \in Dialers : Flush(d) \/ Flushed(d)
  BY <1>1, <1>3, LinkFlush
<1>4. CASE Waits
  <2>1. CASE \E m \in Messages : Send(m) \/ SendEnds(m) \/ SendCancelled(m)
    BY <1>1, <2>1, LinkSending
  <2>2. CASE \/ \E m \in Messages : Retry(m) \/ Expire(m)
             \/ \E s \in Sockets : Drop(s) \/ Replaced(s) \/ \E m \in Messages : ReceiveAck(m, s)
    BY <1>1, <2>2, LinkNet
  <2>3. CASE Inactive \/ \E s \in Sockets : ReceiveEnds(s) \/ TimersEnd(s)
    BY <1>1, <2>3, LinkLosses
  <2>4. CASE \E d \in Dialers : Dial(d)
    BY <1>1, <2>4, LinkDialed, LinkUndialed DEF Dial
  <2>5. CASE \E c \in Clients : Refresh(c)
    BY <1>1, <2>5, LinkRefresh
  <2>6. CASE Establish \/ Stop \/ Wake \/ CloseBegins \/ CloseEnds \/ TokenExpires
    BY <1>1, <2>6, LinkLoop
  <2>. QED
    BY <1>4, <2>1, <2>2, <2>3, <2>4, <2>5, <2>6 DEF Waits
<1>. QED
  BY <1>2, <1>3, <1>4 DEF Next

\* No frame that the gateway keeps is forgotten by a link that could come back:
\* as long as it is not closed, has a token and does not spin, a frame that is not
\* settled, nor dropped with its sender, is being sent, has a timer, or some task
\* is about to bring the connection nearer.  This is the safety half of FrameSettles.
THEOREM UnsettledFramesGoOn == Spec => []FramesGoOn
<1>1. Init => LinkInv
  BY GatewayAssumption
  DEF GatewayAssumption, Init, LinkInv, AliveInv, TokenInv, FirstInv, SocketInv, ConnectedInv,
      QuietInv, Quiet, Unconnected, Clients, Dialers
<1>. QED
  BY <1>1, LinkStep, LinkInvGoesOn, TypeCorrect, FramesAreKept, PTL DEF Spec
=============================================================================
