---------------------------- MODULE GatewayLink ----------------------------
(***************************************************************************)
(* The gateway's end of the link to the relay                              *)
(* (src/pandapal/gateway/gateway.py): it dials, renews its token, sends    *)
(* frames and waits for their ACKs, keeps what it cannot send in a bounded *)
(* queue, and dials again when the connection is lost.  The relay          *)
(* (src/pandapal_relay/server.py) acknowledges each frame on the           *)
(* connection it accepted last.                                            *)
(*                                                                         *)
(* An action is the code between two awaits.  Time is left out: a timeout  *)
(* may fire whenever its timer runs.  Faults of the network and of the     *)
(* token are bounded, so that they end.                                    *)
(***************************************************************************)
EXTENDS Naturals, Sequences

CONSTANTS
  Messages,     \* outbound frames, each with a msg_id of its own
  Sockets,      \* connections; one that nothing refers to is used again
  NoSocket,
  Renewers,     \* tasks of _safe_refresh_and_reconnect
  MaxQueue,     \* outbound_queue_max_size
  MaxRetries,   \* max_ack_retries
  MaxFaults     \* bound on the faults of a behaviour

ASSUME GatewayAssumption ==
  /\ NoSocket \notin Sockets
  /\ Renewers \cap {"first", "again"} = {}
  /\ MaxQueue \in Nat \ {0}
  /\ {MaxRetries, MaxFaults} \subseteq Nat

\* Running instances of _connect: that of establish_relay_connection, and
\* that of the reconnect loop.
Dialers == {"first", "again"}
Clients == Dialers \cup Renewers

VARIABLES
  conn, ws,     \* _conn_state, _ws
  loop,         \* the reconnect loop; "off" iff not _reconnecting
  at,           \* where each client of the token is
  outcome,      \* what _ensure_fresh_token returns to it
  expired,      \* is the token past its exp (less the leeway)?
  spent,        \* is the token in _refreshed_tokens?
  shutdown,     \* _shutdown_requested
  closing,      \* close_relay_connection: "no", "begun" or "ended"
  stuck,        \* the event loop spins and runs nothing else
  receivers,    \* sockets whose receive loop runs
  timers,       \* sockets whose ping loop and ACK check run
  latest,       \* the socket of _receive_task, _ping_task, _ack_check_task
  queue,        \* _outbound_queue
  pending,      \* keys of _pending_ack
  tries,        \* attempts of an entry of it
  hand, on,     \* who is sending a frame, on which socket
  given, done,  \* frames handed over, and what became of them
  open,         \* live sockets
  relayWs,      \* the relay's _agent_ws
  wire,         \* frames under way or at the relay, by socket
  faults

link == <<conn, ws, loop, shutdown, closing>>
token == <<at, outcome, expired, spent>>
tasks == <<receivers, timers, latest>>
frames == <<queue, pending, tries, hand, on, given, done>>
net == <<open, relayWs, wire>>
vars == <<link, token, tasks, frames, net, stuck, faults>>

Fates == {"none", "acked", "failed", "evicted", "cleared", "dropped"}

TypeOK ==
  /\ conn \in {"disconnected", "connecting", "connected", "reconnecting"}
  /\ {ws, latest, relayWs} \subseteq Sockets \cup {NoSocket}
  /\ loop \in {"off", "stopping", "sleeping", "dialing"}
  /\ at \in [Clients -> {"new", "off", "waiting", "asking", "told", "dial", "flush"}]
  /\ outcome \in [Clients -> {"ok", "network_error", "auth_expired"}]
  /\ {expired, spent, shutdown, stuck} \subseteq BOOLEAN
  /\ closing \in {"no", "begun", "ended"}
  /\ {receivers, timers, open} \subseteq SUBSET Sockets
  /\ queue \in Seq(Messages) /\ Len(queue) <= MaxQueue
  /\ {pending, given} \subseteq SUBSET Messages
  /\ tries \in [Messages -> 0..MaxRetries]
  /\ hand \in [Messages -> {"none", "app"} \cup Dialers]
  /\ on \in [Messages -> Sockets \cup {NoSocket}]
  /\ done \in [Messages -> Fates]
  /\ wire \subseteq Messages \X Sockets
  /\ faults \in 0..MaxFaults
  /\ loop = "dialing" <=> at["again"] # "off"

Init ==
  /\ conn = "disconnected" /\ ws = NoSocket /\ loop = "off"
  /\ at = [c \in Clients |-> IF c = "first" THEN "new" ELSE "off"]
  /\ outcome = [c \in Clients |-> "ok"]
  /\ expired \in BOOLEAN /\ spent = FALSE
  /\ shutdown = FALSE /\ closing = "no" /\ stuck = FALSE
  /\ receivers = {} /\ timers = {} /\ latest = NoSocket
  /\ queue = <<>> /\ pending = {} /\ tries = [m \in Messages |-> 0]
  /\ hand = [m \in Messages |-> "none"] /\ on = [m \in Messages |-> NoSocket]
  /\ given = {} /\ done = [m \in Messages |-> "none"]
  /\ open = {} /\ relayWs = NoSocket /\ wire = {}
  /\ faults = 0

Fault == faults < MaxFaults /\ faults' = faults + 1

Goes(c, place) == at' = [at EXCEPT ![c] = place]

\* _reconnect_with_backoff: nothing while another one runs or after a
\* shutdown; otherwise it begins by stopping what runs.
Reconnects ==
  IF loop # "off" \/ shutdown
  THEN conn' = "disconnected" /\ UNCHANGED loop
  ELSE conn' = "reconnecting" /\ loop' = "stopping"

----------------------------------------------------------------------------
(* Outbound frames                                                         *)

\* Mutant: the queue is never cut.
EnqueueAll(m) == queue' = Append(queue, m) /\ UNCHANGED done

\* _enqueue_outbound: the oldest frame gives way, with a line in the log.
Enqueue(m) ==
  IF Len(queue) < MaxQueue
  THEN queue' = Append(queue, m) /\ UNCHANGED done
  ELSE /\ queue' = Append(Tail(queue), m)
       /\ done' = [done EXCEPT ![Head(queue)] = "evicted"]

Sendable == conn = "connected" /\ ws # NoSocket

\* A frame written to a live socket is under way before the await returns.
Writes(m) == wire' = IF ws \in open THEN wire \cup {<<m, ws>>} ELSE wire

StartsSending(m, who) ==
  /\ hand' = [hand EXCEPT ![m] = who]
  /\ on' = [on EXCEPT ![m] = ws]
  /\ Writes(m)

\* send_message_frame, called by a transport.
Send(m) ==
  /\ m \notin given
  /\ given' = given \cup {m}
  /\ \/ Sendable /\ StartsSending(m, "app") /\ UNCHANGED <<queue, done>>
     \/ ~Sendable /\ Enqueue(m) /\ UNCHANGED <<hand, on, wire>>
  /\ UNCHANGED <<link, token, tasks, pending, tries, open, relayWs, stuck, faults>>

\* Mutant: the entry is written also when the send has failed.
SendEndsRecorded(m) ==
  /\ hand[m] # "none"
  /\ hand' = [hand EXCEPT ![m] = "none"]
  /\ on' = [on EXCEPT ![m] = NoSocket]
  /\ pending' = pending \cup {m}
  /\ tries' = [tries EXCEPT ![m] = 0]
  /\ IF on[m] \in open THEN UNCHANGED <<queue, done>> ELSE Enqueue(m)
  /\ UNCHANGED <<link, token, tasks, given, net, stuck, faults>>

\* The send has returned, or raised because the connection is gone.
SendEnds(m) ==
  /\ hand[m] # "none"
  /\ hand' = [hand EXCEPT ![m] = "none"]
  /\ on' = [on EXCEPT ![m] = NoSocket]
  /\ \/ /\ on[m] \in open
        /\ pending' = pending \cup {m}
        /\ tries' = [tries EXCEPT ![m] = 0]
        /\ UNCHANGED <<queue, done>>
     \/ /\ on[m] \notin open
        /\ Enqueue(m)
        /\ UNCHANGED <<pending, tries>>
  /\ UNCHANGED <<link, token, tasks, given, net, stuck, faults>>

\* The one who sends is cancelled at the await, by a timeout of the router or with
\* its session: the frame is kept nowhere, whether it was written or its sender
\* still waited for another one to be written.
SendCancelled(m) ==
  /\ hand[m] = "app"
  /\ hand' = [hand EXCEPT ![m] = "none"]
  /\ on' = [on EXCEPT ![m] = NoSocket]
  /\ done' = [done EXCEPT ![m] = "dropped"]
  /\ wire' \in {wire, wire \ {<<m, on[m]>>}}
  /\ UNCHANGED <<link, token, tasks, queue, pending, tries, given, open, relayWs,
                 stuck, faults>>

\* _check_pending_ack_timeouts: a frame without an ACK in time is sent
\* again, on whatever socket there is, if it can be.
Retry(m) ==
  /\ timers # {} /\ ~shutdown
  /\ m \in pending /\ tries[m] < MaxRetries
  /\ tries' = [tries EXCEPT ![m] = @ + 1]
  /\ Writes(m)
  /\ UNCHANGED <<link, token, tasks, queue, pending, hand, on, given, done,
                 open, relayWs, stuck, faults>>

Forgets(m) == pending' = pending \ {m} /\ tries' = [tries EXCEPT ![m] = 0]

\* After the last retry the entry goes, and the failure is reported.
Expire(m) ==
  /\ timers # {} /\ ~shutdown
  /\ m \in pending /\ tries[m] = MaxRetries
  /\ Forgets(m)
  /\ done' = [done EXCEPT ![m] = "failed"]
  /\ UNCHANGED <<link, token, tasks, queue, hand, on, given, net, stuck, faults>>

----------------------------------------------------------------------------
(* What comes in.  The relay acknowledges a frame on the connection it     *)
(* knows at that time.  After a shutdown the first frame only ends the     *)
(* receive loop.                                                           *)

ReceiveAck(m, s) ==
  /\ <<m, s>> \in wire /\ relayWs \in receivers
  /\ wire' = wire \ {<<m, s>>}
  /\ \/ /\ shutdown
        /\ receivers' = receivers \ {relayWs}
        /\ UNCHANGED <<pending, tries, done>>
     \/ /\ ~shutdown /\ m \in pending
        /\ Forgets(m)
        /\ done' = [done EXCEPT ![m] = "acked"]
        /\ UNCHANGED receivers
     \/ /\ ~shutdown /\ m \notin pending
        /\ UNCHANGED <<receivers, pending, tries, done>>
  /\ UNCHANGED <<link, token, timers, latest, queue, hand, on, given, open, relayWs,
                 stuck, faults>>

\* The receive loop ends with its socket.  It marks the gateway as
\* disconnected, also when that has a newer socket by now.
ReceiveEnds(s) ==
  /\ s \in receivers \ open
  /\ receivers' = receivers \ {s}
  /\ IF shutdown THEN UNCHANGED <<conn, loop>> ELSE Reconnects
  /\ UNCHANGED <<ws, shutdown, closing, token, timers, latest, frames,
                 net, stuck, faults>>

Dies(s) ==
  /\ open' = open \ {s}
  /\ wire' = {w \in wire : w[2] # s}
  /\ relayWs' = IF relayWs = s THEN NoSocket ELSE relayWs

\* _ping_loop closes a socket on which nothing has come in for too long.
\* (When it cannot even send it ends; the receive loop ends then too.)
Inactive ==
  /\ timers # {} /\ ~shutdown /\ ws \in open
  /\ Fault
  /\ Dies(ws)
  /\ Reconnects
  /\ UNCHANGED <<ws, shutdown, closing, token, tasks, frames, stuck>>

\* After a shutdown the two loops end at their next turn.
TimersEnd(s) ==
  /\ s \in timers /\ shutdown
  /\ timers' = timers \ {s}
  /\ UNCHANGED <<link, token, receivers, latest, frames, net, stuck, faults>>

----------------------------------------------------------------------------
(* _connect.  An expired token is renewed first.                           *)

Begins(d) ==
  /\ conn' = "connecting"
  /\ Goes(d, IF expired THEN "waiting" ELSE "dial")

\* Mutant: a reconnection that succeeds leaves _reconnecting set.
LoopAfterKept(d, state, ending) ==
  IF d = "first" THEN loop
  ELSE IF state = "connected" THEN "dialing"
  ELSE IF ending THEN "off" ELSE "sleeping"

\* What becomes of the dialer's caller when _connect returns: the reconnect
\* loop ends if it finds the gateway connected, and goes on otherwise.
LoopAfter(d, state, ending) ==
  IF d = "first" THEN loop
  ELSE IF state = "connected" \/ ending THEN "off" ELSE "sleeping"

Establish ==
  /\ at["first"] = "new"
  /\ Begins("first")
  /\ UNCHANGED <<ws, loop, shutdown, closing, outcome, expired, spent, tasks, frames,
                 net, stuck, faults>>

Free(s) ==
  /\ s \notin open \cup receivers \cup timers
  /\ s \notin {on[m] : m \in Messages} \cup {ws, latest}

\* The handshake succeeds.  Three loops start, and a queue is flushed.
\* Nothing looks at a shutdown requested meanwhile.  A handshake takes
\* longer than a send needs to find its socket gone.
DialSucceeds(d) ==
  /\ at[d] = "dial"
  /\ \A m \in Messages : hand[m] = "none" \/ on[m] \in open
  /\ \E s \in Sockets : Free(s)
  /\ LET s == CHOOSE s \in Sockets : Free(s)
     IN /\ ws' = s /\ latest' = s /\ relayWs' = s
        /\ open' = open \cup {s}
        /\ receivers' = receivers \cup {s}
        /\ timers' = timers \cup {s}
  /\ conn' = "connected"
  /\ \/ queue # <<>> /\ Goes(d, "flush") /\ UNCHANGED loop
     \/ queue = <<>> /\ Goes(d, "off") /\ loop' = LoopAfter(d, "connected", shutdown)
  /\ UNCHANGED <<shutdown, closing, outcome, expired, spent, frames, wire, stuck, faults>>

\* After a failure the first dialer starts the reconnect loop.
NotConnected(d) ==
  IF d = "first" THEN Reconnects
  ELSE conn' = "disconnected" /\ loop' = LoopAfter(d, "disconnected", shutdown)

DialFails(d) ==
  /\ at[d] = "dial"
  /\ Fault
  /\ Goes(d, "off")
  /\ NotConnected(d)
  /\ UNCHANGED <<ws, shutdown, closing, outcome, expired, spent, tasks, frames, net, stuck>>

\* 401 or 403: a task renews the token, unless this token is known to be
\* past renewing.
DialRefused(d) ==
  /\ at[d] = "dial"
  /\ Fault
  /\ \/ /\ spent
        /\ Goes(d, "off")
        /\ NotConnected(d)
     \/ /\ ~spent
        /\ \E r \in Renewers : at[r] = "off"
        /\ LET r == CHOOSE r \in Renewers : at[r] = "off"
           IN at' = [at EXCEPT ![d] = "off", ![r] = "waiting"]
        /\ conn' = "disconnected"
        /\ loop' = LoopAfter(d, "disconnected", shutdown)
  /\ UNCHANGED <<ws, shutdown, closing, outcome, expired, spent, tasks, frames, net, stuck>>

FlushedBy(d) == {m \in Messages : hand[m] = d}

\* _flush_outbound_queue takes the oldest frame and sends it.  A frame that
\* cannot be sent, because the gateway is not connected or the socket is
\* gone, returns to the queue at once and without an await, for ever.
Flush(d) ==
  /\ at[d] = "flush" /\ FlushedBy(d) = {} /\ queue # <<>>
  /\ \/ /\ Sendable /\ ws \in open
        /\ StartsSending(Head(queue), d)
        /\ queue' = Tail(queue)
        /\ UNCHANGED stuck
     \/ /\ ~(Sendable /\ ws \in open)
        /\ stuck' = TRUE
        /\ UNCHANGED <<queue, hand, on, wire>>
  /\ UNCHANGED <<link, token, tasks, pending, tries, given, done, open, relayWs, faults>>

Flushed(d) ==
  /\ at[d] = "flush" /\ FlushedBy(d) = {} /\ queue = <<>>
  /\ Goes(d, "off")
  /\ loop' = LoopAfter(d, conn, shutdown)
  /\ UNCHANGED <<conn, ws, shutdown, closing, outcome, expired, spent, tasks, frames,
                 net, stuck, faults>>

----------------------------------------------------------------------------
(* _ensure_fresh_token, and what its caller does with the outcome.         *)

\* The outcome of a renewal task: "ok" and "network_error" reconnect.
GoesOn(c, result) ==
  \/ /\ c \in Dialers /\ result = "auth_expired"
     /\ Goes(c, "off")
     /\ conn' = "disconnected"
     /\ shutdown' = TRUE
     /\ loop' = LoopAfter(c, "disconnected", TRUE)
  \/ /\ c \in Dialers /\ result # "auth_expired"
     /\ Goes(c, "dial")
     /\ UNCHANGED <<conn, loop, shutdown>>
  \/ /\ c \in Renewers
     /\ Goes(c, "off")
     /\ UNCHANGED shutdown
     /\ CASE shutdown \/ result = "auth_expired" -> UNCHANGED <<conn, loop>>
          [] ~shutdown /\ result = "ok" -> Reconnects
          [] ~shutdown /\ result = "network_error" ->
               IF loop # "off" THEN UNCHANGED <<conn, loop>> ELSE Reconnects

LockFree == \A c \in Clients : at[c] \notin {"asking", "told"}

\* With the lock: a token that is fresh by now is used, one the relay has
\* rejected is not sent again, any other is.
TakeLock(c) ==
  /\ at[c] = "waiting" /\ LockFree
  /\ \/ ~expired /\ GoesOn(c, "ok")
     \/ expired /\ spent /\ GoesOn(c, "auth_expired")
     \/ expired /\ ~spent /\ Goes(c, "asking") /\ UNCHANGED <<conn, loop, shutdown>>
  /\ UNCHANGED <<ws, closing, outcome, expired, spent, tasks, frames, net, stuck, faults>>

\* The answer of /auth/refresh.  The callback runs before the lock is
\* released.
Renewed(c) ==
  /\ at[c] = "asking"
  /\ Goes(c, "told")
  /\ \/ /\ outcome' = [outcome EXCEPT ![c] = "ok"]
        /\ expired' = FALSE /\ spent' = FALSE
     \/ /\ outcome' = [outcome EXCEPT ![c] = "auth_expired"]
        /\ spent' = TRUE /\ UNCHANGED expired
  /\ UNCHANGED <<link, tasks, frames, net, stuck, faults>>

NotRenewed(c) ==
  /\ at[c] = "asking"
  /\ Fault
  /\ GoesOn(c, "network_error")
  /\ UNCHANGED <<ws, closing, outcome, expired, spent, tasks, frames, net, stuck>>

CalledBack(c) ==
  /\ at[c] = "told"
  /\ GoesOn(c, outcome[c])
  /\ outcome' = [outcome EXCEPT ![c] = "ok"]
  /\ UNCHANGED <<ws, closing, expired, spent, tasks, frames, net, stuck, faults>>

----------------------------------------------------------------------------
(* The reconnect loop, and the orderly end.                                *)

\* _stop_background_tasks closes the socket and cancels the loops it knows.
StopTasks ==
  /\ IF ws = NoSocket THEN UNCHANGED net ELSE Dies(ws)
  /\ ws' = NoSocket
  /\ latest' = NoSocket
  /\ receivers' = receivers \ {latest}
  /\ timers' = timers \ {latest}

Stop ==
  /\ loop = "stopping"
  /\ StopTasks
  /\ loop' = IF shutdown THEN "off" ELSE "sleeping"
  /\ UNCHANGED <<conn, shutdown, closing, token, frames, stuck, faults>>

\* The backoff is over.  It lasts a second at least: a task that could go on
\* without waiting for anything has done so.
Wake ==
  /\ loop = "sleeping"
  /\ LockFree => \A r \in Renewers : at[r] # "waiting"
  /\ \/ shutdown /\ loop' = "off" /\ UNCHANGED <<conn, at>>
     \/ ~shutdown /\ loop' = "dialing" /\ Begins("again")
  /\ UNCHANGED <<ws, shutdown, closing, outcome, expired, spent, tasks, frames, net,
                 stuck, faults>>

InQueue(m) == \E i \in DOMAIN queue : queue[i] = m

CloseBegins ==
  /\ at["first"] = "off" /\ closing = "no"
  /\ closing' = "begun" /\ shutdown' = TRUE
  /\ UNCHANGED <<conn, ws, loop, token, tasks, frames, net, stuck, faults>>

CloseEnds ==
  /\ closing = "begun" /\ closing' = "ended"
  /\ StopTasks
  /\ pending' = {} /\ tries' = [m \in Messages |-> 0] /\ queue' = <<>>
  /\ done' = [m \in Messages |->
                IF m \in pending \/ InQueue(m) THEN "cleared" ELSE done[m]]
  /\ conn' = "disconnected"
  /\ UNCHANGED <<loop, shutdown, token, hand, on, given, stuck, faults>>

----------------------------------------------------------------------------
(* The relay, the network and the clock.                                   *)

Drop(s) ==
  /\ s \in open /\ Fault
  /\ Dies(s)
  /\ UNCHANGED <<link, token, tasks, frames, stuck>>

\* The relay closes the connection that a newer one has replaced.
Replaced(s) ==
  /\ s \in open /\ s # relayWs
  /\ Dies(s)
  /\ UNCHANGED <<link, token, tasks, frames, stuck, faults>>

TokenExpires ==
  /\ ~expired /\ Fault
  /\ expired' = TRUE
  /\ UNCHANGED <<link, at, outcome, spent, tasks, frames, net, stuck>>

----------------------------------------------------------------------------

Dial(d) == DialSucceeds(d) \/ DialFails(d) \/ DialRefused(d)

\* Between two sends of a flush there is no await: nothing else runs.
Flushing == \E d \in Dialers : at[d] = "flush" /\ FlushedBy(d) = {}

Refresh(c) == TakeLock(c) \/ Renewed(c) \/ NotRenewed(c) \/ CalledBack(c)

Waits ==
  \/ Establish \/ Stop \/ Wake \/ CloseBegins \/ CloseEnds \/ Inactive \/ TokenExpires
  \/ \E m \in Messages :
       Send(m) \/ SendEnds(m) \/ SendCancelled(m) \/ Retry(m) \/ Expire(m)
  \/ \E s \in Sockets :
       \/ ReceiveEnds(s) \/ TimersEnd(s) \/ Drop(s) \/ Replaced(s)
       \/ \E m \in Messages : ReceiveAck(m, s)
  \/ \E d \in Dialers : Dial(d)
  \/ \E c \in Clients : Refresh(c)

Next ==
  /\ ~stuck
  /\ \/ Flushing /\ \E d \in Dialers : Flush(d) \/ Flushed(d)
     \/ ~Flushing /\ Waits

Spec == Init /\ [][Next]_vars

Idle == ~stuck /\ ~Flushing

\* Every task of the gateway goes on, sends and handshakes end, and what a
\* timer waits for comes.  The application starts the gateway.  Nothing is
\* asked of the relay but to close what it has replaced.
Fairness ==
  /\ \A d \in Dialers : WF_vars(~stuck /\ (Flush(d) \/ Flushed(d)))
  /\ WF_vars(Idle /\ (Establish \/ Stop \/ Wake))
  /\ \A m \in Messages :
       WF_vars(Idle /\ SendEnds(m)) /\ WF_vars(Idle /\ (Retry(m) \/ Expire(m)))
  /\ \A s \in Sockets :
       WF_vars(Idle /\ ReceiveEnds(s)) /\ WF_vars(Idle /\ Replaced(s))
  /\ \A d \in Dialers : WF_vars(Idle /\ Dial(d))
  /\ \A c \in Clients : WF_vars(Idle /\ Refresh(c))

FairSpec == Spec /\ Fairness

----------------------------------------------------------------------------
(* Properties                                                              *)

QueuedOnce == \A i, j \in DOMAIN queue : queue[i] = queue[j] => i = j

\* A frame handed over is in exactly one place: in the queue, being sent,
\* awaiting its ACK, or at its end.  None is kept twice, and none is forgotten
\* but those whose sender was cancelled, whatever the connection does meanwhile.
OnePlace ==
  /\ QueuedOnce
  /\ \A m \in Messages :
       /\ m \in given =>
            InQueue(m) \/ hand[m] # "none" \/ m \in pending \/ done[m] # "none"
       /\ InQueue(m) => hand[m] = "none" /\ m \notin pending /\ done[m] = "none"
       /\ hand[m] # "none" => m \notin pending /\ done[m] = "none"
       /\ m \in pending => done[m] = "none"
       /\ m \notin given =>
            ~InQueue(m) /\ hand[m] = "none" /\ m \notin pending /\ done[m] = "none"

\* The gateway has been told to end, or the user to log in again.
GivenUp == shutdown \/ (expired /\ spent)

\* I2: a frame is acknowledged, reported as failed or evicted in the end, or
\* its sender is cancelled, also when connections are lost, refused or replaced:
\* the gateway comes back as long as it has a token and is not closed.  The
\* exception is the spinning flush.
FrameSettles ==
  \A m \in Messages : m \in given ~> done[m] # "none" \/ GivenUp \/ stuck

\* I4: losing the connection never blocks the process.
NeverStuck == ~stuck
=============================================================================
