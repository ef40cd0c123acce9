--------------------------------- MODULE Gateway ---------------------------------
(***************************************************************************)
(* Outbox together with the WebSocket gateway: GET /ws/rides/{id}.         *)
(*                                                                         *)
(* Each ride has one client, which comes and goes.  The gateway accepts    *)
(* the connection, which tells the client that it is connected, and only   *)
(* then subscribes to the channel of the ride.  From there on two          *)
(* coroutines serve the client: ride_updates waits for it to disconnect,   *)
(* and forward_messages, a task that nobody awaits, passes on what Redis   *)
(* has buffered for the subscription.  When that task fails, the client    *)
(* stays connected and is sent nothing more.                               *)
(***************************************************************************)
EXTENDS Outbox

VARIABLES
  socket,      \* socket[r]: what the gateway is doing for the client of r
  since,       \* since[r]: the messages sent to the channel before the subscription
  heard,       \* heard[r]: those that were sent, or forwarded, up to now
  base         \* history: written[r] when the client subscribed

gatewayVars == <<socket, since, heard, base>>
systemVars == <<vars, gatewayVars>>
-----------------------------------------------------------------------------------
\* "deaf": connected, with a forward_messages that is dead.
SocketStates == {"closed", "accepted", "listening", "deaf"}

MutantSubscribed(r) == Len(channel[r]) + 1

\* Redis keeps no message for those that are not subscribed.
Subscribed(r) == Len(channel[r])

\* What the client of r was sent since it subscribed.
Heard(r) == {channel[r][i] : i \in since[r] + 1 .. heard[r]}

\* What Redis has sent on its subscription: forwarded, or about to be.
Received(r) == {channel[r][i] : i \in since[r] + 1 .. Len(channel[r])}
-----------------------------------------------------------------------------------
GatewayInit ==
  /\ Init
  /\ socket = [r \in Rides |-> "closed"]
  /\ since = [r \in Rides |-> 0]
  /\ heard = [r \in Rides |-> 0]
  /\ base = [r \in Rides |-> 0]

\* The token is valid: websocket.accept.
Accept(r) ==
  /\ socket[r] = "closed"
  /\ socket' = [socket EXCEPT ![r] = "accepted"]
  /\ UNCHANGED <<vars, since, heard, base>>

\* pubsub.subscribe, and forward_messages is started.
Subscribe(r) ==
  /\ socket[r] = "accepted"
  /\ socket' = [socket EXCEPT ![r] = "listening"]
  /\ since' = [since EXCEPT ![r] = Subscribed(r)]
  /\ heard' = [heard EXCEPT ![r] = Subscribed(r)]
  /\ base' = [base EXCEPT ![r] = written[r]]
  /\ UNCHANGED vars

MutantForwarding(r) == socket[r] = "listening" /\ heard[r] + 1 < Len(channel[r])

Forwarding(r) == socket[r] = "listening" /\ heard[r] < Len(channel[r])

\* forward_messages sends the next message to the client.
Forward(r) ==
  /\ Forwarding(r)
  /\ heard' = [heard EXCEPT ![r] = @ + 1]
  /\ UNCHANGED <<vars, socket, since, base>>

\* pubsub.listen or send_text raises inside forward_messages.
LoseForwarder(r) ==
  /\ socket[r] = "listening"
  /\ failures < MaxFailures
  /\ failures' = failures + 1
  /\ socket' = [socket EXCEPT ![r] = "deaf"]
  /\ UNCHANGED <<tableVars, published, pc, batch, done, channel, tasks, overtaken,
                 since, heard, base>>

\* The client leaves, or the process dies: the task is cancelled with whatever it
\* had not forwarded, and the subscription is given up.
Disconnect(r) ==
  /\ socket[r] # "closed"
  /\ socket' = [socket EXCEPT ![r] = "closed"]
  /\ since' = [since EXCEPT ![r] = 0]
  /\ heard' = [heard EXCEPT ![r] = 0]
  /\ base' = [base EXCEPT ![r] = 0]
  /\ UNCHANGED vars
-----------------------------------------------------------------------------------
Serve(r) == Accept(r) \/ Subscribe(r) \/ Forward(r) \/ LoseForwarder(r) \/ Disconnect(r)

SystemNext ==
  \/ Next /\ UNCHANGED gatewayVars
  \/ \E r \in Rides : Serve(r)

\* The event loop runs a forward_messages that has something to forward.  Nobody
\* has to connect, to stay or to leave.
SystemSpec ==
  /\ GatewayInit /\ [][SystemNext]_systemVars
  /\ Fairness
  /\ \A r \in Rides : WF_systemVars(Forward(r))
-----------------------------------------------------------------------------------
\* A client's place in the channel lies between its subscription and the end.
GatewayTypeOK ==
  /\ TypeOK
  /\ socket \in [Rides -> SocketStates]
  /\ since \in [Rides -> Nat]
  /\ heard \in [Rides -> Nat]
  /\ base \in [Rides -> 0 .. MaxEvents]
  /\ \A r \in Rides : since[r] <= heard[r] /\ heard[r] <= Len(channel[r])

\* A client may have missed what was published before it subscribed, never what
\* was written afterwards: by the time the row of such an event is marked, Redis
\* has sent it on the client's subscription.
SubscriberMissesNothing ==
  \A r \in Rides : socket[r] \in {"listening", "deaf"} =>
    \A e \in published : e[1] = r /\ e[2] > base[r] => e \in Received(r)

\* Whatever is written while a client listens reaches it, however often batches
\* fail, unless the client leaves or its forward_messages dies.
SubscriberHearsEverything ==
  \A e \in Events :
    socket[e[1]] = "listening" /\ e \in Written /\ e[2] > base[e[1]]
      ~> e \in Heard(e[1]) \/ socket[e[1]] # "listening"

\* A client that listens is sent the transactions of its ride in order, apart from
\* repetitions, unless one overtook the other in the hands of two replicas: if it
\* was sent a message, it was sent all earlier ones written since it subscribed.
SubscriberHearsInOrder ==
  \A r \in Rides : \A e \in Heard(r) : \A n \in base[r] + 1 .. e[2] - 1 :
    created[<<r, n>>] # created[e] =>
      <<r, n>> \in Heard(r) \/ <<e, <<r, n>>>> \in overtaken
===================================================================================
