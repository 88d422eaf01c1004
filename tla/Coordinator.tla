----------------------------- MODULE Coordinator -----------------------------
(***************************************************************************)
(* The coordinator process (src/apps/coordinator_main.cpp): the accept     *)
(* loop, one thread per connection, the links to agents with the promises  *)
(* that client threads wait on, and the stop sequence; the agent process   *)
(* (src/apps/agent_main.cpp), the control client (src/src/client.cpp) and  *)
(* the channel between them (FrameChannel, src/src/socket.cpp).            *)
(*                                                                         *)
(* A step of a thread ends where another thread can interfere: at a lock,  *)
(* an atomic, a send or a receive.  An operation of the runtime is one     *)
(* step (it holds the runtime's mutex).  Each connection is used once; a   *)
(* process that reconnects is another connection.  One device is served,   *)
(* and ownership does not change while work for it is in flight.           *)
(***************************************************************************)
EXTENDS Naturals, Sequences, FiniteSets

CONSTANTS
  Agents, Clients,        \* the connections of agents and of clients
  Ops,                    \* by client: the requests it may send
  MaxRequests,            \* bound on the requests of one client
  MaxConnections,         \* --max-connections
  FirstSession,           \* next_session: clients have come and gone before
  FirstSequence,          \* next_sequence of the runtime
  None

VARIABLES
  main,     \* the main thread: accept, join, exited
  server,   \* the atomics of Server
  agents,   \* Server::agents: the links that are registered
  conn,     \* by connection: the thread (pc), the remote end (peer),
            \* FrameChannel::open_ (open), and the session: a client's
            \* number, an agent's AgentId
  link,     \* by agent: AgentLink, the frames to and from the agent, and
            \* AgentSession::connected
  call,     \* by client: the request its thread is serving
  runtime   \* reservations, confirmed allocations, replay window, counter

vars == <<main, server, agents, conn, link, call, runtime>>

Conns == Agents \cup Clients

NoConn == [pc |-> "none", peer |-> "away", open |-> FALSE, session |-> 0]
NoLink == [alive |-> FALSE, owns |-> FALSE, pending |-> {}, next_request |-> 1,
           connected |-> FALSE, announced |-> FALSE, inbox |-> <<>>, outbox |-> <<>>]
NoCall == [op |-> "none", agent |-> None, identity |-> 0, promise |-> None,
           reserved |-> FALSE, response |-> "none", asked |-> 0]

\* The thread of c continues at a label.
Goto(c, label) == conn' = [conn EXCEPT ![c].pc = label]
\* The thread of c returns: its channel closes, which ends the peer's side
\* too, and its connection is no longer counted.
Done == [NoConn EXCEPT !.pc = "done", !.peer = "closed"]
Leave(c) ==
  /\ conn' = [conn EXCEPT ![c] = Done]
  /\ server' = [server EXCEPT !.connections = @ - 1]

\* A send succeeds while the channel is open; to a peer that is gone it may
\* still succeed, into the void, or fail, which closes the channel.
SendMaySucceed(c) == conn[c].open
SendMayFail(c) == ~conn[c].open \/ conn[c].peer = "closed"

-----------------------------------------------------------------------------
(* The main thread.                                                        *)

\* A process has connected.  Above the ceiling it is told so and closed.
\* The loop then tests stopping; after it the listener is closed.
Accept(c) ==
  /\ main = "accept" /\ server.listening /\ conn[c].peer = "away"
  /\ main' = IF server.stopping THEN "join" ELSE "accept"
  /\ LET admitted == server.connections < MaxConnections IN
     /\ conn' = [conn EXCEPT ![c] = IF admitted
                                      THEN [@ EXCEPT !.peer = "open", !.open = TRUE, !.pc = "hello"]
                                      ELSE [@ EXCEPT !.peer = "closed"]]
     /\ server' = [server EXCEPT !.connections = IF admitted THEN @ + 1 ELSE @,
                                 !.listening = ~server.stopping]
  /\ UNCHANGED <<agents, link, call, runtime>>

\* begin_stop closed the listener, or accept fails by itself: the loop ends.
AcceptEnds ==
  /\ main = "accept" /\ ~server.listening
  /\ main' = "join"
  /\ UNCHANGED <<server, agents, conn, link, call, runtime>>

AcceptFails ==
  /\ main = "accept" /\ server.listening
  /\ main' = "join"
  /\ server' = [server EXCEPT !.listening = FALSE]
  /\ UNCHANGED <<agents, conn, link, call, runtime>>

\* Every worker is joined, then the runtime is shut down.
Join ==
  /\ main = "join"
  /\ \A c \in Conns : conn[c].pc \in {"none", "done"}
  /\ main' = "exited"
  /\ UNCHANGED <<server, agents, conn, link, call, runtime>>

-----------------------------------------------------------------------------
(* serve_connection up to the point where agents and clients part.         *)

\* The first frame arrives: HELLO, or something that is refused.
Hello(c) ==
  /\ conn[c].pc = "hello" /\ conn[c].peer = "open"
  /\ \/ /\ Goto(c, IF c \in Agents THEN "register" ELSE "greet")
        /\ UNCHANGED server
     \/ Leave(c)
  /\ UNCHANGED <<main, agents, link, call, runtime>>

HelloFails(c) ==
  /\ conn[c].pc = "hello" /\ conn[c].peer = "closed"
  /\ Leave(c)
  /\ UNCHANGED <<main, agents, link, call, runtime>>

\* register_agent: a fresh agent and boot identity from the counter that
\* numbers every record.  The numbers other records draw only make later
\* identities larger and are left out.
\* The link enters Server::agents before the agent is told its identity.
RegisterAgent(a) ==
  /\ conn[a].pc = "register"
  /\ runtime' = [runtime EXCEPT !.next_sequence = @ + 2]
  /\ link' = [link EXCEPT ![a].connected = TRUE, ![a].alive = TRUE]
  /\ agents' = agents \cup {a}
  /\ conn' = [conn EXCEPT ![a].session = runtime.next_sequence, ![a].pc = "ack"]
  /\ UNCHANGED <<main, server, call>>

\* set_value on the promises of some pending requests.
Promised(requests, value) ==
  [c \in Clients |-> IF \E r \in requests : r.client = c
                       THEN [call[c] EXCEPT !.promise = value] ELSE call[c]]

\* Mutant: the pending requests are dropped without settling their promises.
FailAllSilently(a) ==
  /\ link' = [link EXCEPT ![a].alive = FALSE, ![a].pending = {}]
  /\ UNCHANGED call

FailAll(a) ==
  /\ link' = [link EXCEPT ![a].alive = FALSE, ![a].pending = {}]
  /\ call' = Promised(link[a].pending, [ok |-> FALSE, for |-> None])

\* HELLO_ACK; when it cannot be sent the link is dropped, its session is not.
AckAgent(a) ==
  /\ conn[a].pc = "ack"
  /\ \/ /\ SendMaySucceed(a)
        /\ Goto(a, "top")
        /\ UNCHANGED <<server, agents, link, call>>
     \/ /\ SendMayFail(a)
        /\ FailAll(a)
        /\ agents' = agents \ {a}
        /\ Leave(a)
  /\ UNCHANGED <<main, runtime>>

-----------------------------------------------------------------------------
(* serve_agent.                                                            *)

AgentTop(a) ==
  /\ conn[a].pc = "top" /\ a \in Agents
  /\ Goto(a, IF server.stopping \/ ~link[a].alive THEN "fail" ELSE "recv")
  /\ UNCHANGED <<main, server, agents, link, call, runtime>>

AgentReceiveFails(a) ==
  /\ conn[a].pc = "recv" /\ a \in Agents
  /\ ~conn[a].open \/ conn[a].peer = "closed"
  /\ conn' = [conn EXCEPT ![a].open = FALSE, ![a].pc = "fail"]
  /\ UNCHANGED <<main, server, agents, link, call, runtime>>

\* deliver: a response settles the request of its identity, or nothing.
Deliver(a) ==
  LET message == Head(link[a].inbox)
      settled == {r \in link[a].pending : r.identity = message.identity}
  IN  /\ message.kind = "response"
      /\ call' = Promised(settled, [ok |-> message.ok, for |-> message.client])
      /\ link' = [link EXCEPT ![a].inbox = Tail(@), ![a].pending = @ \ settled]
      /\ Goto(a, "top")
      /\ UNCHANGED runtime

\* handle_agent_request: register_physical under the agent's session.  The
\* agent is told the outcome; the device is noted on its link.
RegisterDevice(a) ==
  LET key == [session |-> conn[a].session, request |-> 2]
      fresh == key \notin runtime.window
  IN  /\ Head(link[a].inbox).kind = "register"
      /\ runtime' = [runtime EXCEPT !.window = @ \cup {key}]
      /\ \/ /\ SendMaySucceed(a)
            /\ link' = [link EXCEPT ![a].inbox = Tail(@), ![a].owns = fresh,
                                    ![a].outbox = Append(@, [kind |-> "registered", ok |-> fresh])]
            /\ Goto(a, "top")
         \/ /\ SendMayFail(a)
            /\ link' = [link EXCEPT ![a].inbox = Tail(@), ![a].owns = fresh]
            /\ conn' = [conn EXCEPT ![a].open = FALSE, ![a].pc = "fail"]
      /\ UNCHANGED call

AgentReceive(a) ==
  /\ conn[a].pc = "recv" /\ a \in Agents
  /\ link[a].inbox # <<>>
  /\ Deliver(a) \/ RegisterDevice(a)
  /\ UNCHANGED <<main, server, agents>>

\* The end of serve_agent: fail_all, leave the map, agent_disconnected.
FailLink(a) ==
  /\ conn[a].pc = "fail"
  /\ FailAll(a)
  /\ Goto(a, "unlink")
  /\ UNCHANGED <<main, server, agents, runtime>>

\* The link goes, and its channel closes, with the last reference to it: a
\* client thread that has found the link still holds one.
Unlink(a) ==
  /\ conn[a].pc = "unlink"
  /\ agents' = agents \ {a}
  /\ LET held == \E c \in Clients : call[c].agent = a IN
     /\ link' = [link EXCEPT ![a] = IF held THEN [@ EXCEPT !.connected = FALSE] ELSE NoLink]
     /\ conn' = [conn EXCEPT ![a] = IF held THEN [@ EXCEPT !.pc = "done"] ELSE Done]
  /\ server' = [server EXCEPT !.connections = @ - 1]
  /\ UNCHANGED <<main, call, runtime>>

-----------------------------------------------------------------------------
(* The thread of a client.                                                 *)

\* HELLO_ACK under a session number of the coordinator's choice.
Greet(c) ==
  /\ conn[c].pc = "greet"
  /\ \/ /\ SendMaySucceed(c)
        /\ conn' = [conn EXCEPT ![c].session = server.next_session, ![c].pc = "top"]
        /\ server' = [server EXCEPT !.next_session = @ + 1]
     \/ /\ SendMayFail(c)
        /\ conn' = [conn EXCEPT ![c] = Done]
        /\ server' = [server EXCEPT !.next_session = @ + 1, !.connections = @ - 1]
  /\ UNCHANGED <<main, agents, link, call, runtime>>

ClientTop(c) ==
  /\ conn[c].pc = "top" /\ c \in Clients
  /\ IF server.stopping THEN Leave(c) ELSE Goto(c, "recv") /\ UNCHANGED server
  /\ UNCHANGED <<main, agents, link, call, runtime>>

ClientReceiveFails(c) ==
  /\ conn[c].pc = "recv" /\ c \in Clients
  /\ conn[c].peer = "closed"
  /\ Leave(c)
  /\ UNCHANGED <<main, agents, link, call, runtime>>

\* The replay key of the request a client's thread is serving: identities
\* start at 2, after the one of HELLO, on every connection.
Key(c) == [session |-> conn[c].session, request |-> call[c].asked + 2]
Respond(c, response) == call' = [call EXCEPT ![c].response = response]

\* handle_client_request, an operation of the runtime that asks
\* check_request and records its outcome.
Mutation(c) ==
  /\ Respond(c, IF Key(c) \in runtime.window THEN "duplicate" ELSE "ok")
  /\ runtime' = [runtime EXCEPT !.window = @ \cup {Key(c)}]
  /\ Goto(c, "reply")
  /\ UNCHANGED server

\* execute_request; an allocation reserves its bytes first.  The reservation
\* is recorded under the request and is not tested for replay.
Execution(c, op) ==
  /\ call' = [call EXCEPT ![c].op = op, ![c].reserved = (op = "allocate")]
  /\ runtime' = IF op = "allocate"
                  THEN [runtime EXCEPT !.allocated = @ + 1, !.window = @ \cup {Key(c)}]
                  ELSE runtime
  /\ Goto(c, "find")
  /\ UNCHANGED server

ShutdownRequest(c) ==
  /\ server' = [server EXCEPT !.shutdown_requested = TRUE]
  /\ Respond(c, "ok")
  /\ Goto(c, "reply")
  /\ UNCHANGED runtime

\* A request arrives, under the next identity of the client.
ClientReceive(c) ==
  /\ conn[c].pc = "recv" /\ c \in Clients /\ conn[c].peer = "open"
  /\ call[c].asked < MaxRequests
  /\ \E op \in Ops[c] :
       \/ op = "mutate" /\ Mutation(c)
       \/ op \in {"allocate", "kernel"} /\ Execution(c, op)
       \/ op = "shutdown" /\ ShutdownRequest(c)
  /\ UNCHANGED <<main, agents, link>>

\* find_agent_for: the first link, in the order of AgentId, that noted the
\* device.
find_agent_for ==
  {a \in agents : /\ link[a].owns
                  /\ \A b \in agents : link[b].owns => conn[a].session <= conn[b].session}

\* Mutant: an error path without release_allocation.
AbandonedUnreleased(c) ==
  /\ call' = [call EXCEPT ![c].agent = None, ![c].op = "none", ![c].reserved = FALSE,
                          ![c].identity = 0, ![c].promise = None, ![c].response = "error"]
  /\ UNCHANGED runtime

\* A failed request releases what it reserved.
Abandoned(c) ==
  /\ call' = [call EXCEPT ![c].agent = None, ![c].op = "none", ![c].reserved = FALSE,
                          ![c].identity = 0,
                          ![c].promise = None, ![c].response = "error"]
  /\ runtime' = IF call[c].reserved
                  THEN [runtime EXCEPT !.allocated = @ - 1]
                  ELSE runtime

FindAgent(c) ==
  /\ conn[c].pc = "find"
  /\ \/ \E a \in find_agent_for :
          /\ link[a].alive
          /\ call' = [call EXCEPT ![c].agent = a]
          /\ Goto(c, "promise")
          /\ UNCHANGED runtime
     \/ /\ \A a \in find_agent_for : ~link[a].alive
        /\ Abandoned(c)
        /\ Goto(c, "reply")
  /\ UNCHANGED <<main, server, agents, link>>

\* Mutant: next_request_ is read and not advanced.
MakePromiseTwice(c) ==
  LET a == call[c].agent IN
  /\ conn[c].pc = "promise"
  /\ call' = [call EXCEPT ![c].identity = link[a].next_request]
  /\ link' = [link EXCEPT ![a].pending = @ \cup {[identity |-> link[a].next_request, client |-> c]}]
  /\ Goto(c, "send")
  /\ UNCHANGED <<main, server, agents, runtime>>

\* AgentLink::request after its test of alive: the promise, then the send.
MakePromise(c) ==
  LET a == call[c].agent IN
  /\ conn[c].pc = "promise"
  /\ call' = [call EXCEPT ![c].identity = link[a].next_request]
  /\ link' = [link EXCEPT ![a].next_request = @ + 1,
                          ![a].pending = @ \cup {[identity |-> link[a].next_request, client |-> c]}]
  /\ Goto(c, "send")
  /\ UNCHANGED <<main, server, agents, runtime>>

SendToAgent(c) ==
  LET a == call[c].agent
      request == [kind |-> "execute", identity |-> call[c].identity, client |-> c]
  IN
  /\ conn[c].pc = "send"
  /\ \/ /\ SendMaySucceed(a)
        /\ link' = [link EXCEPT ![a].outbox = Append(@, request)]
        /\ Goto(c, "wait")
        /\ UNCHANGED <<call, runtime>>
     \/ /\ SendMayFail(a)
        /\ link' = [link EXCEPT ![a].alive = FALSE,
                                ![a].pending = {r \in @ : r.identity # call[c].identity}]
        /\ conn' = [conn EXCEPT ![a].open = FALSE, ![c].pc = "reply"]
        /\ Abandoned(c)
  /\ UNCHANGED <<main, server, agents>>

\* future.wait has no timeout.
AwaitAgent(c) ==
  /\ conn[c].pc = "wait"
  /\ call[c].promise # None
  /\ IF call[c].promise.ok
       THEN /\ call' = [call EXCEPT ![c].agent = None, ![c].op = "none", ![c].reserved = FALSE,
                                    ![c].identity = 0,
                                    ![c].promise = None, ![c].response = "ok"]
            /\ runtime' = [runtime EXCEPT
                             !.granted = IF call[c].reserved THEN @ + 1 ELSE @,
                             !.window = @ \cup {Key(c)}]
       ELSE Abandoned(c)
  /\ Goto(c, "reply")
  /\ UNCHANGED <<main, server, agents, link>>

\* The response, and begin_stop once a shutdown was requested by anybody.
Reply(c) ==
  /\ conn[c].pc = "reply"
  /\ \/ /\ SendMaySucceed(c)
        /\ call' = [call EXCEPT ![c].response = "none", ![c].asked = @ + 1]
        /\ Goto(c, IF server.shutdown_requested THEN "stop" ELSE "top")
        /\ UNCHANGED server
     \/ /\ SendMayFail(c)
        /\ Leave(c)
        /\ UNCHANGED call
  /\ UNCHANGED <<main, agents, link, runtime>>

\* begin_stop: once only; the listener, then the links in the map.
BeginStop(c) ==
  /\ conn[c].pc = "stop"
  /\ IF server.stopping THEN Leave(c)
     ELSE /\ server' = [server EXCEPT !.stopping = TRUE]
          /\ Goto(c, "unlisten")
  /\ UNCHANGED <<main, agents, link, call, runtime>>

CloseListener(c) ==
  /\ conn[c].pc = "unlisten"
  /\ server' = [server EXCEPT !.listening = FALSE]
  /\ Goto(c, "interrupt")
  /\ UNCHANGED <<main, agents, link, call, runtime>>

\* Mutant: begin_stop closes the listener only.
InterruptNothing(c) ==
  /\ conn[c].pc = "interrupt"
  /\ Leave(c)
  /\ UNCHANGED <<main, agents, link, call, runtime>>

Interrupt(c) ==
  /\ conn[c].pc = "interrupt"
  /\ conn' = [d \in Conns |-> IF d \in agents THEN [conn[d] EXCEPT !.open = FALSE]
                              ELSE IF d = c THEN Done ELSE conn[d]]
  /\ server' = [server EXCEPT !.connections = @ - 1]
  /\ UNCHANGED <<main, agents, link, call, runtime>>

-----------------------------------------------------------------------------
(* The peers.                                                              *)

\* A process exits or its connection breaks.  The thread of a client looks
\* at its channel in these places only; an agent also stops serving.
Hangup(c) ==
  /\ conn[c].peer = "open"
  /\ c \in Clients => conn[c].pc \in {"hello", "greet", "recv", "reply"}
  /\ conn' = [conn EXCEPT ![c].peer = "closed"]
  /\ UNCHANGED <<main, server, agents, link, call, runtime>>

\* The agent registers its device once it is acknowledged.
AnnounceDevice(a) ==
  /\ conn[a].peer = "open" /\ conn[a].open
  /\ conn[a].pc \in {"top", "recv"} /\ ~link[a].announced
  /\ link' = [link EXCEPT ![a].announced = TRUE, ![a].inbox = Append(@, [kind |-> "register"])]
  /\ UNCHANGED <<main, server, agents, conn, call, runtime>>

\* The agent reads its next frame: it executes a request, with either
\* outcome, and exits when it could not register.
AgentServes(a) ==
  /\ conn[a].peer = "open" /\ link[a].outbox # <<>>
  /\ LET message == Head(link[a].outbox) IN
     \/ /\ message.kind = "execute"
        /\ \E ok \in BOOLEAN :
             link' = [link EXCEPT ![a].outbox = Tail(@),
                                  ![a].inbox = Append(@, [kind |-> "response", ok |-> ok,
                                                          identity |-> message.identity,
                                                          client |-> message.client])]
        /\ UNCHANGED conn
     \/ /\ message.kind = "registered"
        /\ link' = [link EXCEPT ![a].outbox = Tail(@)]
        /\ conn' = IF message.ok THEN conn ELSE [conn EXCEPT ![a].peer = "closed"]
  /\ UNCHANGED <<main, server, agents, call, runtime>>

-----------------------------------------------------------------------------
Init ==
  /\ main = "accept"
  /\ server = [stopping |-> FALSE, shutdown_requested |-> FALSE, listening |-> TRUE,
               connections |-> 0, next_session |-> FirstSession]
  /\ agents = {}
  /\ conn = [c \in Conns |-> NoConn]
  /\ link = [a \in Agents |-> NoLink]
  /\ call = [c \in Clients |-> NoCall]
  /\ runtime = [allocated |-> 0, granted |-> 0, window |-> {}, next_sequence |-> FirstSequence]

\* main and the threads of the connections.
MainStep == AcceptEnds \/ Join

AgentThread(a) ==
  \/ HelloFails(a) \/ RegisterAgent(a) \/ AckAgent(a)
  \/ AgentTop(a) \/ AgentReceiveFails(a) \/ AgentReceive(a)
  \/ FailLink(a) \/ Unlink(a)

ClientThread(c) ==
  \/ HelloFails(c) \/ Greet(c) \/ ClientTop(c) \/ ClientReceiveFails(c)
  \/ FindAgent(c) \/ MakePromise(c) \/ SendToAgent(c) \/ AwaitAgent(c)
  \/ Reply(c) \/ BeginStop(c) \/ CloseListener(c) \/ Interrupt(c)

Next ==
  \/ MainStep \/ AcceptFails \/ \E c \in Conns : Accept(c)
  \/ \E a \in Agents : AgentThread(a) \/ AnnounceDevice(a) \/ AgentServes(a)
  \/ \E c \in Clients : ClientThread(c) \/ ClientReceive(c)
  \/ \E c \in Conns : Hello(c) \/ Hangup(c)

\* Every thread runs when it can, and an agent that is there answers what it
\* reads.  Nothing obliges a peer to connect, to speak or to hang up, or
\* accept to fail by itself.
Fairness ==
  /\ WF_vars(MainStep)
  /\ \A a \in Agents : WF_vars(AgentThread(a)) /\ WF_vars(AgentServes(a))
  /\ \A c \in Clients : WF_vars(ClientThread(c))

Spec == Init /\ [][Next]_vars /\ Fairness

-----------------------------------------------------------------------------
\* Correlation (AgentLink::request, deliver): a client thread is handed the
\* agent's response to its own request, whatever the number of requests on
\* the link and however the connections end.
ResponseIsForTheRequest ==
  \A c \in Clients :
    (call[c].promise # None /\ call[c].promise.ok) => call[c].promise.for = c

\* execute_request: the bytes on account are those of the allocations that
\* an agent confirmed and of the requests still in flight; no error path, lost
\* agent or failed send leaves a reservation behind.
ReservationsSettle ==
  runtime.allocated = runtime.granted + Cardinality({c \in Clients : call[c].reserved})

\* A client thread that waits for an agent (future.wait, which has no timeout)
\* resumes while the coordinator is not being stopped: the agent answers, or
\* fail_all settles the promise when the link ends.
RequestSettles ==
  \A c \in Clients : conn[c].pc = "wait" ~> (conn[c].pc # "wait" \/ server.stopping)

\* A thread that begin_stop does not reach: it reads from a client, or from a
\* connection that has not said HELLO, whose remote end stays open and silent.
HeldByPeer(c) ==
  /\ conn[c].peer = "open"
  /\ conn[c].pc = "hello" \/ (c \in Clients /\ conn[c].pc = "recv")
\* A client thread whose promise was made after the link's thread, seeing
\* stopping first, had already failed all of them.
Stranded(c) ==
  /\ c \in Clients /\ conn[c].pc = "wait" /\ call[c].promise = None
  /\ conn[call[c].agent].pc = "done"

\* begin_stop, then the joins of main: once the stop has begun the process
\* exits, unless a thread is held by a silent peer or stranded.  No agent,
\* registering, executing or gone, holds it up.
StopCompletes ==
  server.stopping ~> (main = "exited" \/ \E c \in Conns : HeldByPeer(c) \/ Stranded(c))

\* check_request refuses a replay: a request whose identity was used once on
\* its connection is never answered as a duplicate.
FreshRequestIsNotDuplicate ==
  \A c \in Clients : call[c].response # "duplicate"
=============================================================================
