-------------------------- MODULE ProviderService --------------------------
(* ProviderServer objects that share the path of one Unix socket, the process  *)
(* each of them starts, and clients of the service (provider/service.py,       *)
(* _server.py, _transport.py, _protocol.py).  A process serves one connection  *)
(* after the other; a connection is a place in the queue of a listener.        *)
EXTENDS Naturals, Sequences, SequencesExt, FiniteSets

CONSTANTS
    Owners,         \* ProviderServer objects
    Clients,        \* RemoteProvider and RemoteFilterPredicate callers
    Uses,           \* how the owners are used, with the bounds of each use
    NoPath          \* nothing is bound, no connection

ASSUME ServiceAssumption ==
    /\ Uses \subseteq [discipline : {"turns", "guarded", "any"},
                       starts : Nat,   \* bound: starts of one owner
                       calls : Nat,    \* bound: requests of one client
                       deaths : Nat]   \* bound: servers killed from outside
    /\ NoPath \notin Owners \X Nat

Owner(o) == <<"owner", o>>
Server(o) == <<"server", o>>
Client(c) == <<"client", c>>
Probers == {Owner(o) : o \in Owners} \cup {Server(o) : o \in Owners}
Requesters == Probers \cup {Client(c) : c \in Clients}

VARIABLES
    path,       \* what is bound at the path: the listener of a start, or NoPath
    at,         \* o -> where the call of start or stop is
    handle,     \* o -> _process is set
    starts,     \* o -> its starts so far
    server,     \* o -> where its process is
    queue,      \* o -> the connections its listener has accepted or will accept
    conn,       \* r -> the state of the connection of r, its command, its peer
    probe,      \* p -> where unlink_address is
    calls,      \* c -> requests so far
    deaths,     \* processes killed from outside so far
    use         \* the use this behaviour makes of the owners

pvars == <<path, at, handle, starts, server, queue, conn, probe, calls, deaths, use>>

NoConn == [state |-> "none", cmd |-> "none", to |-> NoPath]

PInit ==
    /\ path = NoPath
    /\ at = [o \in Owners |-> "idle"]
    /\ handle = [o \in Owners |-> FALSE]
    /\ starts = [o \in Owners |-> 0]
    /\ server = [o \in Owners |-> "off"]
    /\ queue = [o \in Owners |-> <<>>]
    /\ conn = [r \in Requesters |-> NoConn]
    /\ probe = [p \in Probers |-> "off"]
    /\ calls = [c \in Clients |-> 0]
    /\ deaths = 0
    /\ use \in Uses

-----------------------------------------------------------------------------
\* The listener of the present start of o.
Listener(o) == <<o, starts[o]>>

\* The kernel takes connections from the bind until the socket is closed.
Listens(o) == server[o] \in {"accepting", "busy", "ending"}

\* What becomes of a connection.
Turned(c, state) == [c EXCEPT !.state = state]

\* A connect to the path succeeds.
Reachable == path # NoPath /\ Listens(path[1]) /\ path = Listener(path[1])

\* Client() puts a connection into the queue; with an authkey the caller then
\* waits in the handshake, as it does for the answer to its request.
Connect(r, cmd) ==
    /\ Reachable
    /\ queue' = [queue EXCEPT ![path[1]] = Append(@, r)]
    /\ conn' = [conn EXCEPT ![r] = [state |-> "queued", cmd |-> cmd, to |-> path]]

Answered(r) == conn[r].state = "answered"
Broken(r) == conn[r].state = "broken"

-----------------------------------------------------------------------------
(* unlink_address: look at the path, connect to what is there, remove it.      *)
LookUnprobed(p) ==
    /\ probe[p] = "look"
    /\ probe' = [probe EXCEPT ![p] = IF path = NoPath THEN "done" ELSE "stale"]
    /\ UNCHANGED <<queue, conn, path, at, handle, starts, server, calls, deaths, use>>

LookAtPath(p) ==
    /\ probe[p] = "look"
    /\ \/ /\ path = NoPath
          /\ probe' = [probe EXCEPT ![p] = "done"]
          /\ UNCHANGED <<queue, conn>>
       \/ /\ Connect(p, "probe")
          /\ probe' = [probe EXCEPT ![p] = "asking"]
       \/ /\ path # NoPath /\ ~Reachable
          /\ probe' = [probe EXCEPT ![p] = "stale"]
          /\ UNCHANGED <<queue, conn>>
    /\ UNCHANGED <<path, at, handle, starts, server, calls, deaths, use>>

\* socket_in_use: a connection that breaks is a reset, "not in use", or the end
\* of file in the handshake, which is not among the errors it catches.
Probed(p) ==
    /\ probe[p] = "asking"
    /\ \/ Answered(p) /\ probe' = [probe EXCEPT ![p] = "raised"]
       \/ Broken(p) /\ \E s \in {"stale", "raised"} : probe' = [probe EXCEPT ![p] = s]
    /\ conn' = [conn EXCEPT ![p] = NoConn]
    /\ UNCHANGED <<path, at, handle, starts, server, queue, calls, deaths, use>>

\* os.unlink removes whatever is at the path by now.
RemovePath(p) ==
    /\ probe[p] = "stale"
    /\ path' = NoPath
    /\ probe' = [probe EXCEPT ![p] = "done"]
    /\ UNCHANGED <<at, handle, starts, server, queue, conn, calls, deaths, use>>

-----------------------------------------------------------------------------
(* The server process: serve_provider.                                        *)

\* A queue without the connection of r, which is in it once if at all.
Without(s, r) ==
    IF r \in ToSet(s) THEN RemoveAt(s, CHOOSE k \in DOMAIN s : s[k] = r) ELSE s

\* The process of o ends: its connections break, the one it had made is seen
\* as closed by its peer, and the path stays as it is.
Dies(o) ==
    /\ server' = [server EXCEPT ![o] = "off"]
    /\ probe' = [probe EXCEPT ![Server(o)] = "off"]
    /\ queue' = [q \in Owners |-> IF q = o THEN <<>> ELSE Without(queue[q], Server(o))]
    /\ conn' = [r \in Requesters |->
                  IF r = Server(o) THEN NoConn
                  ELSE IF r \in ToSet(queue[o]) THEN Turned(conn[r], "broken")
                  ELSE conn[r]]
    /\ UNCHANGED path

Opened(o) ==
    /\ server[o] = "opening"
    /\ \/ /\ probe[Server(o)] = "done"
          /\ server' = [server EXCEPT ![o] = "loading"]
          /\ probe' = [probe EXCEPT ![Server(o)] = "off"]
          /\ UNCHANGED <<path, queue, conn>>
       \/ probe[Server(o)] = "raised" /\ Dies(o)
    /\ UNCHANGED <<at, handle, starts, calls, deaths, use>>

\* provider_factory returns or raises; the bind fails when the path exists.
Load(o) ==
    /\ server[o] = "loading"
    /\ \/ server' = [server EXCEPT ![o] = "binding"] /\ UNCHANGED <<path, queue, conn, probe>>
       \/ Dies(o)
    /\ UNCHANGED <<at, handle, starts, calls, deaths, use>>

Bind(o) ==
    /\ server[o] = "binding"
    /\ \/ /\ path = NoPath
          /\ path' = Listener(o)
          /\ server' = [server EXCEPT ![o] = "accepting"]
          /\ UNCHANGED <<queue, conn, probe>>
       \/ path # NoPath /\ Dies(o)
    /\ UNCHANGED <<at, handle, starts, calls, deaths, use>>

Reply(o, r) ==
    /\ queue' = [queue EXCEPT ![o] = Tail(@)]
    /\ conn' = IF conn[r].state = "queued" THEN [conn EXCEPT ![r] = Turned(@, "answered")]
                ELSE conn

\* _accept_connection and _serve_connection.  A caller that has gone may have sent
\* no request; its close is not obeyed, as the answer cannot be sent.  A probe has
\* no request to read.
Serve(o) ==
    /\ server[o] = "accepting" /\ queue[o] # <<>>
    /\ LET r == Head(queue[o]) IN
        \/ conn[r].cmd = "call" /\ server' = [server EXCEPT ![o] = "busy"] /\ UNCHANGED <<queue, conn>>
        \/ /\ conn[r].cmd = "close" /\ conn[r].state # "gone"
           /\ server' = [server EXCEPT ![o] = "ending"] /\ Reply(o, r)
        \/ /\ conn[r].cmd \in {"ping", "probe"} \/ conn[r].state = "gone"
           /\ Reply(o, r) /\ UNCHANGED server
    /\ UNCHANGED <<path, at, handle, starts, probe, calls, deaths, use>>

CallEndsOpen(o) ==
    /\ server[o] = "busy"
    /\ \/ Reply(o, Head(queue[o]))
       \/ queue' = [queue EXCEPT ![o] = Tail(@)] /\ UNCHANGED conn
    /\ server' = [server EXCEPT ![o] = "accepting"]
    /\ UNCHANGED <<path, at, handle, starts, probe, calls, deaths, use>>

\* The provider returns or raises; either is one response.
CallEnds(o) ==
    /\ server[o] = "busy"
    /\ Reply(o, Head(queue[o]))
    /\ server' = [server EXCEPT ![o] = "accepting"]
    /\ UNCHANGED <<path, at, handle, starts, probe, calls, deaths, use>>

\* listener.close closes the socket, then unlinks the path it was bound to.
CloseSocket(o) ==
    /\ server[o] = "ending"
    /\ server' = [server EXCEPT ![o] = "leaving"]
    /\ queue' = [queue EXCEPT ![o] = <<>>]
    /\ conn' = [r \in Requesters |-> IF r \in ToSet(queue[o])
                                     THEN Turned(conn[r], "broken") ELSE conn[r]]
    /\ UNCHANGED <<path, at, handle, starts, probe, calls, deaths, use>>

UnlinkListener(o) ==
    /\ server[o] = "leaving"
    /\ \/ /\ path # NoPath
          /\ path' = NoPath
          /\ server' = [server EXCEPT ![o] = "left"]
          /\ probe' = [probe EXCEPT ![Server(o)] = "look"]
          /\ UNCHANGED <<queue, conn>>
       \/ path = NoPath /\ Dies(o)
    /\ UNCHANGED <<at, handle, starts, calls, deaths, use>>

Left(o) ==
    /\ server[o] = "left" /\ probe[Server(o)] \in {"done", "raised"}
    /\ Dies(o)
    /\ UNCHANGED <<at, handle, starts, calls, deaths, use>>

\* The process is killed by somebody else than its owner.
Killed(o) ==
    /\ server[o] # "off" /\ deaths < use.deaths /\ use.discipline # "guarded"
    /\ deaths' = deaths + 1
    /\ Dies(o)
    /\ UNCHANGED <<at, handle, starts, calls, use>>

-----------------------------------------------------------------------------
(* ProviderServer.start and stop. *)
SetCall(o, c) == at' = [at EXCEPT ![o] = c]

\* "turns": one owner at a time, from start to the end of stop.  "guarded": their
\* calls do not overlap, and nobody else closes or kills a server.  "any".
MayBegin(o) ==
    \A q \in Owners \ {o} :
        /\ use.discipline = "turns" => ~handle[q]
        /\ use.discipline # "any" => at[q] = "idle"

BeginStart(o) ==
    /\ at[o] = "idle" /\ ~handle[o] /\ starts[o] < use.starts /\ MayBegin(o)
    /\ SetCall(o, "starting")
    /\ probe' = [probe EXCEPT ![Owner(o)] = "look"]
    /\ UNCHANGED <<path, handle, starts, server, queue, conn, calls, deaths, use>>

\* The path is free: the process is started; or it is in use and start raises.
Spawn(o) ==
    /\ at[o] = "starting"
    /\ \/ /\ probe[Owner(o)] = "done"
          /\ SetCall(o, "waiting")
          /\ handle' = [handle EXCEPT ![o] = TRUE]
          /\ starts' = [starts EXCEPT ![o] = @ + 1]
          /\ server' = [server EXCEPT ![o] = "opening"]
          /\ probe' = [probe EXCEPT ![Owner(o)] = "off", ![Server(o)] = "look"]
       \/ /\ probe[Owner(o)] = "raised"
          /\ SetCall(o, "idle")
          /\ probe' = [probe EXCEPT ![Owner(o)] = "off"]
          /\ UNCHANGED <<handle, starts, server>>
    /\ UNCHANGED <<path, queue, conn, calls, deaths, use>>

\* _wait_ready: a dead process, else a ping.  A ping that fails is sent again
\* until the deadline.
Ping(o) ==
    /\ at[o] = "waiting" /\ server[o] # "off"
    /\ Connect(Owner(o), "ping")
    /\ SetCall(o, "pinging")
    /\ UNCHANGED <<path, handle, starts, server, probe, calls, deaths, use>>

Pong(o) ==
    /\ at[o] = "pinging"
    /\ \/ Answered(Owner(o)) /\ SetCall(o, "idle") /\ UNCHANGED conn
       \/ /\ Broken(Owner(o))
          /\ \E c \in {"waiting", "cleaning"} : SetCall(o, c)
          /\ conn' = [conn EXCEPT ![Owner(o)] = NoConn]
    /\ UNCHANGED <<path, handle, starts, server, queue, probe, calls, deaths, use>>

StartFails(o) ==
    /\ at[o] = "waiting" /\ (server[o] = "off" \/ ~Reachable)
    /\ SetCall(o, "cleaning")
    /\ UNCHANGED <<path, handle, starts, server, queue, conn, probe, calls, deaths, use>>

\* terminate ends the process, or it lingers and is killed; then the path is
\* unlinked.  _cleanup_failed_start and the end of stop.
EndProcess(o) ==
    /\ at[o] \in {"cleaning", "joining"}
    /\ \/ server[o] # "off" /\ Dies(o) /\ UNCHANGED at
       \/ /\ server[o] = "off"
          /\ SetCall(o, "unlinking")
          /\ probe' = [probe EXCEPT ![Owner(o)] = "look"]
          /\ UNCHANGED <<path, server, queue, conn>>
    /\ UNCHANGED <<handle, starts, calls, deaths, use>>

Unlinked(o) ==
    /\ at[o] = "unlinking" /\ probe[Owner(o)] \in {"done", "raised"}
    /\ SetCall(o, "idle")
    /\ handle' = [handle EXCEPT ![o] = probe[Owner(o)] = "raised"]
    /\ probe' = [probe EXCEPT ![Owner(o)] = "off"]
    /\ UNCHANGED <<path, starts, server, queue, conn, calls, deaths, use>>

\* stop sends CLOSE to the address and waits for the answer, without a timeout.
BeginStop(o) ==
    /\ at[o] = "idle" /\ handle[o] /\ MayBegin(o)
    /\ \/ Connect(Owner(o), "close") /\ SetCall(o, "closing")
       \/ ~Reachable /\ SetCall(o, "joining") /\ UNCHANGED <<queue, conn>>
    /\ UNCHANGED <<path, handle, starts, server, probe, calls, deaths, use>>

Closed(o) ==
    /\ at[o] = "closing" /\ (Answered(Owner(o)) \/ Broken(Owner(o)))
    /\ SetCall(o, "joining")
    /\ conn' = [conn EXCEPT ![Owner(o)] = NoConn]
    /\ UNCHANGED <<path, handle, starts, server, queue, probe, calls, deaths, use>>

-----------------------------------------------------------------------------
(* Clients: request. *)
Send(c, cmd) ==
    /\ conn[Client(c)].state \in {"none", "answered", "broken"} /\ calls[c] < use.calls
    /\ cmd = "close" => use.discipline # "guarded"
    /\ calls' = [calls EXCEPT ![c] = @ + 1]
    /\ \/ Connect(Client(c), cmd)
       \/ /\ ~Reachable
          /\ conn' = [conn EXCEPT ![Client(c)] = [NoConn EXCEPT !.state = "broken", !.cmd = cmd]]
          /\ UNCHANGED queue
    /\ UNCHANGED <<path, at, handle, starts, server, probe, deaths, use>>

\* A client that is interrupted leaves a connection nobody reads.
GiveUp(c) ==
    /\ conn[Client(c)].state = "queued"
    /\ conn' = [conn EXCEPT ![Client(c)] = Turned(@, "gone")]
    /\ UNCHANGED <<path, at, handle, starts, server, queue, probe, calls, deaths, use>>

-----------------------------------------------------------------------------
ProbeStep(p) == LookAtPath(p) \/ Probed(p) \/ RemovePath(p)
ServerStep(o) ==
    \/ ProbeStep(Server(o)) \/ Opened(o) \/ Load(o) \/ Bind(o) \/ Serve(o)
    \/ CallEnds(o) \/ CloseSocket(o) \/ UnlinkListener(o) \/ Left(o)
OwnerStep(o) ==
    \/ ProbeStep(Owner(o)) \/ Spawn(o) \/ Ping(o) \/ Pong(o) \/ StartFails(o)
    \/ EndProcess(o) \/ Unlinked(o) \/ Closed(o)

PNext ==
    \/ \E o \in Owners : ServerStep(o) \/ OwnerStep(o) \/ BeginStart(o) \/ BeginStop(o) \/ Killed(o)
    \/ \E c \in Clients : GiveUp(c) \/ \E cmd \in {"call", "close"} : Send(c, cmd)

PSpec == PInit /\ [][PNext]_pvars

\* Processes run, providers and factories return, timeouts pass.
PFairness == \A o \in Owners : WF_pvars(ServerStep(o)) /\ WF_pvars(OwnerStep(o))
PFairSpec == PSpec /\ PFairness

-----------------------------------------------------------------------------
Up(o) == at[o] = "idle" /\ handle[o]

\* Whatever owners, clients and kills overlap, a start that failed and a stop
\* that returned leave no process behind.  As long as the calls of owners of one
\* path do not overlap: a start that returned was answered by its own process,
\* which keeps the path until it ends, although another owner tries to start,
\* sockets of killed processes are found at the path, and processes that are
\* closed unlink it late; and the last stop leaves the path free (service.py,
\* _server.py, unlink_address).
ServersHold ==
    /\ \A o \in Owners : at[o] = "idle" /\ ~handle[o] => server[o] = "off"
    /\ use.discipline # "any" =>
        /\ \A o \in Owners : Up(o) =>
            /\ conn[Owner(o)].to = Listener(o)
            /\ server[o] \in {"accepting", "busy"} => path = Listener(o)
            /\ \A q \in Owners \ {o} : ~handle[q]
        /\ (\A o \in Owners : at[o] = "idle" /\ ~handle[o]) => path = NoPath

\* Every start and stop ends and every request gets an answer or an error, with
\* a server that serves one connection at a time, is killed, closed by a client or
\* replaced, and probes the path of others while it starts and ends.
EveryRequestReturns ==
    /\ \A c \in Clients : conn[Client(c)].state = "queued" ~> conn[Client(c)].state # "queued"
    /\ \A o \in Owners : at[o] # "idle" ~> at[o] = "idle"
=============================================================================
