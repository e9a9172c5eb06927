-------------------------------- MODULE Cli --------------------------------
(***************************************************************************)
(* The program of src/cli/src/main.rs in the two ways it runs.  As a       *)
(* server its background threads and the owners of sockets work side by    *)
(* side (SocketControl).  With a bridge request it starts pinned workers,  *)
(* each with a forwarder, a socket and one batch, joins them, prints the   *)
(* sum of their counts and ends; no metrics thread is started then.  When  *)
(* one worker is asked for, run_demo is that worker, on the main thread.   *)
(***************************************************************************)
EXTENDS SocketControl, FiniteSetsExt

CONSTANTS
  Workers,  \* the workers, in the order main joins them
  SocketOf, \* the RealSocket a worker tries to open; all want the same label
  Requests  \* bridge requests, with the environment they run in: valid, real,
            \* num_workers, routes ("none", one to the "dest" of the demo packet,
            \* or to some "other"), mode (of the forwarder, as in Forwarder)

Pool == {Workers[i] : i \in DOMAIN Workers}

\* There are as many workers as any request asks for.
ASSUME CliAssumption ==
  /\ Workers \in Seq(Pool) /\ Len(Workers) > 0
  /\ \A w, v \in DOMAIN Workers : Workers[w] = Workers[v] => w = v
  /\ \A w \in Pool : SocketOf[w] \in Sockets
  /\ \A r \in Requests : /\ r.num_workers \in 0..Len(Workers)
                         /\ r.routes \in {"none", "dest", "other"}

VARIABLES
  main,      \* server, or the stage of a bridge run: bridge, join, exit,
             \* rejected or panicked
  request,   \* its bridge request
  worker,    \* the stage of each worker
  counts,    \* the ForwarderStats a worker returned
  joined,    \* workers joined so far
  telemetry  \* the sum, and then the response

cliVars == <<main, request, worker, counts, joined, telemetry>>
allVars == <<controlVars, cliVars>>

NoStats == [received |-> 0, forwarded |-> 0, encrypted |-> 0, route_misses |-> 0]

\* read_bridge_request, then validate.
CliInit ==
  /\ ControlInit
  /\ main \in {"server", "bridge"}
  /\ request \in Requests
  /\ main = "server" => request = CHOOSE r \in Requests : TRUE
  /\ worker = [w \in Pool |-> "none"] /\ counts = [w \in Pool |-> NoStats]
  /\ joined = 0 /\ telemetry = NoStats

\* validate fails: exit with status 1.
Reject ==
  /\ main = "bridge" /\ ~request.valid
  /\ main' = "rejected"
  /\ UNCHANGED <<controlVars, request, worker, counts, joined, telemetry>>

\* run_demo, on the main thread.
Alone == request.num_workers <= 1

NumWorkers == IF Alone THEN 1 ELSE request.num_workers
Started(w) == \E i \in 1..NumWorkers : Workers[i] = w
Team == {w \in Pool : Started(w)}

Spawn ==
  /\ main = "bridge" /\ request.valid
  /\ main' = "join"
  /\ worker' = [w \in Pool |-> IF Started(w) THEN "start" ELSE "none"]
  /\ UNCHANGED <<controlVars, request, counts, joined, telemetry>>

----------------------------------------------------------------------------
\* build_socket: RealSocket::new when an interface is configured, else, or
\* when that fails, the mock that holds one demo packet.
WorkerOpens(w) ==
  /\ worker[w] = "start" /\ request.real
  /\ OpenNext(SocketOf[w]) \/ OpenDone(SocketOf[w]) \/ OpenFails(SocketOf[w]) \/ DropNext(SocketOf[w])
  /\ UNCHANGED cliVars

\* Whether a worker finds a next hop for the demo packet.  run_demo has a route
\* to it.  Any route answers the predictive fallback, which only the primary
\* spray loop does without.
Found ==
  \/ Alone \/ request.routes = "dest"
  \/ request.routes = "other" /\ request.mode # "primary"

\* What process_batch counts for the demo packet: every forwarder has a
\* session, so a packet with a next hop is encrypted, and one without is a
\* miss and is forwarded as it is.
OnePacket ==
  [received |-> 1, forwarded |-> IF Found THEN 0 ELSE 1, encrypted |-> IF Found THEN 1 ELSE 0,
   route_misses |-> IF Found THEN 0 ELSE 1]

\* process_batch.  A real socket has nothing to poll, the mock has one packet.
WorkerProcesses(w) ==
  LET mock == ~request.real \/ phase[SocketOf[w]] = "closed"
  IN  /\ worker[w] = "start"
      /\ mock \/ phase[SocketOf[w]] = "live"
      /\ counts' = [counts EXCEPT ![w] = IF mock THEN OnePacket ELSE NoStats]
      /\ worker' = [worker EXCEPT ![w] = "return"]
      /\ UNCHANGED <<controlVars, main, request, joined, telemetry>>

\* The batch panics: unwinding drops the socket all the same.
WorkerPanics(w) ==
  /\ worker[w] = "start"
  /\ ~request.real \/ phase[SocketOf[w]] \in {"live", "closed"}
  /\ worker' = [worker EXCEPT ![w] = "unwind"]
  /\ UNCHANGED <<controlVars, main, request, counts, joined, telemetry>>

\* The boxed socket goes out of scope, and the worker ends.
WorkerDrops(w) ==
  /\ worker[w] \in {"return", "unwind"}
  /\ \/ OwnerReleases(SocketOf[w]) /\ UNCHANGED cliVars
     \/ DropNext(SocketOf[w]) /\ UNCHANGED cliVars
     \/ /\ phase[SocketOf[w]] \in {"unused", "closed"}
        /\ worker' = [worker EXCEPT ![w] = IF @ = "return" THEN "done" ELSE "panicked"]
        /\ UNCHANGED <<controlVars, main, request, counts, joined, telemetry>>

PlusLast(a, b) == b

\* The fold adds field by field.
Plus(a, b) == [f \in DOMAIN a |-> a[f] + b[f]]

\* join().ok(), one handle after the other: a panicked worker is passed over.
Join ==
  /\ main = "join" /\ joined < Cardinality(Team)
  /\ LET w == Workers[joined + 1]
     IN  /\ worker[w] \in {"done", "panicked"} /\ (worker[w] = "panicked" => ~Alone)
         /\ telemetry' = IF worker[w] = "done" THEN Plus(telemetry, counts[w]) ELSE telemetry
  /\ joined' = joined + 1
  /\ UNCHANGED <<controlVars, main, request, worker, counts>>

\* A panic of run_demo is one of main, and ends the program.
MainPanics ==
  /\ main = "join" /\ Alone /\ worker[Workers[1]] = "panicked"
  /\ main' = "panicked"
  /\ UNCHANGED <<controlVars, request, worker, counts, joined, telemetry>>

\* render_telemetry, and main returns.
Report ==
  /\ main = "join" /\ joined = Cardinality(Team)
  /\ main' = "exit"
  /\ UNCHANGED <<controlVars, request, worker, counts, joined, telemetry>>

Health == IF telemetry.route_misses > 0 THEN "degraded" ELSE "ok"

Ended == {"exit", "rejected", "panicked"}
Exited == main \in Ended /\ UNCHANGED allVars

\* The main thread of a server sleeps in a loop.
Sleeps == main = "server" /\ UNCHANGED allVars

Bridge ==
  \/ Reject \/ Spawn \/ Join \/ MainPanics \/ Report \/ Exited
  \/ main = "join" /\ \E w \in Pool :
       WorkerOpens(w) \/ WorkerProcesses(w) \/ WorkerPanics(w) \/ WorkerDrops(w)

CliNext ==
  \/ main = "server" /\ ControlNext /\ UNCHANGED cliVars
  \/ Sleeps
  \/ Bridge

\* The threads the code starts keep running, and so does one inside Drop.
Fairness ==
  /\ WF_allVars(main = "server" /\ Answer /\ UNCHANGED cliVars)
  /\ WF_allVars(main = "server" /\ Update /\ UNCHANGED cliVars)
  /\ \A s \in Sockets : WF_allVars(main = "server" /\ DropNext(s) /\ UNCHANGED cliVars)

CliSpec == CliInit /\ [][CliNext]_allVars /\ Fairness

----------------------------------------------------------------------------
CliTypeOK ==
  /\ ControlTypeOK
  /\ main \in {"server", "bridge", "join"} \cup Ended
  /\ worker \in [Pool -> {"none", "start", "return", "unwind", "done", "panicked"}]
  /\ joined \in 0..Len(Workers)

\* When main ends nothing of any socket is left behind, in the kernel or in
\* the registry of counters, also when workers or main itself panicked or a
\* worker lost the race for the interface.
BridgeReleases ==
  main \in Ended =>
    /\ \A s \in Sockets : phase[s] \in {"unused", "closed"} /\ held[s] = {}
    /\ \A l \in Labels : SOCKET_REGISTRY[l] = None

\* The telemetry counts the packet of every worker that returned, once: as
\* encrypted or as forwarded, and a miss as forwarded too.  It is degraded
\* exactly when one of these workers had a packet and no next hop for it.
TelemetryAdds ==
  main = "exit" =>
    LET returned == {w \in Pool : worker[w] = "done"}
        mocked == {w \in returned : counts[w].received = 1}
    IN  /\ telemetry.received = Cardinality(mocked)
        /\ telemetry.forwarded + telemetry.encrypted = telemetry.received
        /\ telemetry.route_misses = telemetry.forwarded
        /\ Health = "degraded" <=>
             /\ mocked # {} /\ request.num_workers > 1
             /\ \/ request.routes = "none"
                \/ request.routes = "other" /\ request.mode = "primary"
====
