--------------------------- MODULE SocketControl ---------------------------
(***************************************************************************)
(* The life of RealSocket objects (src/afxdp/src/socket.rs), the two       *)
(* registries that know them, and the threads start_metrics_http of        *)
(* src/cli/src/main.rs starts: one answers control requests, the other     *)
(* copies the per-socket counters into gauges.  Each socket has an owner   *)
(* thread that opens it, registers it, sends under its mutex and drops it. *)
(*                                                                         *)
(* The instance registry holds Weak references: the control thread makes   *)
(* one strong while it looks at a socket, and when the owner has let go    *)
(* meanwhile it is the control thread that runs Drop.  The lock of that    *)
(* registry is held during a scan only: while a request is read, and       *)
(* between the two scans of a POST to all sockets, owners may register and *)
(* prune.                                                                  *)
(***************************************************************************)
EXTENDS Integers, Sequences, SequencesExt, FiniteSets

CONSTANTS
  Sockets,     \* each is opened once
  LabelOf,     \* its "interface:queue"; a later socket may have the same
  RawRequests, \* requests as they are read, see Parse
  PruneLimit,  \* 1024
  None

ASSUME SocketControlAssumption ==
  /\ IsFiniteSet(Sockets) /\ None \notin Sockets /\ PruneLimit \in Nat
  /\ \A raw \in RawRequests : raw.path \in {"get_control", "post_control", "other"}

VARIABLES
  phase,           \* of a socket: unused, opening, live, dropping or closed
  held,            \* the resources it holds
  SOCKET_REGISTRY, \* label -> the socket whose counters are counted under it
  SOCKET_INSTANCE_REGISTRY, \* Weak references, oldest first
  refs,            \* who holds a strong one: owner, control
  sending,         \* sockets whose mutex the owner holds
  poisoned,        \* sockets whose mutex is poisoned
  headroom,        \* free_list.headroom
  http,            \* the control thread: accept, request and between without the
                   \* registry's lock; snapshot and apply with it
  steady,          \* history: sockets that could be reconfigured all the time
                   \* since the request was accepted
  updater,         \* the thread that updates the gauges, with its locals
  gauges           \* labels that have gauges

socketVars == <<phase, held, SOCKET_REGISTRY>>
instanceVars == <<SOCKET_INSTANCE_REGISTRY, refs, sending, poisoned, headroom, steady>>
gaugeVars == <<updater, gauges>>
controlVars == <<socketVars, instanceVars, http, gaugeVars>>

Labels == {LabelOf[s] : s \in Sockets}

\* RealSocket::new acquires these in turn: "bound" is the kernel's hold on the
\* interface and queue, "kernel_umem" its hold on the frames; both end when
\* the file descriptor is closed.
OpenOrder == <<"umem", "fd", "bound", "kernel_umem", "map">>

DropUmemEarly == <<{"map"}, {"metrics"}, {"umem"}, {"fd", "bound", "kernel_umem"}>>
DropClosingFirst == <<{"map"}, {"fd", "bound", "kernel_umem"}, {"metrics"}, {"umem"}>>

\* Drop for RealSocket, and then its fields.
DropOrder == <<{"map"}, {"metrics"}, {"fd", "bound", "kernel_umem"}, {"umem"}>>

NoReply == [ok |-> {}, failed |-> {}]
Accepting == [pc |-> "accept", request |-> None, at |-> 0, upgraded |-> FALSE,
              before |-> {}, applied |-> {}, dropping |-> None, reply |-> NoReply]
Sleeping == [pc |-> "sleep", current |-> {}, prev |-> {}]

ControlInit ==
  /\ phase = [s \in Sockets |-> "unused"] /\ held = [s \in Sockets |-> {}]
  /\ SOCKET_REGISTRY = [l \in Labels |-> None]
  /\ SOCKET_INSTANCE_REGISTRY = <<>>
  /\ refs = [s \in Sockets |-> {}] /\ sending = {} /\ poisoned = {}
  /\ headroom = [s \in Sockets |-> 0]
  /\ http = Accepting /\ steady = {}
  /\ updater = Sleeping /\ gauges = {}

----------------------------------------------------------------------------
(* Opening and dropping a socket. *)

\* The kernel (external) binds one socket to an interface and queue.
Bindable(s) == \A t \in Sockets \ {s} : LabelOf[t] = LabelOf[s] => "bound" \notin held[t]

\* One step of RealSocket::new.
OpenNext(s) ==
  /\ phase[s] \in {"unused", "opening"}
  /\ Cardinality(held[s]) < Len(OpenOrder)
  /\ LET next == OpenOrder[Cardinality(held[s]) + 1]
     IN  /\ next = "bound" => Bindable(s)
         /\ held' = [held EXCEPT ![s] = @ \cup {next}]
  /\ phase' = [phase EXCEPT ![s] = "opening"]
  /\ UNCHANGED <<SOCKET_REGISTRY, instanceVars, http, gaugeVars>>

OpenFailsLeaking(s) ==
  /\ phase[s] \in {"unused", "opening"} /\ "map" \notin held[s]
  /\ phase' = [phase EXCEPT ![s] = "closed"]
  /\ UNCHANGED <<held, SOCKET_REGISTRY, instanceVars, http, gaugeVars>>

\* A step of new fails: the descriptor, if there is one, is closed, and then
\* the local umem is dropped; nothing was mapped or counted yet.
OpenFails(s) ==
  /\ phase[s] \in {"unused", "opening"} /\ "map" \notin held[s]
  /\ phase' = [phase EXCEPT ![s] = "dropping"]
  /\ UNCHANGED <<held, SOCKET_REGISTRY, instanceVars, http, gaugeVars>>

\* new ends by registering the counters, over whatever the label has.
OpenDone(s) ==
  /\ phase[s] = "opening" /\ "map" \in held[s]
  /\ SOCKET_REGISTRY' = [SOCKET_REGISTRY EXCEPT ![LabelOf[s]] = s]
  /\ held' = [held EXCEPT ![s] = @ \cup {"metrics"}]
  /\ phase' = [phase EXCEPT ![s] = "live"]
  /\ refs' = [refs EXCEPT ![s] = {"owner"}]
  /\ UNCHANGED <<SOCKET_INSTANCE_REGISTRY, sending, poisoned, headroom, steady, http, gaugeVars>>

DropLocksInstances(s) == http.pc \in {"snapshot", "apply"}

\* What Drop waits for: not for the registry of instances, whose lock the
\* thread that runs it may hold.
DropWaits(s) == FALSE

\* One step of Drop: the first entry of DropOrder the socket still holds.
\* Unregistering removes the label, whichever socket is counted under it.
DropNext(s) ==
  /\ phase[s] = "dropping" /\ ~DropWaits(s)
  /\ IF held[s] = {}
     THEN phase' = [phase EXCEPT ![s] = "closed"] /\ UNCHANGED <<held, SOCKET_REGISTRY>>
     ELSE \E i \in DOMAIN DropOrder :
            /\ DropOrder[i] \cap held[s] # {}
            /\ \A j \in 1..(i - 1) : DropOrder[j] \cap held[s] = {}
            /\ held' = [held EXCEPT ![s] = @ \ DropOrder[i]]
            /\ SOCKET_REGISTRY' = IF "metrics" \in DropOrder[i]
                                  THEN [SOCKET_REGISTRY EXCEPT ![LabelOf[s]] = None]
                                  ELSE SOCKET_REGISTRY
            /\ UNCHANGED phase
  /\ UNCHANGED <<instanceVars, http, gaugeVars>>

----------------------------------------------------------------------------
(* What the owner does with a live socket. *)

Owned(s) == phase[s] = "live" /\ "owner" \in refs[s]

\* Whether the control thread is inside a scan, with the registry locked.
Scanning == http.pc \in {"snapshot", "apply"}

NeverLocked == FALSE

\* SOCKET_INSTANCE_REGISTRY.lock() would block.
RegistryLocked == Scanning

\* retain(strong_count() > 0): what is left of a registry, in its order.
Retained(reg) ==
  LET kept == {i \in DOMAIN reg : refs[reg[i]] # {}}
      places == {f \in [1..Cardinality(kept) -> kept] :
                   \A i, j \in DOMAIN f : i < j => f[i] < f[j]}
  IN  {[i \in DOMAIN f |-> reg[f[i]]] : f \in places}

\* register_socket_instance, waiting for the registry's lock.
RegisterInstance(s) ==
  /\ Owned(s) /\ ~RegistryLocked
  /\ s \notin ToSet(SOCKET_INSTANCE_REGISTRY)
  /\ LET reg == Append(SOCKET_INSTANCE_REGISTRY, s)
     IN  SOCKET_INSTANCE_REGISTRY' \in IF Len(reg) > PruneLimit THEN Retained(reg) ELSE {reg}
  /\ UNCHANGED <<refs, sending, poisoned, headroom, steady, socketVars, http, gaugeVars>>

StartSend(s) ==
  /\ Owned(s) /\ s \notin sending \cup poisoned
  /\ sending' = sending \cup {s}
  /\ UNCHANGED <<SOCKET_INSTANCE_REGISTRY, refs, poisoned, headroom, steady, socketVars, http, gaugeVars>>

EndSend(s) ==
  /\ s \in sending
  /\ sending' = sending \ {s}
  /\ UNCHANGED <<SOCKET_INSTANCE_REGISTRY, refs, poisoned, headroom, steady, socketVars, http, gaugeVars>>

\* A panic under the mutex poisons it; the socket itself lives on.
PanicInSend(s) ==
  /\ s \in sending
  /\ sending' = sending \ {s} /\ poisoned' = poisoned \cup {s}
  /\ steady' = steady \ {s}
  /\ UNCHANGED <<SOCKET_INSTANCE_REGISTRY, refs, headroom, socketVars, http, gaugeVars>>

\* A reference goes away; the last one runs Drop.
Release(s, who) ==
  /\ refs' = [refs EXCEPT ![s] = @ \ {who}]
  /\ phase' = IF refs[s] = {who} THEN [phase EXCEPT ![s] = "dropping"] ELSE phase

OwnerReleases(s) ==
  /\ Owned(s) /\ s \notin sending
  /\ Release(s, "owner")
  /\ steady' = steady \ {s}
  /\ UNCHANGED <<held, SOCKET_REGISTRY, SOCKET_INSTANCE_REGISTRY, sending, poisoned, headroom,
                 http, gaugeVars>>

OwnerStep(s) ==
  \/ OpenNext(s) \/ OpenFails(s) \/ OpenDone(s) \/ DropNext(s)
  \/ RegisterInstance(s) \/ StartSend(s) \/ EndSend(s) \/ PanicInSend(s) \/ OwnerReleases(s)

----------------------------------------------------------------------------
(* The control thread: one request at a time. *)

\* What a request asks for.  All 4096 bytes of the buffer are searched, so a
\* number is only parsed when white space follows it, and a label runs on
\* into the unused zero bytes when nothing ends it.
Parse(raw) ==
  CASE raw.path = "get_control" -> [op |-> "get", label |-> None]
    [] raw.path = "other" -> [op |-> "other", label |-> None]
    [] raw.path = "post_control" ->
         IF ~raw.body_read \/ raw.after_number # "space" THEN [op |-> "bad", label |-> None]
         ELSE IF raw.label = None THEN [op |-> "all", label |-> None]
         ELSE [op |-> "one", label |-> IF raw.after_label = "nothing" THEN None ELSE raw.label]

\* get, bad requests and other paths are answered without a second pass.
Accept(raw) ==
  /\ http.pc = "accept"
  /\ LET request == [op |-> Parse(raw).op, label |-> Parse(raw).label, raw |-> raw]
     IN  http' = [Accepting EXCEPT !.request = request,
                    !.pc = IF request.op \in {"get", "all", "one"} THEN "request" ELSE "accept"]
  /\ steady' = {s \in ToSet(SOCKET_INSTANCE_REGISTRY) : Owned(s) /\ s \notin poisoned}
  /\ UNCHANGED <<SOCKET_INSTANCE_REGISTRY, refs, sending, poisoned, headroom, socketVars, gaugeVars>>

FirstScan == IF http.request.op = "one" THEN "apply" ELSE "snapshot"

\* snapshot_freelist_headrooms, or a function that sets the headroom, takes the
\* registry's lock and starts with its oldest entry.
LockInstances ==
  /\ http.pc \in {"request", "between"}
  /\ http' = [http EXCEPT !.at = 1, !.pc = IF @ = "between" THEN "apply" ELSE FirstScan]
  /\ UNCHANGED <<socketVars, instanceVars, gaugeVars>>

Current == SOCKET_INSTANCE_REGISTRY[http.at]
InScan == Scanning /\ http.at <= Len(SOCKET_INSTANCE_REGISTRY)

\* A Drop that the scan has to run comes first.
Dropped == http.dropping # None => phase[http.dropping] = "closed"

\* weak.upgrade(), and on to the next entry when the socket is gone.
Upgrade ==
  /\ InScan /\ ~http.upgraded /\ Dropped
  /\ IF refs[Current] = {}
     THEN http' = [http EXCEPT !.at = @ + 1] /\ UNCHANGED refs
     ELSE /\ http' = [http EXCEPT !.upgraded = TRUE]
          /\ refs' = [refs EXCEPT ![Current] = @ \cup {"control"}]
  /\ UNCHANGED <<SOCKET_INSTANCE_REGISTRY, sending, poisoned, headroom, steady, socketVars, gaugeVars>>

EndsScan == Len(SOCKET_INSTANCE_REGISTRY) + 1
Skip == http.at + 1

\* arc.lock(), waiting for the owner; then the entry is read or set and the
\* strong reference dropped.  set_freelist_headroom_for stops at the first
\* socket with the label.
Visit ==
  /\ InScan /\ http.upgraded /\ Current \notin sending
  /\ LET label == LabelOf[Current]
         wanted == http.request.op # "one" \/ http.request.label = label
         usable == Current \notin poisoned /\ wanted
         sets == usable /\ http.pc = "apply"
     IN  /\ headroom' = IF sets THEN [headroom EXCEPT ![Current] = 1] ELSE headroom
         /\ http' = [http EXCEPT
              !.upgraded = FALSE,
              !.dropping = IF refs[Current] = {"control"} THEN Current ELSE None,
              !.before = IF usable /\ http.pc = "snapshot" THEN @ \cup {label} ELSE @,
              !.applied = IF sets THEN @ \cup {label} ELSE @,
              !.at = IF sets /\ http.request.op = "one" THEN EndsScan ELSE Skip]
  /\ Release(Current, "control")
  /\ UNCHANGED <<held, SOCKET_REGISTRY, SOCKET_INSTANCE_REGISTRY, sending, poisoned, steady, gaugeVars>>

\* The end of a scan unlocks the registry.  After snapshot_freelist_headrooms
\* a POST to all sockets goes on to set_freelist_headroom_all; anything else
\* is answered.
ScanDone ==
  /\ Scanning /\ ~InScan /\ Dropped
  /\ http' =
       IF http.pc = "snapshot" /\ http.request.op = "all"
       THEN [http EXCEPT !.pc = "between", !.at = 0, !.dropping = None]
       ELSE [http EXCEPT !.pc = "accept", !.at = 0, !.before = {}, !.applied = {},
                            !.dropping = None, !.reply =
               CASE http.request.op = "get" -> [ok |-> http.before, failed |-> {}]
                 [] http.request.op = "all" ->
                      [ok |-> http.applied, failed |-> http.before \ http.applied]
                 [] http.request.op = "one" ->
                      [ok |-> http.applied, failed |-> {http.request.label} \ http.applied]]
  /\ UNCHANGED <<socketVars, instanceVars, gaugeVars>>

Answer == LockInstances \/ Upgrade \/ Visit \/ ScanDone

----------------------------------------------------------------------------
(* The thread that updates the gauges, once a second. *)

Snapshot ==
  /\ updater.pc = "sleep"
  /\ updater' = [updater EXCEPT !.pc = "set",
                   !.current = {l \in Labels : SOCKET_REGISTRY[l] # None}]
  /\ UNCHANGED <<gauges, socketVars, instanceVars, http>>

SetGauges ==
  /\ updater.pc = "set"
  /\ gauges' = gauges \cup updater.current
  /\ updater' = [updater EXCEPT !.pc = "remove"]
  /\ UNCHANGED <<socketVars, instanceVars, http>>

RemoveUnlisted ==
  /\ updater.pc = "remove"
  /\ gauges' = gauges \ (updater.current \ updater.prev)
  /\ updater' = [pc |-> "sleep", current |-> {}, prev |-> updater.current]
  /\ UNCHANGED <<socketVars, instanceVars, http>>

\* Labels of the previous round that are not in this one lose their gauges.
RemoveStale ==
  /\ updater.pc = "remove"
  /\ gauges' = gauges \ (updater.prev \ updater.current)
  /\ updater' = [pc |-> "sleep", current |-> {}, prev |-> updater.current]
  /\ UNCHANGED <<socketVars, instanceVars, http>>

Update == Snapshot \/ SetGauges \/ RemoveStale

ControlNext ==
  \/ \E s \in Sockets : OwnerStep(s)
  \/ \E raw \in RawRequests : Accept(raw)
  \/ Answer
  \/ Update

----------------------------------------------------------------------------
ControlTypeOK ==
  /\ phase \in [Sockets -> {"unused", "opening", "live", "dropping", "closed"}]
  /\ SOCKET_REGISTRY \in [Labels -> Sockets \cup {None}]
  /\ \A s \in Sockets : /\ refs[s] \subseteq {"owner", "control"}
                        /\ refs[s] # {} <=> phase[s] = "live"
  /\ sending \cap poisoned = {} /\ \A s \in sending : Owned(s)
  /\ gauges \subseteq Labels /\ http.at \in 0..EndsScan

\* A live socket is counted under its label, also when its predecessor with
\* the same label is dropped while it is being opened.
LiveCounted == \A s \in Sockets : phase[s] = "live" => SOCKET_REGISTRY[LabelOf[s]] = s

\* The kernel never holds frames that have been freed: whichever thread drops
\* the socket, and whichever step of new fails, the umem goes last.
UmemOutlivesFd == \A s \in Sockets : "kernel_umem" \in held[s] => "umem" \in held[s]

\* A socket that stayed registered, owned and healthy through a control
\* request has been reached by it: it is listed or reported as reconfigured,
\* and then has the new headroom, whatever was dropped, poisoned, registered
\* or pruned beside it; and a request never reports it as failed.
ControlHonest ==
  http.pc = "accept" /\ http.request # None =>
    \A s \in steady :
      LET l == LabelOf[s] IN
      \/ http.request.op \in {"bad", "other"}
      \/ http.request.op = "one" /\ http.request.label # l
      \/ /\ l \in http.reply.ok /\ l \notin http.reply.failed
         /\ http.request.op \in {"all", "one"} => headroom[s] = 1

\* The gauges of a label that is never registered again disappear.
StaleGaugeGone ==
  \A l \in Labels : <>[](SOCKET_REGISTRY[l] = None) => <>[](l \notin gauges)

\* Every control request is answered if the owners let go of their mutexes:
\* running Drop inside a scan, with the registry locked, does not block it.
RequestsAnswered ==
  <>[](sending = {}) => []<>(http.pc = "accept")

\* A POST /control whose body is headroom=<n> is understood.
PlainBodyUnderstood ==
  http.request # None /\ http.request.op = "bad" =>
    ~(http.request.raw.body_read /\ http.request.raw.after_number = "nothing")
====
