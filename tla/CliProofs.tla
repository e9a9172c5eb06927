----------------------------- MODULE CliProofs -----------------------------
(***************************************************************************)
(* What holds of the program for any number of sockets, labels, requests   *)
(* and workers: a live socket is counted under its label, the umem goes    *)
(* last, a control request reaches every socket it could have reached, and *)
(* a bridge run leaves no socket behind and adds its counts up.            *)
(***************************************************************************)
EXTENDS Cli, FiniteSetTheorems, TLAPS

----------------------------------------------------------------------------
(* Sockets: what each phase holds. *)

Phases == {"unused", "opening", "live", "dropping", "closed"}

\* What a socket holds on its way through OpenOrder ...
Openings == {{}, {"umem"}, {"umem", "fd"}, {"umem", "fd", "bound"},
             {"umem", "fd", "bound", "kernel_umem"}}
Mapped == {"umem", "fd", "bound", "kernel_umem", "map"}
Whole == Mapped \cup {"metrics"}

\* ... and back through DropOrder, from any point of it.
Droppings == Openings \cup {Whole, Whole \ {"map"}}

HeldByPhase ==
  \A s \in Sockets :
    /\ phase[s] \in {"unused", "closed"} => held[s] = {}
    /\ phase[s] = "opening" => held[s] \in Openings \cup {Mapped}
    /\ phase[s] = "live" => held[s] = Whole
    /\ phase[s] = "dropping" => held[s] \in Droppings

\* The kernel binds one socket to a label at a time ...
OneBound ==
  \A s, t \in Sockets :
    LabelOf[s] = LabelOf[t] /\ "bound" \in held[s] /\ "bound" \in held[t] => s = t

\* ... and the counters are registered only while it does.
RegistryExact ==
  \A s \in Sockets, l \in Labels :
    SOCKET_REGISTRY[l] = s <=> LabelOf[s] = l /\ "metrics" \in held[s]

SocketInv ==
  /\ phase \in [Sockets -> Phases]
  /\ held \in [Sockets -> SUBSET Whole]
  /\ SOCKET_REGISTRY \in [Labels -> Sockets \cup {None}]
  /\ HeldByPhase /\ OneBound /\ RegistryExact

----------------------------------------------------------------------------
(* References, and the threads that hold them. *)

ControlRequests ==
  {[op |-> Parse(raw).op, label |-> Parse(raw).label, raw |-> raw] : raw \in RawRequests}

HttpStates ==
  [pc : {"accept", "request", "snapshot", "between", "apply"}, request : ControlRequests \cup {None}, at : Nat,
   upgraded : BOOLEAN, before : SUBSET Labels, applied : SUBSET Labels,
   dropping : Sockets \cup {None},
   reply : [ok : SUBSET Labels,
            failed : SUBSET (Labels \cup {q.label : q \in ControlRequests})]]

UpdaterStates ==
  [pc : {"sleep", "set", "remove"}, current : SUBSET Labels, prev : SUBSET Labels]

ThreadDomains ==
  /\ SOCKET_INSTANCE_REGISTRY \in Seq(Sockets)
  /\ refs \in [Sockets -> SUBSET {"owner", "control"}]
  /\ headroom \in [Sockets -> Nat]
  /\ http \in HttpStates /\ http.at \in 0..EndsScan
  /\ updater \in UpdaterStates /\ gauges \subseteq Labels

\* A socket is live as long as somebody refers to it.
RefsLive == \A s \in Sockets : refs[s] # {} <=> phase[s] = "live"

\* A mutex is held by the owner of a live socket, and not after a panic.
SendersOwn == sending \cap poisoned = {} /\ \A s \in sending : s \in Sockets /\ Owned(s)

ThreadInv == SocketInv /\ ThreadDomains /\ RefsLive /\ SendersOwn

----------------------------------------------------------------------------
(* A control request: what it has done to the entries it has passed. *)

SteadyHealthy == \A s \in steady : s \in Sockets /\ Owned(s) /\ s \notin poisoned

\* The kind of request decides which scans it makes.
ScanKind ==
  /\ http.pc # "accept" => http.request \in ControlRequests
  /\ http.pc = "request" => http.request.op \in {"get", "all", "one"}
  /\ http.pc = "snapshot" => http.request.op \in {"get", "all"}
  /\ http.pc = "between" => http.request.op = "all"
  /\ http.pc = "apply" => http.request.op \in {"all", "one"}
  /\ Scanning => http.at >= 1
  /\ ~Scanning => ~http.upgraded /\ http.at = 0

\* The scan holds a reference to the entry it has made strong.
UpgradedHeld == http.upgraded => InScan /\ "control" \in refs[Current]

\* What the scan in progress does to socket s.
ScanReaches(s) ==
  /\ http.pc = "snapshot" => LabelOf[s] \in http.before
  /\ http.pc = "apply" /\ (http.request.op = "all" \/ http.request.label = LabelOf[s]) =>
       LabelOf[s] \in http.applied /\ headroom[s] = 1

\* The sockets that count are in the registry all through a request, also when
\* it is pruned between two scans, and those a scan has passed have been
\* reached.
Listed(reg, s) == \E i \in 1..Len(reg) : reg[i] = s
SteadyListed == http.pc # "accept" => \A s \in steady : Listed(SOCKET_INSTANCE_REGISTRY, s)
PassedReached ==
  Scanning =>
    \A s \in steady : \A i \in 1..Len(SOCKET_INSTANCE_REGISTRY) :
      i < http.at /\ SOCKET_INSTANCE_REGISTRY[i] = s => ScanReaches(s)

ControlInv ==
  /\ ThreadInv
  /\ SteadyHealthy /\ ScanKind /\ UpgradedHeld /\ SteadyListed /\ PassedReached /\ ControlHonest

----------------------------------------------------------------------------
(* Opening and dropping. *)

LEMMA OneMore ==
  ASSUME NEW S, IsFiniteSet(S), NEW x, x \notin S, NEW n \in Nat, Cardinality(S) = n
  PROVE  IsFiniteSet(S \cup {x}) /\ Cardinality(S \cup {x}) = n + 1
BY FS_AddElement

\* RealSocket::new acquires one thing after the other.
LEMMA OpeningStep ==
  ASSUME NEW h \in Openings \cup {Mapped}, Cardinality(h) < Len(OpenOrder)
  PROVE  LET next == OpenOrder[Cardinality(h) + 1]
         IN  /\ h \cup {next} \in Openings \cup {Mapped}
             /\ "bound" \in h \cup {next} => "bound" \in h \/ next = "bound"
             /\ "metrics" \notin h \cup {next}
<1> DEFINE h0 == {}
           h1 == {"umem"}
           h2 == {"umem", "fd"}
           h3 == {"umem", "fd", "bound"}
           h4 == {"umem", "fd", "bound", "kernel_umem"}
           next == OpenOrder[Cardinality(h) + 1]
<1>1. /\ h1 = h0 \cup {"umem"} /\ h2 = h1 \cup {"fd"} /\ h3 = h2 \cup {"bound"}
      /\ h4 = h3 \cup {"kernel_umem"} /\ Mapped = h4 \cup {"map"}
  BY DEF Mapped
<1>2. /\ "umem" \notin h0 /\ "fd" \notin h1 /\ "bound" \notin h2
      /\ "kernel_umem" \notin h3 /\ "map" \notin h4
  OBVIOUS
<1>3. IsFiniteSet(h0) /\ Cardinality(h0) = 0
  BY FS_EmptySet
<1>4. h \in {h0, h1, h2, h3, h4, Mapped} /\ Openings = {h0, h1, h2, h3, h4}
  BY DEF Openings
<1>a. /\ "metrics" \notin h0 /\ "metrics" \notin h1 /\ "metrics" \notin h2
      /\ "metrics" \notin h3 /\ "metrics" \notin h4 /\ "metrics" \notin Mapped
      /\ "bound" \notin h1 /\ "bound" \notin h2 /\ "bound" \in h3 /\ "bound" \in h4
  BY DEF Mapped
<1> HIDE DEF h0, h1, h2, h3, h4
<1>5. IsFiniteSet(h1) /\ Cardinality(h1) = 1
  <2>1. IsFiniteSet(h0 \cup {"umem"}) /\ Cardinality(h0 \cup {"umem"}) = 0 + 1
    BY <1>2, <1>3, OneMore
  <2> QED
    BY <1>1, <2>1
<1>6. IsFiniteSet(h2) /\ Cardinality(h2) = 2
  <2>1. IsFiniteSet(h1 \cup {"fd"}) /\ Cardinality(h1 \cup {"fd"}) = 1 + 1
    BY <1>2, <1>5, OneMore
  <2> QED
    BY <1>1, <2>1
<1>7. IsFiniteSet(h3) /\ Cardinality(h3) = 3
  <2>1. IsFiniteSet(h2 \cup {"bound"}) /\ Cardinality(h2 \cup {"bound"}) = 2 + 1
    BY <1>2, <1>6, OneMore
  <2> QED
    BY <1>1, <2>1
<1>8. IsFiniteSet(h4) /\ Cardinality(h4) = 4
  <2>1. IsFiniteSet(h3 \cup {"kernel_umem"}) /\ Cardinality(h3 \cup {"kernel_umem"}) = 3 + 1
    BY <1>2, <1>7, OneMore
  <2> QED
    BY <1>1, <2>1
<1>9. IsFiniteSet(Mapped) /\ Cardinality(Mapped) = 5
  <2>1. IsFiniteSet(h4 \cup {"map"}) /\ Cardinality(h4 \cup {"map"}) = 4 + 1
    BY <1>2, <1>8, OneMore
  <2> QED
    BY <1>1, <2>1
<1>10. /\ Len(OpenOrder) = 5 /\ OpenOrder[1] = "umem" /\ OpenOrder[2] = "fd"
       /\ OpenOrder[3] = "bound" /\ OpenOrder[4] = "kernel_umem" /\ OpenOrder[5] = "map"
  BY DEF OpenOrder
<1>11. CASE h = h0
  <2>1. next = "umem"
    BY <1>3, <1>10, <1>11
  <2>2. h \cup {next} = h1
    BY <1>1, <1>11, <2>1
  <2> QED
    BY <1>4, <1>11, <1>a, <2>1, <2>2
<1>12. CASE h = h1
  <2>1. next = "fd"
    BY <1>5, <1>10, <1>12
  <2>2. h \cup {next} = h2
    BY <1>1, <1>12, <2>1
  <2> QED
    BY <1>4, <1>12, <1>a, <2>1, <2>2
<1>13. CASE h = h2
  <2>1. next = "bound"
    BY <1>6, <1>10, <1>13
  <2>2. h \cup {next} = h3
    BY <1>1, <1>13, <2>1
  <2> QED
    BY <1>4, <1>13, <1>a, <2>1, <2>2
<1>14. CASE h = h3
  <2>1. next = "kernel_umem"
    BY <1>7, <1>10, <1>14
  <2>2. h \cup {next} = h4
    BY <1>1, <1>14, <2>1
  <2> QED
    BY <1>4, <1>14, <1>a, <2>1, <2>2
<1>15. CASE h = h4
  <2>1. next = "map"
    BY <1>8, <1>10, <1>15
  <2>2. h \cup {next} = Mapped
    BY <1>1, <1>15, <2>1
  <2> QED
    BY <1>4, <1>15, <1>a, <2>1, <2>2
<1>16. CASE h = Mapped
  BY <1>9, <1>10, <1>16
<1> QED
  BY <1>4, <1>11, <1>12, <1>13, <1>14, <1>15, <1>16

\* Drop gives back one thing after the other, the counters before the
\* descriptor and the umem last.
LEMMA DroppingStep ==
  ASSUME NEW h \in Droppings, NEW i \in DOMAIN DropOrder, DropOrder[i] \cap h # {},
         \A j \in 1..(i - 1) : DropOrder[j] \cap h = {}
  PROVE  /\ h \ DropOrder[i] \in Droppings
         /\ "metrics" \in DropOrder[i] => "metrics" \in h
<1>1. /\ DOMAIN DropOrder = 1..4
      /\ DropOrder[1] = {"map"} /\ DropOrder[2] = {"metrics"}
      /\ DropOrder[3] = {"fd", "bound", "kernel_umem"} /\ DropOrder[4] = {"umem"}
  BY DEF DropOrder
<1>2. CASE i = 1
  BY <1>1, <1>2 DEF Droppings, Openings, Whole, Mapped
<1>3. CASE i = 2
  BY <1>1, <1>3 DEF Droppings, Openings, Whole, Mapped
<1>4. CASE i = 3
  BY <1>1, <1>4 DEF Droppings, Openings, Whole, Mapped
<1>5. CASE i = 4
  <2>1. DropOrder[3] \cap h = {}
    BY <1>5
  <2> QED
    BY <1>1, <1>5, <2>1 DEF Droppings, Openings, Whole, Mapped
<1> QED
  BY <1>1, <1>2, <1>3, <1>4, <1>5

LEMMA LabelsOf == \A s \in Sockets : LabelOf[s] \in Labels
BY DEF Labels

LEMMA OpenNextKeeps ==
  ASSUME SocketInv, NEW s \in Sockets, OpenNext(s)
  PROVE  SocketInv'
<1> DEFINE next == OpenOrder[Cardinality(held[s]) + 1]
<1>1. /\ phase[s] \in {"unused", "opening"} /\ Cardinality(held[s]) < Len(OpenOrder)
      /\ next = "bound" => Bindable(s)
      /\ held' = [held EXCEPT ![s] = @ \cup {next}]
      /\ phase' = [phase EXCEPT ![s] = "opening"]
      /\ SOCKET_REGISTRY' = SOCKET_REGISTRY
  BY DEF OpenNext
<1>2. held[s] \in Openings \cup {Mapped}
  BY <1>1 DEF SocketInv, HeldByPhase, Openings
<1>3. /\ held[s] \cup {next} \in Openings \cup {Mapped}
      /\ "bound" \in held[s] \cup {next} => "bound" \in held[s] \/ next = "bound"
      /\ "metrics" \notin held[s] \cup {next}
  BY <1>1, <1>2, OpeningStep
<1> HIDE DEF next
<1>4. /\ held'[s] = held[s] \cup {next} /\ phase'[s] = "opening"
      /\ \A t \in Sockets \ {s} : held'[t] = held[t] /\ phase'[t] = phase[t]
      /\ phase' \in [Sockets -> Phases] /\ held'[s] \subseteq Whole
      /\ held' \in [Sockets -> SUBSET Whole]
  BY <1>1, <1>3 DEF SocketInv, Phases, Openings, Mapped, Whole
<1>5. HeldByPhase'
  BY <1>3, <1>4 DEF SocketInv, HeldByPhase
<1>6. OneBound'
  BY <1>1, <1>3, <1>4 DEF SocketInv, OneBound, Bindable
<1>7. RegistryExact'
  BY <1>1, <1>3, <1>4 DEF SocketInv, RegistryExact
<1> QED
  BY <1>1, <1>4, <1>5, <1>6, <1>7 DEF SocketInv

LEMMA OpenDoneKeeps ==
  ASSUME SocketInv, NEW s \in Sockets, OpenDone(s)
  PROVE  SocketInv'
<1>1. /\ phase[s] = "opening" /\ "map" \in held[s]
      /\ SOCKET_REGISTRY' = [SOCKET_REGISTRY EXCEPT ![LabelOf[s]] = s]
      /\ held' = [held EXCEPT ![s] = @ \cup {"metrics"}]
      /\ phase' = [phase EXCEPT ![s] = "live"]
  BY DEF OpenDone
<1>2. held[s] = Mapped
  BY <1>1 DEF SocketInv, HeldByPhase, Openings
<1>3. /\ held'[s] = Whole /\ phase'[s] = "live"
      /\ \A t \in Sockets \ {s} : held'[t] = held[t] /\ phase'[t] = phase[t]
      /\ phase' \in [Sockets -> Phases] /\ held' \in [Sockets -> SUBSET Whole]
  BY <1>1, <1>2 DEF SocketInv, Phases, Whole, Mapped
<1>4. /\ SOCKET_REGISTRY' \in [Labels -> Sockets \cup {None}]
      /\ SOCKET_REGISTRY'[LabelOf[s]] = s
      /\ \A l \in Labels \ {LabelOf[s]} : SOCKET_REGISTRY'[l] = SOCKET_REGISTRY[l]
  BY <1>1, LabelsOf DEF SocketInv
<1>5. HeldByPhase'
  BY <1>3 DEF SocketInv, HeldByPhase
<1>6. OneBound'
  <2>1. "bound" \in held[s]
    BY <1>2 DEF Mapped
  <2> QED
    BY <1>3, <2>1 DEF SocketInv, OneBound
\* A socket that was still counted under the label would be bound as well.
<1>7. \A t \in Sockets \ {s} : LabelOf[t] = LabelOf[s] => "metrics" \notin held[t]
  <2> SUFFICES ASSUME NEW t \in Sockets \ {s}, LabelOf[t] = LabelOf[s], "metrics" \in held[t]
               PROVE  FALSE
    OBVIOUS
  <2>1. "bound" \in held[t]
    BY DEF SocketInv, HeldByPhase, Phases, Openings, Mapped, Whole, Droppings
  <2>2. "bound" \in held[s]
    BY <1>2 DEF Mapped
  <2> QED
    BY <2>1, <2>2 DEF SocketInv, OneBound
<1>8. RegistryExact'
  <2> SUFFICES ASSUME NEW t \in Sockets, NEW l \in Labels
               PROVE  SOCKET_REGISTRY'[l] = t <=> LabelOf[t] = l /\ "metrics" \in held'[t]
    BY DEF RegistryExact
  <2>1. SOCKET_REGISTRY[l] = t <=> LabelOf[t] = l /\ "metrics" \in held[t]
    BY DEF SocketInv, RegistryExact
  <2>2. CASE t = s
    <3>1. "metrics" \in held'[s] /\ "metrics" \notin held[s]
      BY <1>2, <1>3 DEF Whole, Mapped
    <3> QED
      BY <1>4, <2>1, <2>2, <3>1
  <2>3. CASE t # s
    BY <1>3, <1>4, <1>7, <2>1, <2>3
  <2> QED
    BY <2>2, <2>3
<1> QED
  BY <1>3, <1>4, <1>5, <1>6, <1>8 DEF SocketInv

LEMMA DropNextKeeps ==
  ASSUME SocketInv, NEW s \in Sockets, DropNext(s)
  PROVE  SocketInv'
<1>1. phase[s] = "dropping" /\ held[s] \in Droppings
  BY DEF DropNext, SocketInv, HeldByPhase
<1>2. CASE held[s] = {}
  <2>1. phase' = [phase EXCEPT ![s] = "closed"] /\ UNCHANGED <<held, SOCKET_REGISTRY>>
    BY <1>2 DEF DropNext
  <2>2. HeldByPhase' /\ phase' \in [Sockets -> Phases]
    BY <1>2, <2>1 DEF SocketInv, HeldByPhase, Phases
  <2>3. OneBound' /\ RegistryExact'
    BY <2>1 DEF SocketInv, OneBound, RegistryExact
  <2> QED
    BY <2>1, <2>2, <2>3 DEF SocketInv
<1>3. CASE held[s] # {}
  <2>1. PICK i \in DOMAIN DropOrder :
          /\ DropOrder[i] \cap held[s] # {}
          /\ \A j \in 1..(i - 1) : DropOrder[j] \cap held[s] = {}
          /\ held' = [held EXCEPT ![s] = @ \ DropOrder[i]]
          /\ SOCKET_REGISTRY' = IF "metrics" \in DropOrder[i]
                                THEN [SOCKET_REGISTRY EXCEPT ![LabelOf[s]] = None]
                                ELSE SOCKET_REGISTRY
          /\ UNCHANGED phase
    BY <1>3 DEF DropNext
  <2>2. /\ held[s] \ DropOrder[i] \in Droppings
        /\ "metrics" \in DropOrder[i] => "metrics" \in held[s]
    BY <1>1, <2>1, DroppingStep
  <2>3. /\ held'[s] = held[s] \ DropOrder[i]
        /\ \A t \in Sockets \ {s} : held'[t] = held[t]
        /\ held' \in [Sockets -> SUBSET Whole]
    BY <2>1 DEF SocketInv
  <2>4. HeldByPhase'
    BY <1>1, <2>1, <2>2, <2>3 DEF SocketInv, HeldByPhase
  <2>5. OneBound'
    BY <2>3 DEF SocketInv, OneBound
  <2>6. RegistryExact' /\ SOCKET_REGISTRY' \in [Labels -> Sockets \cup {None}]
    <3>1. CASE "metrics" \in DropOrder[i]
      <4>1. SOCKET_REGISTRY[LabelOf[s]] = s
        BY <2>2, <3>1, LabelsOf DEF SocketInv, RegistryExact
      <4>2. SOCKET_REGISTRY' = [SOCKET_REGISTRY EXCEPT ![LabelOf[s]] = None]
        BY <2>1, <3>1
      <4>3. /\ SOCKET_REGISTRY' \in [Labels -> Sockets \cup {None}]
            /\ SOCKET_REGISTRY'[LabelOf[s]] = None
            /\ \A l \in Labels \ {LabelOf[s]} : SOCKET_REGISTRY'[l] = SOCKET_REGISTRY[l]
        BY <4>2, LabelsOf DEF SocketInv
      <4>4. \A t \in Sockets : t # None
        BY SocketControlAssumption
      <4> QED
        BY <2>3, <3>1, <4>1, <4>3, <4>4 DEF SocketInv, RegistryExact
    <3>2. CASE "metrics" \notin DropOrder[i]
      BY <2>1, <2>3, <3>2 DEF SocketInv, RegistryExact
    <3> QED
      BY <3>1, <3>2
  <2> QED
    BY <2>1, <2>3, <2>4, <2>5, <2>6 DEF SocketInv
<1> QED
  BY <1>2, <1>3

\* Failing, and letting go of the last reference, only turn to dropping.
LEMMA TurnsToDropping ==
  ASSUME SocketInv, NEW s \in Sockets, UNCHANGED <<held, SOCKET_REGISTRY>>,
         \/ phase[s] \in {"unused", "opening"} /\ "map" \notin held[s]
         \/ phase[s] = "live",
         phase' = [phase EXCEPT ![s] = "dropping"]
  PROVE  SocketInv'
<1>1. held[s] \in Droppings
  BY DEF SocketInv, HeldByPhase, Droppings, Openings, Mapped, Whole
<1>2. HeldByPhase' /\ phase' \in [Sockets -> Phases]
  BY <1>1 DEF SocketInv, HeldByPhase, Phases
<1> QED
  BY <1>2 DEF SocketInv, OneBound, RegistryExact

----------------------------------------------------------------------------
(* One step of the server: it keeps ControlInv. *)

\* Who is live, owned and healthy decides most of the invariant.
LEMMA QuietKeeps ==
  ASSUME ControlInv, SocketInv', UNCHANGED <<instanceVars, http, gaugeVars>>,
         \A t \in Sockets : phase'[t] = "live" <=> phase[t] = "live"
  PROVE  ControlInv'
<1>1. /\ UNCHANGED <<SOCKET_INSTANCE_REGISTRY, refs, sending, poisoned, headroom, steady>>
      /\ UNCHANGED <<http, updater, gauges>>
  BY DEF instanceVars, gaugeVars
<1>2. ThreadDomains'
  BY <1>1 DEF ControlInv, ThreadInv, ThreadDomains, EndsScan
<1>3. RefsLive' /\ SendersOwn' /\ SteadyHealthy'
  BY <1>1 DEF ControlInv, ThreadInv, RefsLive, SendersOwn, SteadyHealthy, Owned
<1>4. ScanKind' /\ UpgradedHeld'
  BY <1>1 DEF ControlInv, ScanKind, UpgradedHeld, Scanning, InScan, Current
<1>5. SteadyListed' /\ PassedReached' /\ ControlHonest'
  BY <1>1 DEF ControlInv, SteadyListed, Listed, PassedReached, ScanReaches, Scanning, ControlHonest
<1> QED
  BY <1>2, <1>3, <1>4, <1>5 DEF ControlInv, ThreadInv

LEMMA OpenAndDropKeep ==
  ASSUME ControlInv, NEW s \in Sockets, OpenNext(s) \/ OpenFails(s) \/ DropNext(s)
  PROVE  ControlInv'
<1>1. SocketInv'
  <2>1. CASE OpenFails(s)
    BY <2>1, TurnsToDropping DEF OpenFails, ControlInv, ThreadInv
  <2> QED
    BY <2>1, OpenNextKeeps, DropNextKeeps DEF ControlInv, ThreadInv
<1>2. UNCHANGED <<instanceVars, http, gaugeVars>>
  BY DEF OpenNext, OpenFails, DropNext
<1>3. \A t \in Sockets : phase'[t] = "live" <=> phase[t] = "live"
  <2>1. /\ phase \in [Sockets -> Phases] /\ phase[s] # "live"
        /\ \E p \in Phases \ {"live"} : phase' = [phase EXCEPT ![s] = p] \/ phase' = phase
    BY DEF OpenNext, OpenFails, DropNext, ControlInv, ThreadInv, SocketInv, Phases
  <2> QED
    BY <2>1
<1> QED
  BY <1>1, <1>2, <1>3, QuietKeeps

LEMMA OpenDoneKeepsAll ==
  ASSUME ControlInv, NEW s \in Sockets, OpenDone(s)
  PROVE  ControlInv'
<1>1. /\ phase[s] = "opening" /\ phase' = [phase EXCEPT ![s] = "live"]
      /\ refs' = [refs EXCEPT ![s] = {"owner"}]
      /\ UNCHANGED <<SOCKET_INSTANCE_REGISTRY, sending, poisoned, headroom, steady, http,
                     updater, gauges>>
  BY DEF OpenDone, gaugeVars
<1>2. /\ phase' \in [Sockets -> Phases] /\ phase'[s] = "live"
      /\ refs' \in [Sockets -> SUBSET {"owner", "control"}] /\ refs'[s] = {"owner"}
      /\ \A t \in Sockets \ {s} : phase'[t] = phase[t] /\ refs'[t] = refs[t]
  BY <1>1 DEF ControlInv, ThreadInv, SocketInv, ThreadDomains, Phases
<1>3. SocketInv'
  BY OpenDoneKeeps DEF ControlInv, ThreadInv
<1>4. ThreadDomains'
  BY <1>1, <1>2 DEF ControlInv, ThreadInv, ThreadDomains, EndsScan
\* Nobody can have referred to the socket before.
<1>5. refs[s] = {} /\ s \notin sending /\ s \notin steady
  BY <1>1 DEF ControlInv, ThreadInv, RefsLive, SendersOwn, SteadyHealthy, Owned
<1>6. RefsLive' /\ SendersOwn' /\ SteadyHealthy'
  BY <1>1, <1>2, <1>5 DEF ControlInv, ThreadInv, RefsLive, SendersOwn, SteadyHealthy, Owned
<1>7. ScanKind'
  BY <1>1 DEF ControlInv, ScanKind, Scanning
<1>8. UpgradedHeld'
  <2>1. http.upgraded => InScan /\ "control" \in refs[Current] /\ Current \in Sockets
    BY DEF ControlInv, ThreadInv, UpgradedHeld, ThreadDomains, HttpStates, InScan, Scanning,
           Current, ScanKind
  <2> QED
    BY <1>1, <1>2, <1>5, <2>1 DEF UpgradedHeld, InScan, Scanning, Current
<1>9. SteadyListed' /\ PassedReached' /\ ControlHonest'
  BY <1>1 DEF ControlInv, SteadyListed, Listed, PassedReached, ScanReaches, Scanning, ControlHonest
<1> QED
  BY <1>3, <1>4, <1>6, <1>7, <1>8, <1>9 DEF ControlInv, ThreadInv

\* retain keeps every reference that can still be made strong.
LEMMA RetainedLists ==
  ASSUME NEW reg \in Seq(Sockets), NEW left \in Retained(reg)
  PROVE  /\ left \in Seq(Sockets)
         /\ \A s \in Sockets : refs[s] # {} /\ Listed(reg, s) => Listed(left, s)
<1> DEFINE kept == {i \in DOMAIN reg : refs[reg[i]] # {}}
           n == Cardinality(kept)
<1>1. PICK f \in [1..n -> kept] : /\ \A i, j \in DOMAIN f : i < j => f[i] < f[j]
                                 /\ left = [i \in DOMAIN f |-> reg[f[i]]]
  BY DEF Retained
<1>2. DOMAIN reg = 1..Len(reg) /\ Len(reg) \in Nat
  OBVIOUS
<1>3. IsFiniteSet(kept) /\ n \in Nat /\ kept \subseteq DOMAIN reg /\ kept \subseteq Nat
  <2>1. IsFiniteSet(1..Len(reg))
    BY <1>2, FS_Interval
  <2>2. IsFiniteSet(kept)
    BY <1>2, <2>1, FS_Subset
  <2> QED
    BY <1>2, <2>2, FS_CardinalityType
<1>4. \A i \in DOMAIN reg : refs[reg[i]] # {} => i \in kept
  OBVIOUS
<1>5. IsFiniteSet(1..n) /\ Cardinality(1..n) = n
  BY <1>3, FS_Interval
<1>6. n = Cardinality(kept)
  OBVIOUS
<1> HIDE DEF kept, n
\* An increasing function from 1..n to n places takes all of them.
<1>7. f \in Injection(1..n, kept)
  <2>1. \A i, j \in 1..n : f[i] = f[j] => i = j
    <3> SUFFICES ASSUME NEW i \in 1..n, NEW j \in 1..n, f[i] = f[j]  PROVE i = j
      OBVIOUS
    <3>1. f[i] \in Nat /\ f[j] \in Nat /\ DOMAIN f = 1..n
      BY <1>1, <1>3
    <3>2. ~(i < j) /\ ~(j < i)
      BY <1>1, <3>1
    <3> QED
      BY <3>2
  <2> QED
    BY <1>1, <2>1 DEF Injection, IsInjective
<1>8. f \in Surjection(1..n, kept)
  BY <1>3, <1>5, <1>6, <1>7, FS_Injection
<1>9. left \in [1..n -> Sockets]
  BY <1>1, <1>3
<1>10. left \in Seq(Sockets) /\ Len(left) = n
  BY <1>3, <1>9
<1>11. ASSUME NEW s \in Sockets, refs[s] # {}, Listed(reg, s)
       PROVE  Listed(left, s)
  <2>1. PICK k \in kept : reg[k] = s
    BY <1>2, <1>4, <1>11 DEF Listed
  <2>2. PICK i \in 1..n : f[i] = k
    BY <1>8, <2>1 DEF Surjection
  <2>3. left[i] = s
    BY <1>1, <2>1, <2>2
  <2> QED
    BY <1>10, <2>2, <2>3 DEF Listed
<1> QED
  BY <1>10, <1>11

LEMMA RegisterKeeps ==
  ASSUME ControlInv, NEW s \in Sockets, RegisterInstance(s)
  PROVE  ControlInv'
<1> DEFINE old == SOCKET_INSTANCE_REGISTRY
           reg == Append(old, s)
<1>1. /\ SOCKET_INSTANCE_REGISTRY' \in Retained(reg) \cup {reg} /\ ~Scanning
      /\ UNCHANGED <<refs, sending, poisoned, headroom, steady, http, updater, gauges,
                     phase, held, SOCKET_REGISTRY>>
  BY DEF RegisterInstance, RegistryLocked, socketVars, gaugeVars
<1>2. /\ reg \in Seq(Sockets)
      /\ \A t \in Sockets : Listed(old, t) => Listed(reg, t)
  <2>1. old \in Seq(Sockets)
    BY DEF ControlInv, ThreadInv, ThreadDomains
  <2> QED
    BY <2>1 DEF Listed
<1>3. /\ SOCKET_INSTANCE_REGISTRY' \in Seq(Sockets)
      /\ \A t \in Sockets : refs[t] # {} /\ Listed(old, t) => Listed(SOCKET_INSTANCE_REGISTRY', t)
  <2> HIDE DEF reg, old
  <2> QED
    BY <1>1, <1>2, RetainedLists
<1>4. http.at = 0 /\ ~http.upgraded
  BY <1>1 DEF ControlInv, ScanKind
<1>5. ThreadInv'
  BY <1>1, <1>3, <1>4 DEF ControlInv, ThreadInv, SocketInv, HeldByPhase, OneBound, RegistryExact,
         ThreadDomains, RefsLive, SendersOwn, Owned, EndsScan
<1>6. SteadyHealthy' /\ ScanKind'
  BY <1>1 DEF ControlInv, SteadyHealthy, ScanKind, Scanning, Owned
<1>7. SteadyListed'
  <2>1. \A t \in steady : t \in Sockets /\ refs[t] # {}
    BY DEF ControlInv, SteadyHealthy, Owned
  <2> QED
    BY <1>1, <1>3, <2>1 DEF ControlInv, SteadyListed
<1>8. UpgradedHeld' /\ PassedReached' /\ ControlHonest'
  BY <1>1, <1>4 DEF ControlInv, UpgradedHeld, PassedReached, ControlHonest, Scanning
<1> QED
  BY <1>5, <1>6, <1>7, <1>8 DEF ControlInv

LEMMA SendsKeep ==
  ASSUME ControlInv, NEW s \in Sockets, StartSend(s) \/ EndSend(s) \/ PanicInSend(s)
  PROVE  ControlInv'
<1>1. /\ UNCHANGED <<SOCKET_INSTANCE_REGISTRY, refs, headroom, http, updater, gauges,
                     phase, held, SOCKET_REGISTRY>>
      /\ steady' \subseteq steady
      /\ steady' \cap poisoned' = {}
      /\ sending' \cap poisoned' = {} /\ \A t \in sending' : t \in Sockets /\ Owned(t)
  BY DEF StartSend, EndSend, PanicInSend, socketVars, gaugeVars, ControlInv, ThreadInv,
         SendersOwn, SteadyHealthy
<1>2. ThreadInv'
  BY <1>1 DEF ControlInv, ThreadInv, SocketInv, HeldByPhase, OneBound, RegistryExact,
         ThreadDomains, RefsLive, SendersOwn, Owned, EndsScan
<1>3. SteadyHealthy' /\ ScanKind' /\ UpgradedHeld'
  BY <1>1 DEF ControlInv, SteadyHealthy, ScanKind, Scanning, Owned, UpgradedHeld, InScan, Current
<1>4. SteadyListed' /\ PassedReached' /\ ControlHonest'
  BY <1>1 DEF ControlInv, SteadyListed, Listed, PassedReached, ScanReaches, Scanning, ControlHonest
<1> QED
  BY <1>2, <1>3, <1>4 DEF ControlInv

LEMMA OwnerReleasesKeeps ==
  ASSUME ControlInv, NEW s \in Sockets, OwnerReleases(s)
  PROVE  ControlInv'
<1>1. /\ Owned(s) /\ s \notin sending /\ Release(s, "owner") /\ steady' = steady \ {s}
      /\ UNCHANGED <<held, SOCKET_REGISTRY, SOCKET_INSTANCE_REGISTRY, sending, poisoned,
                     headroom, http, updater, gauges>>
  BY DEF OwnerReleases, gaugeVars
<1>2. /\ refs' \in [Sockets -> SUBSET {"owner", "control"}] /\ refs'[s] = refs[s] \ {"owner"}
      /\ \A t \in Sockets \ {s} : phase'[t] = phase[t] /\ refs'[t] = refs[t]
      /\ phase[s] = "live"
      /\ phase'[s] = IF refs[s] = {"owner"} THEN "dropping" ELSE "live"
  BY <1>1 DEF Owned, Release, ControlInv, ThreadInv, SocketInv, ThreadDomains, Phases
<1>3. SocketInv'
  <2>1. CASE refs[s] = {"owner"}
    BY <1>1, <1>2, <2>1, TurnsToDropping DEF Release, ControlInv, ThreadInv
  <2>2. CASE refs[s] # {"owner"}
    <3>1. phase' = phase
      BY <1>1, <2>2 DEF Release
    <3> QED
      BY <1>1, <3>1 DEF ControlInv, ThreadInv, SocketInv, HeldByPhase, OneBound, RegistryExact
  <2> QED
    BY <2>1, <2>2
<1>4. ThreadDomains'
  BY <1>1, <1>2 DEF ControlInv, ThreadInv, ThreadDomains, EndsScan
<1>5. RefsLive'
  <2>1. refs'[s] # {} <=> phase'[s] = "live"
    BY <1>1, <1>2 DEF Owned, ControlInv, ThreadInv, ThreadDomains
  <2> QED
    BY <1>2, <2>1 DEF ControlInv, ThreadInv, RefsLive
<1>6. SendersOwn' /\ SteadyHealthy'
  BY <1>1, <1>2 DEF ControlInv, ThreadInv, SendersOwn, SteadyHealthy, Owned
<1>7. ScanKind'
  BY <1>1 DEF ControlInv, ScanKind, Scanning
<1>8. UpgradedHeld'
  <2>1. http.upgraded => InScan /\ "control" \in refs[Current] /\ Current \in Sockets
    BY DEF ControlInv, ThreadInv, UpgradedHeld, ThreadDomains, HttpStates, InScan, Scanning,
           Current, ScanKind
  <2> QED
    BY <1>1, <1>2, <2>1 DEF UpgradedHeld, InScan, Scanning, Current
<1>9. SteadyListed' /\ PassedReached' /\ ControlHonest'
  BY <1>1 DEF ControlInv, SteadyListed, Listed, PassedReached, ScanReaches, Scanning, ControlHonest
<1> QED
  BY <1>3, <1>4, <1>5, <1>6, <1>7, <1>8, <1>9 DEF ControlInv, ThreadInv

\* The gauge thread touches nothing else.
LEMMA UpdateKeeps ==
  ASSUME ControlInv, Update
  PROVE  ControlInv'
<1>1. UNCHANGED <<socketVars, instanceVars, http>>
  BY DEF Update, Snapshot, SetGauges, RemoveStale
<1>2. updater' \in UpdaterStates /\ gauges' \subseteq Labels
  <2>1. updater \in UpdaterStates /\ gauges \subseteq Labels
    BY DEF ControlInv, ThreadInv, ThreadDomains
  <2>2. CASE Snapshot
    <3>1. /\ updater' = [updater EXCEPT !.pc = "set", !.current = updater'.current]
          /\ updater'.current \subseteq Labels /\ gauges' = gauges
      BY <2>1, <2>2 DEF Snapshot, UpdaterStates
    <3> QED
      BY <2>1, <3>1 DEF UpdaterStates
  <2>3. CASE SetGauges
    BY <2>1, <2>3 DEF SetGauges, UpdaterStates
  <2>4. CASE RemoveStale
    BY <2>1, <2>4 DEF RemoveStale, UpdaterStates
  <2> QED
    BY <2>2, <2>3, <2>4 DEF Update
<1>3. ThreadInv'
  BY <1>1, <1>2 DEF socketVars, instanceVars, ControlInv, ThreadInv, SocketInv, HeldByPhase,
         OneBound, RegistryExact, ThreadDomains, RefsLive, SendersOwn, Owned, EndsScan
<1>4. SteadyHealthy' /\ ScanKind' /\ UpgradedHeld'
  BY <1>1 DEF socketVars, instanceVars, ControlInv, SteadyHealthy, ScanKind, Scanning, Owned,
         UpgradedHeld, InScan, Current
<1>5. SteadyListed' /\ PassedReached' /\ ControlHonest'
  BY <1>1 DEF instanceVars, ControlInv, SteadyListed, Listed, PassedReached, ScanReaches, Scanning, ControlHonest
<1> QED
  BY <1>3, <1>4, <1>5 DEF ControlInv

----------------------------------------------------------------------------
(* One step of the control thread. *)

LEMMA ParsedOps ==
  ASSUME NEW raw \in RawRequests
  PROVE  Parse(raw).op \in {"get", "other", "bad", "all", "one"}
BY SocketControlAssumption DEF Parse

LEMMA RequestOps ==
  ASSUME http.request \in ControlRequests
  PROVE  http.request.op \in {"get", "other", "bad", "all", "one"}
<1>1. PICK raw \in RawRequests :
        http.request = [op |-> Parse(raw).op, label |-> Parse(raw).label, raw |-> raw]
  BY DEF ControlRequests
<1>2. http.request.op = Parse(raw).op
  BY <1>1
<1> QED
  BY <1>2, ParsedOps

LEMMA AcceptKeeps ==
  ASSUME ControlInv, NEW raw \in RawRequests, Accept(raw)
  PROVE  ControlInv'
<1> DEFINE q == [op |-> Parse(raw).op, label |-> Parse(raw).label, raw |-> raw]
           pc == IF q.op \in {"get", "all", "one"} THEN "request" ELSE "accept"
<1>1. /\ http.pc = "accept"
      /\ UNCHANGED <<SOCKET_INSTANCE_REGISTRY, refs, sending, poisoned, headroom, updater,
                     gauges, phase, held, SOCKET_REGISTRY>>
      /\ http' = [Accepting EXCEPT !.request = q, !.pc = pc]
      /\ steady' = {s \in ToSet(SOCKET_INSTANCE_REGISTRY) : Owned(s) /\ s \notin poisoned}
  BY DEF Accept, socketVars, gaugeVars
<1>2. q \in ControlRequests /\ q.op \in {"get", "other", "bad", "all", "one"}
  BY ParsedOps DEF ControlRequests
<1>3. /\ pc \in {"accept", "request"}
      /\ pc = "request" => q.op \in {"get", "all", "one"}
      /\ pc = "accept" => q.op \in {"bad", "other"}
  BY <1>2
<1> HIDE DEF q, pc
<1>4. http' = [pc |-> pc, request |-> q, at |-> 0, upgraded |-> FALSE, before |-> {},
               applied |-> {}, dropping |-> None, reply |-> NoReply]
  BY <1>1 DEF Accepting
<1>5. /\ http'.pc = pc /\ http'.request = q /\ http'.at = 0 /\ http'.upgraded = FALSE
      /\ http' \in HttpStates
  BY <1>2, <1>3, <1>4 DEF HttpStates, NoReply
<1>6. SOCKET_INSTANCE_REGISTRY \in Seq(Sockets)
  BY DEF ControlInv, ThreadInv, ThreadDomains
<1>7. ThreadInv'
  BY <1>1, <1>5, <1>6 DEF ControlInv, ThreadInv, SocketInv, HeldByPhase, OneBound, RegistryExact,
         ThreadDomains, RefsLive, SendersOwn, Owned, EndsScan
<1>8. \A s \in steady' : /\ s \in Sockets /\ Owned(s) /\ s \notin poisoned
                        /\ Listed(SOCKET_INSTANCE_REGISTRY, s)
  BY <1>1, <1>6 DEF ToSet, Listed
<1>9. SteadyHealthy' /\ SteadyListed'
  BY <1>1, <1>8 DEF SteadyHealthy, SteadyListed, Owned
<1>10. ScanKind' /\ UpgradedHeld' /\ PassedReached'
  BY <1>2, <1>3, <1>5 DEF ScanKind, UpgradedHeld, PassedReached, Scanning
<1>11. ControlHonest'
  BY <1>3, <1>5 DEF ControlHonest
<1> QED
  BY <1>7, <1>9, <1>10, <1>11 DEF ControlInv

LEMMA LockKeeps ==
  ASSUME ControlInv, LockInstances
  PROVE  ControlInv'
<1> DEFINE pc == IF http.pc = "between" THEN "apply" ELSE FirstScan
<1>1. /\ http.pc \in {"request", "between"}
      /\ http' = [http EXCEPT !.at = 1, !.pc = pc]
      /\ UNCHANGED <<socketVars, instanceVars, gaugeVars>>
  BY DEF LockInstances
<1>2. /\ UNCHANGED <<SOCKET_INSTANCE_REGISTRY, refs, sending, poisoned, headroom, steady>>
      /\ UNCHANGED <<phase, held, SOCKET_REGISTRY, updater, gauges>>
  BY <1>1 DEF socketVars, instanceVars, gaugeVars
<1>3. /\ http \in HttpStates /\ http.request \in ControlRequests /\ ~http.upgraded
      /\ SOCKET_INSTANCE_REGISTRY \in Seq(Sockets)
  BY <1>1 DEF ControlInv, ThreadInv, ThreadDomains, ScanKind, Scanning
<1>4. /\ pc \in {"snapshot", "apply"}
      /\ pc = "snapshot" => http.request.op \in {"get", "all"}
      /\ pc = "apply" => http.request.op \in {"all", "one"}
  BY <1>1 DEF ControlInv, ScanKind, FirstScan
<1> HIDE DEF pc
<1>5. /\ http' \in HttpStates /\ http'.at = 1 /\ http'.pc = pc
      /\ http'.request = http.request /\ http'.upgraded = http.upgraded
  BY <1>1, <1>3, <1>4 DEF HttpStates
<1>6. ThreadInv'
  BY <1>2, <1>3, <1>5 DEF ControlInv, ThreadInv, SocketInv, HeldByPhase, OneBound, RegistryExact,
         ThreadDomains, RefsLive, SendersOwn, Owned, EndsScan
<1>7. SteadyHealthy' /\ ScanKind' /\ UpgradedHeld' /\ ControlHonest'
  BY <1>2, <1>3, <1>4, <1>5 DEF ControlInv, SteadyHealthy, Owned, ScanKind, Scanning, UpgradedHeld,
         ControlHonest
<1>8. SteadyListed' /\ PassedReached'
  BY <1>1, <1>2, <1>3, <1>5 DEF ControlInv, SteadyListed, PassedReached
<1> QED
  BY <1>6, <1>7, <1>8 DEF ControlInv

\* The entry the scan is at.
LEMMA CurrentEntry ==
  ASSUME ControlInv, InScan
  PROVE  /\ http.at \in 1..Len(SOCKET_INSTANCE_REGISTRY)
         /\ Current \in Sockets /\ Current = SOCKET_INSTANCE_REGISTRY[http.at]
         /\ http.request \in ControlRequests /\ Scanning
         /\ http \in HttpStates /\ http.at + 1 \in 0..EndsScan
BY DEF ControlInv, ThreadInv, ThreadDomains, HttpStates, ScanKind, Scanning, InScan, Current, EndsScan

LEMMA UpgradeKeeps ==
  ASSUME ControlInv, Upgrade
  PROVE  ControlInv'
<1>1. /\ InScan /\ ~http.upgraded
      /\ UNCHANGED <<SOCKET_INSTANCE_REGISTRY, sending, poisoned, headroom, steady, updater,
                     gauges, phase, held, SOCKET_REGISTRY>>
  BY DEF Upgrade, socketVars, gaugeVars
<1>2. /\ http.at \in 1..Len(SOCKET_INSTANCE_REGISTRY) /\ Current \in Sockets
      /\ Current = SOCKET_INSTANCE_REGISTRY[http.at] /\ Scanning
      /\ http \in HttpStates /\ http.at + 1 \in 0..EndsScan
  BY <1>1, CurrentEntry
<1>3. /\ SocketInv'
      /\ SOCKET_INSTANCE_REGISTRY \in Seq(Sockets) /\ Len(SOCKET_INSTANCE_REGISTRY) \in Nat
  BY <1>1 DEF ControlInv, ThreadInv, SocketInv, HeldByPhase, OneBound, RegistryExact, ThreadDomains
\* The socket is gone: it was none of those that count.
<1>4. CASE refs[Current] = {}
  <2>1. http' = [http EXCEPT !.at = @ + 1] /\ UNCHANGED refs
    BY <1>4 DEF Upgrade
  <2>2. /\ http' \in HttpStates /\ http'.at = http.at + 1 /\ http'.pc = http.pc
        /\ http'.request = http.request /\ http'.upgraded = http.upgraded
        /\ http'.before = http.before /\ http'.applied = http.applied
        /\ http'.reply = http.reply
    BY <1>2, <2>1 DEF HttpStates
  <2>3. ThreadInv'
    BY <1>1, <1>2, <1>3, <2>1, <2>2 DEF ControlInv, ThreadInv, ThreadDomains, RefsLive, SendersOwn,
           Owned, EndsScan
  <2>4. SteadyHealthy' /\ ScanKind' /\ UpgradedHeld'
    BY <1>1, <1>2, <2>1, <2>2 DEF ControlInv, SteadyHealthy, ScanKind, Scanning, Owned, UpgradedHeld
  <2>5. Current \notin steady
    BY <1>4 DEF ControlInv, SteadyHealthy, Owned
  <2>6. PassedReached'
    <3> SUFFICES ASSUME NEW s \in steady
                 PROVE  \A i \in 1..Len(SOCKET_INSTANCE_REGISTRY) :
                          i < http.at + 1 /\ SOCKET_INSTANCE_REGISTRY[i] = s => ScanReaches(s)'
      BY <1>1, <2>2 DEF PassedReached
    <3>1. \A i \in 1..Len(SOCKET_INSTANCE_REGISTRY) :
            i < http.at /\ SOCKET_INSTANCE_REGISTRY[i] = s => ScanReaches(s)
      BY <1>2 DEF ControlInv, PassedReached
    <3>2. ScanReaches(s)' <=> ScanReaches(s)
      BY <1>1, <2>2 DEF ScanReaches
    <3>3. ASSUME NEW i \in 1..Len(SOCKET_INSTANCE_REGISTRY), i < http.at + 1,
                 SOCKET_INSTANCE_REGISTRY[i] = s
          PROVE  i < http.at
      BY <1>2, <2>5, <3>3
    <3> QED
      BY <3>1, <3>2, <3>3
  <2>7. ControlHonest' /\ SteadyListed'
    BY <1>1, <1>2, <2>2 DEF ControlInv, ControlHonest, Scanning, SteadyListed
  <2> QED
    BY <2>3, <2>4, <2>6, <2>7 DEF ControlInv
<1>5. CASE refs[Current] # {}
  <2>1. /\ http' = [http EXCEPT !.upgraded = TRUE]
        /\ refs' = [refs EXCEPT ![Current] = @ \cup {"control"}]
    BY <1>5 DEF Upgrade
  <2>2. /\ http' \in HttpStates /\ http'.at = http.at /\ http'.pc = http.pc
        /\ http'.request = http.request /\ http'.upgraded = TRUE
        /\ http'.before = http.before /\ http'.applied = http.applied
        /\ http'.reply = http.reply
    BY <1>2, <2>1 DEF HttpStates
  <2>3. /\ refs' \in [Sockets -> SUBSET {"owner", "control"}]
        /\ refs'[Current] = refs[Current] \cup {"control"}
        /\ \A t \in Sockets \ {Current} : refs'[t] = refs[t]
    BY <1>2, <2>1 DEF ControlInv, ThreadInv, ThreadDomains
  <2>4. ThreadInv'
    <3>1. RefsLive'
      BY <1>1, <1>5, <2>3 DEF ControlInv, ThreadInv, RefsLive
    <3>2. SendersOwn'
      BY <1>1, <1>2, <2>3 DEF ControlInv, ThreadInv, SendersOwn, Owned
    <3> QED
      BY <1>1, <1>3, <2>2, <2>3, <3>1, <3>2 DEF ControlInv, ThreadInv, ThreadDomains, EndsScan
  <2>5. SteadyHealthy' /\ ScanKind'
    BY <1>1, <1>2, <2>2, <2>3 DEF ControlInv, SteadyHealthy, ScanKind, Scanning, Owned
  <2>6. UpgradedHeld'
    BY <1>1, <1>2, <2>2, <2>3 DEF UpgradedHeld, InScan, Scanning, Current
  <2>7. SteadyListed' /\ PassedReached' /\ ControlHonest'
    BY <1>1, <1>2, <2>2 DEF ControlInv, SteadyListed, PassedReached, ScanReaches, ControlHonest,
           Scanning
  <2> QED
    BY <2>4, <2>5, <2>6, <2>7 DEF ControlInv
<1> QED
  BY <1>4, <1>5

LEMMA VisitKeeps ==
  ASSUME ControlInv, Visit
  PROVE  ControlInv'
<1> DEFINE c == Current
           label == LabelOf[c]
           wanted == http.request.op # "one" \/ http.request.label = label
           usable == c \notin poisoned /\ wanted
           sets == usable /\ http.pc = "apply"
           stops == sets /\ http.request.op = "one"
           at == IF stops THEN EndsScan ELSE http.at + 1
           before == IF usable /\ http.pc = "snapshot" THEN http.before \cup {label} ELSE http.before
           applied == IF sets THEN http.applied \cup {label} ELSE http.applied
           dropping == IF refs[c] = {"control"} THEN c ELSE None
<1>1. /\ InScan /\ http.upgraded /\ c \notin sending
      /\ headroom' = IF sets THEN [headroom EXCEPT ![c] = 1] ELSE headroom
      /\ http' = [http EXCEPT !.upgraded = FALSE, !.dropping = dropping, !.before = before,
                              !.applied = applied, !.at = at]
      /\ Release(c, "control")
      /\ UNCHANGED <<held, SOCKET_REGISTRY, SOCKET_INSTANCE_REGISTRY, sending, poisoned, steady,
                     updater, gauges>>
  BY DEF Visit, gaugeVars, Skip
<1>2. /\ http.at \in 1..Len(SOCKET_INSTANCE_REGISTRY) /\ c \in Sockets
      /\ c = SOCKET_INSTANCE_REGISTRY[http.at] /\ Scanning /\ label \in Labels
      /\ http \in HttpStates /\ http.at + 1 \in 0..EndsScan
      /\ SOCKET_INSTANCE_REGISTRY \in Seq(Sockets) /\ Len(SOCKET_INSTANCE_REGISTRY) \in Nat
  BY <1>1, CurrentEntry, LabelsOf DEF ControlInv, ThreadInv, ThreadDomains
\* The strong reference has kept the socket live.
<1>3. "control" \in refs[c] /\ phase[c] = "live"
  BY <1>1, <1>2 DEF ControlInv, ThreadInv, UpgradedHeld, RefsLive
<1>4. /\ refs' \in [Sockets -> SUBSET {"owner", "control"}] /\ refs'[c] = refs[c] \ {"control"}
      /\ \A t \in Sockets \ {c} : phase'[t] = phase[t] /\ refs'[t] = refs[t]
      /\ phase'[c] = IF refs[c] = {"control"} THEN "dropping" ELSE "live"
  BY <1>1, <1>2, <1>3 DEF Release, ControlInv, ThreadInv, SocketInv, ThreadDomains, Phases
<1>5. at \in 0..EndsScan
  BY <1>2 DEF EndsScan
<1>6. /\ http' \in HttpStates /\ http'.at = at /\ http'.pc = http.pc
      /\ http'.request = http.request /\ http'.upgraded = FALSE
      /\ http'.before = before /\ http'.applied = applied /\ http'.reply = http.reply
  <2>1. /\ before \in SUBSET Labels /\ applied \in SUBSET Labels
        /\ dropping \in Sockets \cup {None} /\ at \in Nat
    BY <1>2, <1>5 DEF HttpStates, EndsScan
  <2> HIDE DEF before, applied, dropping, at
  <2> QED
    BY <1>1, <1>2, <2>1 DEF HttpStates
<1>7. /\ headroom' \in [Sockets -> Nat]
      /\ \A t \in Sockets : headroom[t] = 1 => headroom'[t] = 1
      /\ sets => headroom'[c] = 1
  BY <1>1, <1>2 DEF ControlInv, ThreadInv, ThreadDomains
<1>8. SocketInv'
  <2>1. CASE refs[c] = {"control"}
    BY <1>1, <1>2, <1>3, <2>1, TurnsToDropping DEF Release, ControlInv, ThreadInv
  <2>2. CASE refs[c] # {"control"}
    <3>1. phase' = phase
      BY <1>1, <2>2 DEF Release
    <3> QED
      BY <1>1, <3>1 DEF ControlInv, ThreadInv, SocketInv, HeldByPhase, OneBound, RegistryExact
  <2> QED
    BY <2>1, <2>2
<1>9. ThreadDomains'
  BY <1>1, <1>4, <1>5, <1>6, <1>7 DEF ControlInv, ThreadInv, ThreadDomains, EndsScan
<1>10. RefsLive'
  <2>1. refs'[c] # {} <=> phase'[c] = "live"
    BY <1>2, <1>3, <1>4 DEF ControlInv, ThreadInv, ThreadDomains
  <2> QED
    BY <1>4, <2>1 DEF ControlInv, ThreadInv, RefsLive
<1>11. SendersOwn'
  BY <1>1, <1>4 DEF ControlInv, ThreadInv, SendersOwn, Owned
<1>12. SteadyHealthy'
  <2>1. \A t \in Sockets : Owned(t) => Owned(t)'
    BY <1>3, <1>4 DEF Owned
  <2> QED
    BY <1>1, <2>1 DEF ControlInv, SteadyHealthy
<1>13. ScanKind' /\ UpgradedHeld'
  <2>1. at >= 1
    BY <1>2 DEF EndsScan
  <2> QED
    BY <1>2, <1>6, <2>1 DEF ControlInv, ScanKind, UpgradedHeld, Scanning
<1>14. PassedReached'
  <2> SUFFICES ASSUME NEW s \in steady
               PROVE  \A i \in 1..Len(SOCKET_INSTANCE_REGISTRY) :
                        i < at /\ SOCKET_INSTANCE_REGISTRY[i] = s => ScanReaches(s)'
    BY <1>1, <1>6 DEF PassedReached
  <2>1. /\ \A i \in 1..Len(SOCKET_INSTANCE_REGISTRY) :
             i < http.at /\ SOCKET_INSTANCE_REGISTRY[i] = s => ScanReaches(s)
        /\ s \in Sockets /\ phase[s] = "live" /\ s \notin poisoned
    BY <1>2 DEF ControlInv, PassedReached, SteadyHealthy, Owned
  <2>2. ScanReaches(s) => ScanReaches(s)'
    BY <1>6, <1>7, <2>1 DEF ScanReaches
  <2>3. s = c => ScanReaches(s)'
    <3>1. http.pc = "snapshot" => http.request.op \in {"get", "all"}
      BY DEF ControlInv, ScanKind
    <3> QED
      BY <1>6, <1>7, <2>1, <3>1 DEF ScanReaches
  <2>4. CASE stops
    \* No other live socket has the label that was asked for.
    <3>1. LabelOf[s] = label => s = c
      <4>1. "bound" \in held[s] /\ "bound" \in held[c]
        BY <1>2, <1>3, <2>1 DEF ControlInv, ThreadInv, SocketInv, HeldByPhase, Whole, Mapped
      <4> QED
        BY <1>2, <2>1, <4>1 DEF ControlInv, ThreadInv, SocketInv, OneBound
    <3>2. LabelOf[s] # label => ScanReaches(s)'
      BY <1>6, <2>4 DEF ScanReaches
    <3> QED
      BY <2>1, <2>3, <3>1, <3>2
  <2>5. CASE ~stops
    <3>1. \A i \in 1..Len(SOCKET_INSTANCE_REGISTRY) :
            i < http.at + 1 /\ SOCKET_INSTANCE_REGISTRY[i] = s => i < http.at \/ s = c
      BY <1>2
    <3> QED
      BY <2>1, <2>2, <2>3, <2>5, <3>1
  <2> QED
    BY <2>4, <2>5
<1>15. ControlHonest' /\ SteadyListed'
  BY <1>1, <1>2, <1>6 DEF ControlInv, ControlHonest, Scanning, SteadyListed
<1> QED
  BY <1>8, <1>9, <1>10, <1>11, <1>12, <1>13, <1>14, <1>15 DEF ControlInv, ThreadInv

LEMMA ScanDoneKeeps ==
  ASSUME ControlInv, ScanDone
  PROVE  ControlInv'
<1> DEFINE reply ==
             CASE http.request.op = "get" -> [ok |-> http.before, failed |-> {}]
               [] http.request.op = "all" ->
                    [ok |-> http.applied, failed |-> http.before \ http.applied]
               [] http.request.op = "one" ->
                    [ok |-> http.applied, failed |-> {http.request.label} \ http.applied]
<1>1. /\ Scanning /\ ~InScan
      /\ UNCHANGED <<socketVars, instanceVars, gaugeVars>>
  BY DEF ScanDone
<1>2. /\ http \in HttpStates /\ http.at \in Nat /\ http.at > Len(SOCKET_INSTANCE_REGISTRY)
      /\ http.request \in ControlRequests
      /\ SOCKET_INSTANCE_REGISTRY \in Seq(Sockets) /\ Len(SOCKET_INSTANCE_REGISTRY) \in Nat
  BY <1>1 DEF ControlInv, ThreadInv, ThreadDomains, HttpStates, InScan, ScanKind, Scanning
<1>3. /\ UNCHANGED <<SOCKET_INSTANCE_REGISTRY, refs, sending, poisoned, headroom, steady>>
      /\ UNCHANGED <<phase, held, SOCKET_REGISTRY, updater, gauges>>
  BY <1>1 DEF socketVars, instanceVars, gaugeVars
\* The whole registry has been passed.
<1>4. \A s \in steady : ScanReaches(s)
  BY <1>1, <1>2 DEF ControlInv, SteadyListed, Listed, PassedReached, Scanning
<1>5. ~http.upgraded
  BY <1>1 DEF ControlInv, UpgradedHeld
<1>6. SocketInv' /\ RefsLive' /\ SendersOwn' /\ SteadyHealthy'
  BY <1>3 DEF ControlInv, ThreadInv, SocketInv, HeldByPhase, OneBound, RegistryExact, RefsLive,
         SendersOwn, SteadyHealthy, Owned
<1>7. CASE http.pc = "snapshot" /\ http.request.op = "all"
  <2>1. http' = [http EXCEPT !.pc = "between", !.at = 0, !.dropping = None]
    BY <1>7 DEF ScanDone
  <2>2. /\ http' \in HttpStates /\ http'.at = 0 /\ http'.pc = "between"
        /\ http'.request = http.request /\ http'.upgraded = http.upgraded
    BY <1>2, <2>1 DEF HttpStates
  <2>3. ThreadDomains'
    BY <1>2, <1>3, <2>2 DEF ControlInv, ThreadInv, ThreadDomains, EndsScan
  <2>4. ScanKind' /\ UpgradedHeld' /\ ControlHonest' /\ PassedReached'
    BY <1>2, <1>5, <1>7, <2>2 DEF ScanKind, UpgradedHeld, ControlHonest, PassedReached, Scanning
  <2>5. SteadyListed'
    BY <1>3, <1>7, <2>2 DEF ControlInv, SteadyListed
  <2> QED
    BY <1>6, <2>3, <2>4, <2>5 DEF ControlInv, ThreadInv
<1>8. CASE ~(http.pc = "snapshot" /\ http.request.op = "all")
  <2>1. http' = [http EXCEPT !.pc = "accept", !.at = 0, !.before = {}, !.applied = {},
                             !.dropping = None, !.reply = reply]
    BY <1>8 DEF ScanDone
  <2>2. http.request.op \in {"get", "all", "one"}
    BY <1>1 DEF ControlInv, ScanKind, Scanning
  <2>3. reply \in [ok : SUBSET Labels,
                   failed : SUBSET (Labels \cup {q.label : q \in ControlRequests})]
    <3>1. /\ http.before \subseteq Labels /\ http.applied \subseteq Labels
          /\ http.request.label \in {q.label : q \in ControlRequests}
      BY <1>2 DEF HttpStates
    <3> QED
      BY <2>2, <3>1
  <2>4. \A s \in steady :
          \/ http.request.op = "one" /\ http.request.label # LabelOf[s]
          \/ /\ LabelOf[s] \in reply.ok /\ LabelOf[s] \notin reply.failed
             /\ http.request.op \in {"all", "one"} => headroom[s] = 1
    <3> SUFFICES ASSUME NEW s \in steady
                 PROVE  \/ http.request.op = "one" /\ http.request.label # LabelOf[s]
                        \/ /\ LabelOf[s] \in reply.ok /\ LabelOf[s] \notin reply.failed
                           /\ http.request.op \in {"all", "one"} => headroom[s] = 1
      OBVIOUS
    <3>1. ScanReaches(s)
      BY <1>4
    <3>2. CASE http.request.op = "get"
      <4>1. http.pc = "snapshot"
        BY <1>1, <3>2 DEF ControlInv, ScanKind, Scanning
      <4> QED
        BY <3>1, <3>2, <4>1 DEF ScanReaches
    <3>3. CASE http.request.op = "all"
      <4>1. http.pc = "apply"
        BY <1>1, <1>8, <3>3 DEF Scanning
      <4> QED
        BY <3>1, <3>3, <4>1 DEF ScanReaches
    <3>4. CASE http.request.op = "one"
      <4>1. http.pc = "apply"
        BY <1>1, <3>4 DEF ControlInv, ScanKind, Scanning
      <4> QED
        BY <3>1, <3>4, <4>1 DEF ScanReaches
    <3> QED
      BY <2>2, <3>2, <3>3, <3>4
  <2> HIDE DEF reply
  <2>5. /\ http' \in HttpStates /\ http'.at = 0 /\ http'.pc = "accept"
        /\ http'.request = http.request /\ http'.upgraded = http.upgraded /\ http'.reply = reply
    BY <1>2, <2>1, <2>3 DEF HttpStates
  <2>6. ThreadDomains'
    BY <1>2, <1>3, <2>5 DEF ControlInv, ThreadInv, ThreadDomains, EndsScan
  <2>7. ScanKind' /\ UpgradedHeld' /\ SteadyListed' /\ PassedReached'
    BY <1>5, <2>5 DEF ScanKind, UpgradedHeld, SteadyListed, PassedReached, Scanning
  <2>8. ControlHonest'
    BY <1>3, <2>4, <2>5 DEF ControlHonest
  <2> QED
    BY <1>6, <2>6, <2>7, <2>8 DEF ControlInv, ThreadInv
<1> QED
  BY <1>7, <1>8

LEMMA ControlStep ==
  ASSUME ControlInv, [ControlNext]_controlVars
  PROVE  ControlInv'
<1>1. ASSUME NEW s \in Sockets, OwnerStep(s)  PROVE ControlInv'
  BY <1>1, OpenAndDropKeep, OpenDoneKeepsAll, RegisterKeeps, SendsKeep, OwnerReleasesKeeps
     DEF OwnerStep
<1>2. ASSUME NEW raw \in RawRequests, Accept(raw)  PROVE ControlInv'
  BY <1>2, AcceptKeeps
<1>3. CASE Answer
  BY <1>3, LockKeeps, UpgradeKeeps, VisitKeeps, ScanDoneKeeps DEF Answer
<1>4. CASE Update
  BY <1>4, UpdateKeeps
<1>5. CASE UNCHANGED controlVars
  BY <1>5, QuietKeeps DEF controlVars, socketVars, ControlInv, ThreadInv, SocketInv, HeldByPhase,
         OneBound, RegistryExact
<1> QED
  BY <1>1, <1>2, <1>3, <1>4, <1>5 DEF ControlNext

LEMMA ControlStart == ControlInit => ControlInv
<1> SUFFICES ASSUME ControlInit  PROVE ControlInv
  OBVIOUS
<1>1. SocketInv
  BY SocketControlAssumption DEF ControlInit, SocketInv, HeldByPhase, OneBound, RegistryExact, Phases
<1>2. ThreadDomains
  BY DEF ControlInit, ThreadDomains, Accepting, NoReply, Sleeping, HttpStates, UpdaterStates, EndsScan
<1>3. RefsLive /\ SendersOwn
  BY DEF ControlInit, RefsLive, SendersOwn
<1>4. SteadyHealthy /\ ScanKind /\ UpgradedHeld /\ SteadyListed /\ PassedReached /\ ControlHonest
  BY DEF ControlInit, Accepting, SteadyHealthy, ScanKind, UpgradedHeld, SteadyListed, PassedReached, ControlHonest, Scanning
<1> QED
  BY <1>1, <1>2, <1>3, <1>4 DEF ControlInv, ThreadInv

----------------------------------------------------------------------------
(* A bridge run. *)

JoinedWorkers == {Workers[i] : i \in 1..joined}

\* What n workers with a packet add up to.
SumOf(n) ==
  [received |-> n, forwarded |-> IF Found THEN 0 ELSE n, encrypted |-> IF Found THEN n ELSE 0,
   route_misses |-> IF Found THEN 0 ELSE n]

BridgeDomains ==
  /\ main \in {"server", "bridge", "join"} \cup Ended
  /\ request \in Requests
  /\ worker \in [Pool -> {"none", "start", "return", "unwind", "done", "panicked"}]
  /\ counts \in [Pool -> {NoStats, OnePacket}]
  /\ joined \in 0..NumWorkers
  /\ main = "exit" => joined = NumWorkers
  /\ main = "panicked" => \A w \in Team : worker[w] = "panicked"

\* Only workers open sockets.
SocketsOfWorkers ==
  /\ main \in {"bridge", "rejected"} => \A s \in Sockets : phase[s] = "unused"
  /\ main \in {"join", "exit", "panicked"} =>
       /\ ~request.real => \A s \in Sockets : phase[s] = "unused"
       /\ \A s \in Sockets : phase[s] # "unused" => \E w \in Team : SocketOf[w] = s

\* A worker that ends has opened its socket, if it is to open one, and closed it.
SocketByStage ==
  main \in {"join", "exit", "panicked"} =>
    \A w \in Pool :
      /\ w \in Team <=> worker[w] # "none"
      /\ request.real /\ worker[w] \in {"return", "unwind"} =>
           phase[SocketOf[w]] \in {"live", "dropping", "closed"}
      /\ request.real /\ worker[w] \in {"done", "panicked"} => phase[SocketOf[w]] = "closed"

\* The sum so far is that of the workers joined so far.
Counted == {w \in JoinedWorkers : worker[w] = "done" /\ counts[w].received = 1}
TelemetrySum ==
  /\ main = "bridge" => joined = 0 /\ telemetry = NoStats
  /\ main \in {"join", "exit"} =>
       /\ \A w \in JoinedWorkers : worker[w] \in {"done", "panicked"}
       /\ telemetry = SumOf(Cardinality(Counted))

BridgeInv == BridgeDomains /\ SocketsOfWorkers /\ SocketByStage /\ TelemetrySum

CliInv == ControlInv /\ BridgeInv

----------------------------------------------------------------------------
LEMMA PoolFinite == IsFiniteSet(Pool) /\ \A i \in 1..Len(Workers) : Workers[i] \in Pool
<1>1. Workers \in Seq(Pool) /\ DOMAIN Workers = 1..Len(Workers) /\ Len(Workers) \in Nat
  BY CliAssumption
<1>2. Workers \in Surjection(1..Len(Workers), Pool)
  BY <1>1 DEF Pool, Surjection
<1>3. IsFiniteSet(1..Len(Workers))
  BY <1>1, FS_Interval
<1> QED
  BY <1>1, <1>2, <1>3, FS_Surjection

\* The workers of a run are the first of the pool.
LEMMA TeamOf ==
  ASSUME request \in Requests
  PROVE  /\ NumWorkers \in 1..Len(Workers) /\ Len(Workers) \in Nat
         /\ \A i \in 1..NumWorkers : Workers[i] \in Team
         /\ \A w \in Team : \E i \in 1..NumWorkers : Workers[i] = w
         /\ Cardinality(Team) = NumWorkers
<1>1. /\ Workers \in Seq(Pool) /\ DOMAIN Workers = 1..Len(Workers) /\ Len(Workers) \in Nat
      /\ Len(Workers) > 0 /\ request.num_workers \in 0..Len(Workers)
      /\ \A i, j \in 1..Len(Workers) : Workers[i] = Workers[j] => i = j
  BY CliAssumption
<1>2. NumWorkers \in 1..Len(Workers) /\ NumWorkers \in Nat
  BY <1>1 DEF NumWorkers, Alone
<1>3. \A w : Started(w) <=> \E i \in 1..NumWorkers : Workers[i] = w
  BY DEF Started, NumWorkers
<1>4. \A i \in 1..NumWorkers : i \in 1..Len(Workers) /\ Workers[i] \in Pool
  BY <1>1, <1>2
<1>5. /\ \A i \in 1..NumWorkers : Workers[i] \in Team
      /\ \A w \in Team : \E i \in 1..NumWorkers : Workers[i] = w
  BY <1>3, <1>4 DEF Team
<1> DEFINE f == [i \in 1..NumWorkers |-> Workers[i]]
<1>6. f \in Surjection(1..NumWorkers, Team)
  BY <1>5 DEF Surjection
<1>7. f \in Injection(1..NumWorkers, Team)
  BY <1>1, <1>4, <1>5 DEF Injection, IsInjective
<1> HIDE DEF f
<1>8. IsFiniteSet(1..NumWorkers) /\ Cardinality(1..NumWorkers) = NumWorkers
  BY <1>2, FS_Interval
<1>9. Cardinality(Team) = NumWorkers
  BY <1>6, <1>7, <1>8, FS_Surjection
<1> QED
  BY <1>1, <1>2, <1>5, <1>9

\* Where the steps of a worker can take its socket.
LEMMA SocketMoves ==
  ASSUME ControlInv, NEW s \in Sockets,
         OpenNext(s) \/ OpenDone(s) \/ OpenFails(s) \/ DropNext(s) \/ OwnerReleases(s)
  PROVE  /\ [ControlNext]_controlVars
         /\ \A t \in Sockets \ {s} : phase'[t] = phase[t]
         /\ phase[s] \in {"live", "dropping", "closed"} =>
              phase'[s] \in {"live", "dropping", "closed"}
         /\ phase[s] = "closed" => phase'[s] = "closed"
<1>1. phase \in [Sockets -> Phases]
  BY DEF ControlInv, ThreadInv, SocketInv
<1>2. [ControlNext]_controlVars
  BY DEF ControlNext, OwnerStep
<1> QED
  BY <1>1, <1>2 DEF OpenNext, OpenDone, OpenFails, DropNext, OwnerReleases, Release, Owned, Phases

LEMMA WorkerSocketKeeps ==
  ASSUME CliInv, NEW w \in Pool, main = "join", w \in Team,
         \/ request.real /\ (\/ OpenNext(SocketOf[w]) \/ OpenDone(SocketOf[w])
                             \/ OpenFails(SocketOf[w]))
         \/ DropNext(SocketOf[w]) \/ OwnerReleases(SocketOf[w]),
         UNCHANGED cliVars
  PROVE  CliInv'
<1>1. SocketOf[w] \in Sockets
  BY CliAssumption
<1>2. /\ [ControlNext]_controlVars
      /\ \A t \in Sockets \ {SocketOf[w]} : phase'[t] = phase[t]
      /\ \A t \in Sockets :
           /\ phase[t] \in {"live", "dropping", "closed"} =>
                phase'[t] \in {"live", "dropping", "closed"}
           /\ phase[t] = "closed" => phase'[t] = "closed"
  BY <1>1, SocketMoves DEF CliInv
<1>3. ControlInv'
  BY <1>2, ControlStep DEF CliInv
<1>4. UNCHANGED <<main, request, worker, counts, joined, telemetry>>
  BY DEF cliVars
\* A run that opens no socket has none to drop.
<1>5. request.real
  BY <1>1 DEF CliInv, BridgeInv, SocketsOfWorkers, DropNext, OwnerReleases, Owned
<1>6. BridgeDomains' /\ TelemetrySum'
  BY <1>4 DEF CliInv, BridgeInv, BridgeDomains, TelemetrySum, Counted, JoinedWorkers, NumWorkers, Alone,
         OnePacket, Found, SumOf, Team, Started
<1>7. Team' = Team
  BY <1>4 DEF Team, Started, NumWorkers, Alone
<1>8. SocketsOfWorkers'
  BY <1>1, <1>2, <1>4, <1>5, <1>7 DEF CliInv, BridgeInv, SocketsOfWorkers
<1>9. \A v \in Pool : SocketOf[v] \in Sockets
  BY CliAssumption
<1>10. SocketByStage'
  BY <1>2, <1>4, <1>7, <1>9 DEF CliInv, BridgeInv, SocketByStage
<1> QED
  BY <1>3, <1>6, <1>8, <1>10 DEF CliInv, BridgeInv

LEMMA SpawnKeeps ==
  ASSUME CliInv, Spawn
  PROVE  BridgeInv'
<1>1. /\ main = "bridge" /\ main' = "join" /\ joined = 0 /\ telemetry = NoStats
      /\ worker' = [v \in Pool |-> IF Started(v) THEN "start" ELSE "none"]
      /\ UNCHANGED <<phase, request, counts, joined, telemetry>>
      /\ \A s \in Sockets : phase[s] = "unused"
  BY DEF Spawn, controlVars, socketVars, CliInv, BridgeInv, SocketsOfWorkers, TelemetrySum
<1>2. BridgeDomains'
  BY <1>1 DEF CliInv, BridgeInv, BridgeDomains, NumWorkers, Alone, OnePacket, Found
<1>3. SocketsOfWorkers'
  BY <1>1 DEF SocketsOfWorkers
<1>4. SocketByStage'
  BY <1>1 DEF SocketByStage, Team, Started, NumWorkers, Alone
<1>5. TelemetrySum'
  <2>1. JoinedWorkers' = {}
    BY <1>1 DEF JoinedWorkers
  <2>2. Counted' = {} /\ Cardinality(Counted') = 0
    BY <2>1, FS_EmptySet DEF Counted
  <2> QED
    BY <1>1, <2>1, <2>2 DEF TelemetrySum, NoStats, SumOf
<1> QED
  BY <1>2, <1>3, <1>4, <1>5 DEF BridgeInv

\* A worker moves on from one stage to the next, and is not joined yet.
LEMMA StageKeeps ==
  ASSUME CliInv, NEW w \in Pool, main = "join", worker[w] \in {"start", "return", "unwind"},
         UNCHANGED <<controlVars, main, request, joined, telemetry>>,
         NEW stage \in {"return", "unwind", "done", "panicked"},
         worker' = [worker EXCEPT ![w] = stage],
         counts' \in [Pool -> {NoStats, OnePacket}],
         \A v \in Pool \ {w} : counts'[v] = counts[v],
         request.real /\ stage \in {"return", "unwind"} =>
           phase[SocketOf[w]] \in {"live", "dropping", "closed"},
         request.real /\ stage \in {"done", "panicked"} => phase[SocketOf[w]] = "closed"
  PROVE  BridgeInv'
<1>1. /\ UNCHANGED <<phase, main, request, joined, telemetry>>
      /\ worker' \in [Pool -> {"none", "start", "return", "unwind", "done", "panicked"}]
      /\ worker'[w] = stage /\ \A v \in Pool \ {w} : worker'[v] = worker[v]
      /\ worker[w] # "none"
  BY DEF controlVars, socketVars, CliInv, BridgeInv, BridgeDomains
<1>2. Team' = Team /\ NumWorkers' = NumWorkers /\ OnePacket' = OnePacket /\ JoinedWorkers' = JoinedWorkers
  BY <1>1 DEF Team, Started, NumWorkers, Alone, OnePacket, Found, JoinedWorkers
<1>3. BridgeDomains'
  BY <1>1, <1>2 DEF CliInv, BridgeInv, BridgeDomains
<1>4. SocketsOfWorkers'
  BY <1>1, <1>2 DEF CliInv, BridgeInv, SocketsOfWorkers
<1>5. SocketByStage'
  BY <1>1, <1>2 DEF CliInv, BridgeInv, SocketByStage
<1>6. TelemetrySum'
  <2>1. w \notin JoinedWorkers
    BY DEF CliInv, BridgeInv, TelemetrySum
  <2>2. JoinedWorkers \subseteq Pool
    <3>1. joined \in 0..NumWorkers /\ NumWorkers \in 1..Len(Workers) /\ Len(Workers) \in Nat
      BY TeamOf DEF CliInv, BridgeInv, BridgeDomains
    <3> QED
      BY <3>1, PoolFinite DEF JoinedWorkers
  <2>3. \A v \in JoinedWorkers : worker'[v] = worker[v] /\ counts'[v] = counts[v]
    BY <1>1, <2>1, <2>2
  <2>4. Counted' = Counted
    BY <1>2, <2>3 DEF Counted
  <2> QED
    BY <1>1, <1>2, <2>3, <2>4 DEF CliInv, BridgeInv, TelemetrySum, Found, Alone, SumOf
<1> QED
  BY <1>3, <1>4, <1>5, <1>6 DEF BridgeInv

LEMMA JoinKeeps ==
  ASSUME CliInv, Join
  PROVE  BridgeInv'
<1> DEFINE w == Workers[joined + 1]
           n == Cardinality(Counted)
<1>1. /\ main = "join" /\ joined < Cardinality(Team) /\ worker[w] \in {"done", "panicked"}
      /\ telemetry' = IF worker[w] = "done" THEN Plus(telemetry, counts[w]) ELSE telemetry
      /\ joined' = joined + 1
      /\ UNCHANGED <<phase, main, request, worker, counts>>
  BY DEF Join, Team, controlVars, socketVars
<1>2. /\ NumWorkers \in 1..Len(Workers) /\ Len(Workers) \in Nat /\ Cardinality(Team) = NumWorkers
      /\ joined \in 0..NumWorkers /\ joined + 1 \in 1..NumWorkers
      /\ \A i \in 1..NumWorkers : Workers[i] \in Team
  BY <1>1, TeamOf DEF CliInv, BridgeInv, BridgeDomains
<1>3. Team' = Team /\ NumWorkers' = NumWorkers /\ OnePacket' = OnePacket /\ (Found' <=> Found)
  BY <1>1 DEF Team, Started, NumWorkers, Alone, OnePacket, Found
<1>4. BridgeDomains' /\ SocketsOfWorkers' /\ SocketByStage'
  BY <1>1, <1>2, <1>3 DEF CliInv, BridgeInv, BridgeDomains, SocketsOfWorkers, SocketByStage
<1>5. /\ JoinedWorkers' = JoinedWorkers \cup {w} /\ w \notin JoinedWorkers /\ w \in Pool
      /\ JoinedWorkers \subseteq Pool
  <2>1. \A i, j \in 1..Len(Workers) : Workers[i] = Workers[j] => i = j
    BY CliAssumption
  <2>2. w \in Pool /\ JoinedWorkers \subseteq Pool
    BY <1>2, PoolFinite DEF JoinedWorkers
  <2>3. w \notin JoinedWorkers
    BY <1>2, <2>1 DEF JoinedWorkers
  <2>4. JoinedWorkers' = JoinedWorkers \cup {w}
    BY <1>1, <1>2 DEF JoinedWorkers
  <2> QED
    BY <2>2, <2>3, <2>4
<1> HIDE DEF w
<1>6. IsFiniteSet(Counted) /\ n \in Nat /\ w \notin Counted
  <2>1. IsFiniteSet(Counted)
    BY <1>5, PoolFinite, FS_Subset DEF Counted
  <2> QED
    BY <1>5, <2>1, FS_CardinalityType DEF Counted
<1>7. counts[w] \in {NoStats, OnePacket}
  BY <1>5 DEF CliInv, BridgeInv, BridgeDomains
<1>8. telemetry = SumOf(n)
  BY <1>1 DEF CliInv, BridgeInv, TelemetrySum
<1>9. CASE worker[w] = "done" /\ counts[w] = OnePacket
  <2>1. Counted' = Counted \cup {w}
    BY <1>1, <1>5, <1>9 DEF Counted, OnePacket
  <2>2. Cardinality(Counted') = n + 1
    BY <1>6, <2>1, OneMore
  <2> HIDE DEF n
  <2>3. telemetry' = SumOf(n + 1)
    BY <1>1, <1>6, <1>8, <1>9 DEF Plus, OnePacket, SumOf
  <2> QED
    BY <1>1, <1>3, <1>4, <1>5, <2>2, <2>3 DEF CliInv, BridgeInv, TelemetrySum, SumOf
<1>10. CASE ~(worker[w] = "done" /\ counts[w] = OnePacket)
  <2>1. worker[w] = "done" => counts[w] = NoStats
    BY <1>7, <1>10
  <2>2. Counted' = Counted
    BY <1>1, <1>5, <2>1 DEF Counted, NoStats
  <2>3. telemetry' = telemetry
    BY <1>1, <1>6, <1>8, <2>1 DEF Plus, NoStats, SumOf
  <2> QED
    BY <1>1, <1>3, <1>4, <1>5, <2>2, <2>3 DEF CliInv, BridgeInv, TelemetrySum, SumOf
<1> QED
  BY <1>9, <1>10

\* What is computed from the request and the workers stays with them.
LEMMA NamesKept ==
  ASSUME UNCHANGED <<request, worker, counts, joined>>
  PROVE  /\ Team' = Team /\ NumWorkers' = NumWorkers /\ OnePacket' = OnePacket
         /\ (Found' <=> Found) /\ JoinedWorkers' = JoinedWorkers /\ Counted' = Counted
<1>1. /\ Team' = Team /\ NumWorkers' = NumWorkers /\ OnePacket' = OnePacket
      /\ (Found' <=> Found) /\ JoinedWorkers' = JoinedWorkers
  BY DEF Team, Started, NumWorkers, Alone, OnePacket, Found, JoinedWorkers
<1> QED
  BY <1>1 DEF Counted

LEMMA StutterKeeps ==
  ASSUME CliInv, UNCHANGED allVars
  PROVE  CliInv'
<1>1. /\ UNCHANGED <<phase, main, request, worker, counts, joined, telemetry>>
      /\ UNCHANGED controlVars
  BY DEF allVars, cliVars, controlVars, socketVars
<1>2. ControlInv'
  BY <1>1, ControlStep DEF CliInv
<1>3. /\ Team' = Team /\ NumWorkers' = NumWorkers /\ OnePacket' = OnePacket
      /\ (Found' <=> Found) /\ JoinedWorkers' = JoinedWorkers /\ Counted' = Counted
  BY <1>1, NamesKept
<1>4. BridgeDomains' /\ SocketsOfWorkers' /\ SocketByStage'
  BY <1>1, <1>3 DEF CliInv, BridgeInv, BridgeDomains, SocketsOfWorkers, SocketByStage
<1>5. TelemetrySum'
  BY <1>1, <1>3 DEF CliInv, BridgeInv, TelemetrySum, SumOf
<1> QED
  BY <1>2, <1>4, <1>5 DEF CliInv, BridgeInv

LEMMA BridgeStep ==
  ASSUME CliInv, Bridge
  PROVE  CliInv'
<1> DEFINE step(w) == WorkerOpens(w) \/ WorkerProcesses(w) \/ WorkerPanics(w) \/ WorkerDrops(w)
<1>1. ASSUME UNCHANGED controlVars  PROVE ControlInv'
  BY <1>1, ControlStep DEF CliInv
<1>2. CASE Exited
  BY <1>2, StutterKeeps DEF Exited
<1>3. CASE Reject
  <2>1. /\ UNCHANGED <<phase, request, worker, counts, joined, telemetry>>
        /\ main = "bridge" /\ main' = "rejected" /\ UNCHANGED controlVars
    BY <1>3 DEF Reject, controlVars, socketVars
  <2> QED
    BY <1>1, <2>1 DEF CliInv, BridgeInv, BridgeDomains, SocketsOfWorkers, SocketByStage,
           TelemetrySum, NumWorkers, Alone, OnePacket, Found,
           SumOf, Team, Started, Ended
<1>4. CASE Spawn
  BY <1>1, <1>4, SpawnKeeps DEF Spawn, CliInv
<1>5. CASE Join
  BY <1>1, <1>5, JoinKeeps DEF Join, CliInv
<1>6. CASE MainPanics
  <2>1. /\ UNCHANGED <<phase, request, worker, counts, joined, telemetry>>
        /\ main = "join" /\ main' = "panicked" /\ UNCHANGED controlVars
        /\ NumWorkers = 1 /\ worker[Workers[1]] = "panicked"
    BY <1>6 DEF MainPanics, controlVars, socketVars, NumWorkers, Alone
  <2>2. /\ Team' = Team /\ NumWorkers' = NumWorkers /\ OnePacket' = OnePacket
        /\ JoinedWorkers' = JoinedWorkers /\ Counted' = Counted
    BY <2>1, NamesKept
  <2>3. \A w \in Team : worker[w] = "panicked"
    <3>1. \A w \in Team : \E i \in 1..NumWorkers : Workers[i] = w
      BY TeamOf DEF CliInv, BridgeInv, BridgeDomains
    <3> QED
      BY <2>1, <3>1
  <2>4. BridgeDomains' /\ SocketsOfWorkers' /\ SocketByStage' /\ TelemetrySum'
    BY <2>1, <2>2, <2>3 DEF CliInv, BridgeInv, BridgeDomains, SocketsOfWorkers, SocketByStage,
           TelemetrySum, Ended
  <2> QED
    BY <1>1, <2>1, <2>4 DEF CliInv, BridgeInv
<1>8. CASE Report
  <2>1. /\ UNCHANGED <<phase, request, worker, counts, joined, telemetry>>
        /\ main = "join" /\ main' = "exit" /\ UNCHANGED controlVars
        /\ joined = Cardinality(Team)
    BY <1>8 DEF Report, controlVars, socketVars, Team
  <2>2. joined = NumWorkers
    BY <2>1, TeamOf DEF CliInv, BridgeInv, BridgeDomains
  <2>3. /\ Team' = Team /\ NumWorkers' = NumWorkers /\ OnePacket' = OnePacket
        /\ (Found' <=> Found) /\ JoinedWorkers' = JoinedWorkers /\ Counted' = Counted
    BY <2>1, NamesKept
  <2>4. BridgeDomains' /\ SocketsOfWorkers' /\ SocketByStage'
    BY <2>1, <2>2, <2>3 DEF CliInv, BridgeInv, BridgeDomains, SocketsOfWorkers, SocketByStage,
           Ended
  <2>5. TelemetrySum'
    BY <2>1, <2>3 DEF CliInv, BridgeInv, TelemetrySum, SumOf
  <2> QED
    BY <1>1, <2>1, <2>4, <2>5 DEF CliInv, BridgeInv
<1>7. ASSUME main = "join", NEW w \in Pool, step(w)
      PROVE  CliInv'
  <2>1. /\ counts \in [Pool -> {NoStats, OnePacket}] /\ request \in Requests
        /\ w \in Team <=> worker[w] # "none"
        /\ ~request.real => phase[SocketOf[w]] = "unused"
    BY <1>7, CliAssumption DEF CliInv, BridgeInv, BridgeDomains, SocketByStage, SocketsOfWorkers
  <2>2. CASE WorkerOpens(w)
    <3>1. /\ w \in Team /\ request.real /\ UNCHANGED cliVars
          /\ \/ OpenNext(SocketOf[w]) \/ OpenDone(SocketOf[w])
             \/ OpenFails(SocketOf[w]) \/ DropNext(SocketOf[w])
      BY <2>1, <2>2 DEF WorkerOpens
    <3> QED
      BY <1>7, <3>1, WorkerSocketKeeps
  <2>3. CASE WorkerProcesses(w)
    <3> DEFINE mock == ~request.real \/ phase[SocketOf[w]] = "closed"
               stats == IF mock THEN OnePacket ELSE NoStats
    <3>1. /\ worker[w] = "start" /\ worker' = [worker EXCEPT ![w] = "return"]
          /\ mock \/ phase[SocketOf[w]] = "live"
          /\ counts' = [counts EXCEPT ![w] = stats]
          /\ UNCHANGED <<controlVars, main, request, joined, telemetry>>
      BY <2>3 DEF WorkerProcesses
    <3>2. stats \in {NoStats, OnePacket}
      OBVIOUS
    <3>3. /\ counts' \in [Pool -> {NoStats, OnePacket}]
          /\ \A v \in Pool \ {w} : counts'[v] = counts[v]
      BY <2>1, <3>1, <3>2
    <3>4. request.real => phase[SocketOf[w]] \in {"live", "dropping", "closed"}
      BY <3>1
    <3> HIDE DEF stats, mock
    <3>5. BridgeInv'
      BY <1>7, <3>1, <3>3, <3>4, StageKeeps
    <3> QED
      BY <1>1, <3>1, <3>5 DEF CliInv
  <2>4. CASE WorkerPanics(w)
    <3>1. /\ worker[w] = "start" /\ worker' = [worker EXCEPT ![w] = "unwind"]
          /\ request.real => phase[SocketOf[w]] \in {"live", "dropping", "closed"}
          /\ UNCHANGED <<controlVars, main, request, counts, joined, telemetry>>
      BY <2>4 DEF WorkerPanics
    <3>2. BridgeInv'
      BY <1>7, <2>1, <3>1, StageKeeps
    <3> QED
      BY <1>1, <3>1, <3>2 DEF CliInv
  <2>5. CASE WorkerDrops(w)
    <3>1. worker[w] \in {"return", "unwind"}
      BY <2>5 DEF WorkerDrops
    <3>2. CASE (OwnerReleases(SocketOf[w]) \/ DropNext(SocketOf[w])) /\ UNCHANGED cliVars
      BY <1>7, <2>1, <3>1, <3>2, WorkerSocketKeeps
    <3>3. CASE /\ phase[SocketOf[w]] \in {"unused", "closed"}
               /\ worker' = [worker EXCEPT ![w] = IF @ = "return" THEN "done" ELSE "panicked"]
               /\ UNCHANGED <<controlVars, main, request, counts, joined, telemetry>>
      <4> DEFINE stage == IF worker[w] = "return" THEN "done" ELSE "panicked"
      <4>1. request.real => phase[SocketOf[w]] = "closed"
        BY <1>7, <3>1, <3>3 DEF CliInv, BridgeInv, SocketByStage
      <4>2. stage \in {"done", "panicked"} /\ worker' = [worker EXCEPT ![w] = stage]
        BY <3>3
      <4> HIDE DEF stage
      <4>3. BridgeInv'
        BY <1>7, <2>1, <3>1, <3>3, <4>1, <4>2, StageKeeps
      <4> QED
        BY <1>1, <3>3, <4>3 DEF CliInv
    <3> QED
      BY <2>5, <3>2, <3>3 DEF WorkerDrops
  <2> QED
    BY <1>7, <2>2, <2>3, <2>4, <2>5
<1> QED
  BY <1>2, <1>3, <1>4, <1>5, <1>6, <1>7, <1>8 DEF Bridge

LEMMA CliStep == CliInv /\ [CliNext]_allVars => CliInv'
<1> SUFFICES ASSUME CliInv, [CliNext]_allVars  PROVE CliInv'
  OBVIOUS
<1>1. CASE main = "server" /\ ControlNext /\ UNCHANGED cliVars
  <2>1. ControlInv'
    BY <1>1, ControlStep DEF CliInv
  <2>2. BridgeInv'
    BY <1>1 DEF cliVars, CliInv, BridgeInv, BridgeDomains, SocketsOfWorkers, SocketByStage,
           TelemetrySum, NumWorkers, Alone, Found, OnePacket
  <2> QED
    BY <2>1, <2>2 DEF CliInv
<1>2. CASE UNCHANGED allVars
  BY <1>2, StutterKeeps
<1>3. CASE Bridge
  BY <1>3, BridgeStep
<1> QED
  BY <1>1, <1>2, <1>3 DEF CliNext, Sleeps

LEMMA CliStart == CliInit => CliInv
<1> SUFFICES ASSUME CliInit  PROVE CliInv
  OBVIOUS
<1>1. ControlInv
  BY ControlStart DEF CliInit
<1>2. NumWorkers \in Nat
  BY TeamOf DEF CliInit
<1>3. BridgeInv
  BY <1>2 DEF CliInit, ControlInit, BridgeInv, BridgeDomains, SocketsOfWorkers, SocketByStage,
         TelemetrySum
<1> QED
  BY <1>1, <1>3 DEF CliInv

LEMMA CliInvariant == CliSpec => []CliInv
BY CliStart, CliStep, PTL DEF CliSpec

----------------------------------------------------------------------------
(* The theorems. *)

\* Sockets, threads and workers keep their types.
THEOREM CliTyped == CliSpec => []CliTypeOK
<1>1. CliInv => CliTypeOK
  <2> SUFFICES ASSUME CliInv  PROVE CliTypeOK
    OBVIOUS
  <2>1. joined \in 0..Len(Workers)
    BY TeamOf DEF CliInv, BridgeInv, BridgeDomains
  <2>2. ControlTypeOK
    BY DEF CliInv, ControlInv, ThreadInv, SocketInv, Phases, ThreadDomains, RefsLive, SendersOwn,
           ControlTypeOK
  <2> QED
    BY <2>1, <2>2 DEF CliInv, BridgeInv, BridgeDomains, CliTypeOK
<1> QED
  BY <1>1, CliInvariant, PTL

\* RealSocket::new and Drop keep the registry of counters right: a live socket
\* is the one counted under its label.
THEOREM LiveSocketsCounted == CliSpec => []LiveCounted
<1>1. CliInv => LiveCounted
  BY LabelsOf DEF CliInv, ControlInv, ThreadInv, SocketInv, HeldByPhase, RegistryExact, Whole,
         LiveCounted
<1> QED
  BY <1>1, CliInvariant, PTL

\* Whichever step of new fails and whichever thread runs Drop, the kernel lets
\* go of the frames before they are freed.
THEOREM UmemGoesLast == CliSpec => []UmemOutlivesFd
<1>1. CliInv => UmemOutlivesFd
  <2> SUFFICES ASSUME CliInv, NEW s \in Sockets, "kernel_umem" \in held[s]
               PROVE  "umem" \in held[s]
    BY DEF UmemOutlivesFd
  <2>1. held[s] \in Openings \cup {Mapped, Whole, Whole \ {"map"}}
    BY DEF CliInv, ControlInv, ThreadInv, SocketInv, HeldByPhase, Phases, Droppings
  <2> QED
    BY <2>1 DEF Openings, Mapped, Whole
<1> QED
  BY <1>1, CliInvariant, PTL

\* set_freelist_headroom_all, set_freelist_headroom_for and
\* snapshot_freelist_headrooms reach every socket that stayed usable.
THEOREM RequestsReach == CliSpec => []ControlHonest
<1>1. CliInv => ControlHonest
  BY DEF CliInv, ControlInv
<1> QED
  BY <1>1, CliInvariant, PTL

\* run_pinned_workers and run_demo leave no socket behind.
THEOREM BridgeLeavesNothing == CliSpec => []BridgeReleases
<1>1. CliInv => BridgeReleases
  <2> SUFFICES ASSUME CliInv, main \in Ended
               PROVE  /\ \A s \in Sockets : phase[s] \in {"unused", "closed"} /\ held[s] = {}
                      /\ \A l \in Labels : SOCKET_REGISTRY[l] = None
    BY DEF BridgeReleases
  <2>1. ASSUME NEW s \in Sockets, phase[s] # "unused"
        PROVE  phase[s] = "closed"
    <3>1. main \in {"exit", "panicked"} /\ request.real
      BY <2>1 DEF CliInv, BridgeInv, SocketsOfWorkers, Ended
    <3>2. PICK w \in Team : SocketOf[w] = s
      BY <2>1, <3>1 DEF CliInv, BridgeInv, SocketsOfWorkers
    <3>3. worker[w] \in {"done", "panicked"} /\ w \in Pool
      <4>1. CASE main = "exit"
        <5>1. joined = NumWorkers /\ \A v \in JoinedWorkers : worker[v] \in {"done", "panicked"}
          BY <4>1 DEF CliInv, BridgeInv, BridgeDomains, TelemetrySum
        <5>2. w \in JoinedWorkers
          BY <5>1, TeamOf DEF JoinedWorkers, CliInv, BridgeInv, BridgeDomains
        <5> QED
          BY <5>1, <5>2 DEF Team
      <4>2. CASE main = "panicked"
        BY <4>2 DEF CliInv, BridgeInv, BridgeDomains, Team
      <4> QED
        BY <3>1, <4>1, <4>2
    <3> QED
      BY <3>1, <3>2, <3>3 DEF CliInv, BridgeInv, SocketByStage
  <2>2. \A s \in Sockets : held[s] = {} /\ phase[s] \in {"unused", "closed"}
    BY <2>1 DEF CliInv, ControlInv, ThreadInv, SocketInv, HeldByPhase
  <2>3. ASSUME NEW l \in Labels  PROVE SOCKET_REGISTRY[l] = None
    BY <2>2 DEF CliInv, ControlInv, ThreadInv, SocketInv, RegistryExact
  <2> QED
    BY <2>2, <2>3
<1> QED
  BY <1>1, CliInvariant, PTL

\* The telemetry is the sum over the workers that returned.
THEOREM TelemetryIsSum == CliSpec => []TelemetryAdds
<1>1. CliInv => TelemetryAdds
  <2> SUFFICES ASSUME CliInv, main = "exit"
               PROVE  LET returned == {w \in Pool : worker[w] = "done"}
                          mocked == {w \in returned : counts[w].received = 1}
                      IN  /\ telemetry.received = Cardinality(mocked)
                          /\ telemetry.forwarded + telemetry.encrypted = telemetry.received
                          /\ telemetry.route_misses = telemetry.forwarded
                          /\ Health = "degraded" <=>
                               /\ mocked # {} /\ request.num_workers > 1
                               /\ \/ request.routes = "none"
                                  \/ request.routes = "other" /\ request.mode = "primary"
    BY DEF TelemetryAdds
  <2> DEFINE mocked == {w \in {v \in Pool : worker[v] = "done"} : counts[w].received = 1}
             n == Cardinality(mocked)
  <2>1. joined = NumWorkers /\ request \in Requests /\ request.num_workers \in Nat
    BY CliAssumption DEF CliInv, BridgeInv, BridgeDomains
  <2>2. JoinedWorkers = Team
    <3>1. NumWorkers \in Nat
      BY <2>1, TeamOf
    <3> QED
      BY <2>1, <3>1, TeamOf DEF JoinedWorkers
  <2>3. Counted = mocked
    <3>1. \A w \in Pool : worker[w] = "done" => w \in Team
      BY DEF CliInv, BridgeInv, SocketByStage
    <3>2. Team \subseteq Pool
      BY DEF Team
    <3> QED
      BY <2>2, <3>1, <3>2 DEF Counted
  <2>4. IsFiniteSet(mocked)
    BY PoolFinite, FS_Subset
  <2>5. n \in Nat /\ (n = 0 <=> mocked = {})
    BY <2>4, FS_CardinalityType, FS_EmptySet
  <2>6. telemetry = SumOf(n)
    BY <2>3 DEF CliInv, BridgeInv, TelemetrySum
  <2> HIDE DEF n
  <2>7. /\ telemetry.received = n
        /\ telemetry.forwarded + telemetry.encrypted = telemetry.received
        /\ telemetry.route_misses = telemetry.forwarded
    BY <2>5, <2>6 DEF SumOf
  <2>8. ~Found <=> /\ request.num_workers > 1
                   /\ \/ request.routes = "none"
                      \/ request.routes = "other" /\ request.mode = "primary"
    BY <2>1, CliAssumption DEF Found, Alone
  <2>9. Health = "degraded" <=> mocked # {} /\ ~Found
    BY <2>5, <2>6 DEF Health, SumOf
  <2> QED
    BY <2>7, <2>8, <2>9 DEF n
<1> QED
  BY <1>1, CliInvariant, PTL
====
