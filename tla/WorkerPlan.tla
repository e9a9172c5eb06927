----------------------------- MODULE WorkerPlan -----------------------------
(***************************************************************************)
(* How src/cli/src/worker.rs and main.rs turn a core list into an          *)
(* assignment of workers to cores.  A chunk of the list is the pair of its *)
(* bounds, a single core being both, or is not a number.                   *)
(***************************************************************************)
EXTENDS Integers, Sequences, SequencesExt, FiniteSets

CONSTANTS
  MaxCore,    \* bound: core ids are 0..MaxCore
  Chunks,     \* the chunks enumerated: pairs of numbers
  NotANumber, \* and the chunk that is none
  MaxChunks,  \* bound: chunks in a list
  MaxWorkers, \* bound: workers
  Available   \* what available_core_ids returns, empty when it fails

ASSUME WorkerPlanAssumption ==
  /\ MaxCore \in Nat /\ MaxChunks \in Nat /\ MaxWorkers \in Nat
  /\ Chunks \subseteq (0..MaxCore) \X (0..MaxCore)
  /\ Available \in Seq(0..MaxCore)

VARIABLES
  worker_cores, \* MOHAWK_WORKER_CORES, chunk by chunk
  plan          \* the core of each worker

planVars == <<worker_cores, plan>>

Bad(chunk) == chunk = NotANumber \/ chunk[1] > chunk[2]

\* parse_core_list: the ranges one after another; a core named twice is kept
\* twice.  One bad chunk, or no chunk at all, makes the whole list an error.
ParseFails(list) == list = <<>> \/ \E i \in DOMAIN list : Bad(list[i])

ParsedCores(list) ==
  FlattenSeq([i \in DOMAIN list |->
    [j \in 1..(list[i][2] - list[i][1] + 1) |-> list[i][1] + j - 1]])

\* resolve_worker_cores: an unusable list is ignored without a word.
ResolveWorkerCores(list) == IF ParseFails(list) THEN Available ELSE ParsedCores(list)

CountUp(worker_count, cores) ==
  [w \in 1..worker_count |-> IF w <= Len(cores) THEN cores[w] ELSE cores[Len(cores)]]

\* build_worker_plan: round robin, over 0..n-1 when no core is known.
BuildWorkerPlan(worker_count, cores) ==
  LET fallback == IF cores = <<>> THEN [i \in 1..worker_count |-> i - 1] ELSE cores
  IN  [w \in 1..worker_count |-> fallback[((w - 1) % Len(fallback)) + 1]]

----------------------------------------------------------------------------
PlanInit == worker_cores = <<>> /\ plan = <<>>

\* run_pinned_workers asks for at least one worker.
PlanWorkers(list, worker_count) ==
  /\ plan = <<>>
  /\ worker_cores' = list
  /\ plan' = BuildWorkerPlan(worker_count, ResolveWorkerCores(list))

Joined == plan # <<>> /\ plan' = <<>> /\ worker_cores' = <<>>

PlanNext ==
  \/ \E list \in UNION {[1..n -> Chunks \cup {NotANumber}] : n \in 0..MaxChunks},
        worker_count \in 1..MaxWorkers :
       PlanWorkers(list, worker_count)
  \/ Joined

PlanSpec == PlanInit /\ [][PlanNext]_planVars

----------------------------------------------------------------------------
Usable(list) ==
  /\ list # <<>>
  /\ \A i \in DOMAIN list : list[i] # NotANumber /\ list[i][1] <= list[i][2]

\* The chunks that name a core, and all the namings of the list.
Naming(list, c) == {i \in DOMAIN list : c \in list[i][1]..list[i][2]}
Namings(list) ==
  {e \in (DOMAIN list) \X (0..MaxCore) : e[2] \in list[e[1]][1]..list[e[1]][2]}

\* Every worker gets a core the list names, or the machine has when the list
\* is unusable; no core gets two workers before every one has got one, and a
\* core listed k times gets k shares, to within one round.
PlanBalanced ==
  plan # <<>> =>
    LET share(c) == IF Usable(worker_cores) THEN Cardinality(Naming(worker_cores, c))
                    ELSE Cardinality({i \in DOMAIN Available : Available[i] = c})
        workers(c) == Cardinality({w \in DOMAIN plan : plan[w] = c})
        all == IF Usable(worker_cores) THEN Cardinality(Namings(worker_cores))
               ELSE Len(Available)
    IN  all > 0 =>
          \A c \in {plan[w] : w \in DOMAIN plan} \cup 0..MaxCore :
            /\ workers(c) >= share(c) * (Len(plan) \div all)
            /\ workers(c) <= share(c) * ((Len(plan) + all - 1) \div all)
====
