------------------------------- MODULE Router -------------------------------
(***************************************************************************)
(* Router of src/routing/src/lib.rs: policies in one map under a lock,     *)
(* keyed by the flow hash, with key 0 as the default.  A policy is its     *)
(* next hop; queue_id and priority go with it.                             *)
(***************************************************************************)
EXTENDS Integers, Sequences

CONSTANTS
  Ids,        \* node ids, as the four 64-bit words the hash reads
  Labels,     \* flow labels
  Hops,       \* next hops
  SeedHop,    \* the next hop of the seeded default policy
  XorWords(_, _),
  MaxUpdates  \* bound: update_policy calls

VARIABLES
  policies, \* inner, from hash to policy
  updates   \* history: the updates made

routerVars == <<policies, updates>>

Flows == [src : Ids, dst : Ids, label : Labels]

XorOfWords(id) == XorWords(XorWords(id[1], id[2]), XorWords(id[3], id[4]))

\* XOR is commutative and associative.
ASSUME RouterAssumption ==
  /\ MaxUpdates \in Nat
  /\ \A i, j \in Ids :
       XorWords(XorOfWords(i), XorOfWords(j)) = XorWords(XorOfWords(j), XorOfWords(i))
  /\ \A i, j \in Ids, l \in Labels :
       XorWords(XorWords(XorOfWords(i), XorOfWords(j)), l) = XorWords(XorOfWords(i), XorWords(XorOfWords(j), l))

\* fast_flow_hash, and so compute_flow_key.
FlowHash(f) == XorWords(XorWords(XorOfWords(f.src), XorOfWords(f.dst)), f.label)

\* new and seed_default_policies
RouterInit == policies = [k \in {0} |-> SeedHop] /\ updates = <<>>

\* AHashMap::insert replaces.
Inserted(k, hop) == [j \in DOMAIN policies \cup {k} |-> IF j = k THEN hop ELSE policies[j]]

UpdatePolicy(f, hop) ==
  /\ Len(updates) < MaxUpdates
  /\ policies' = Inserted(FlowHash(f), hop)
  /\ updates' = Append(updates, [flow |-> f, hop |-> hop])

\* lookup_policy: the key's policy, or that of key 0; there always is one.
LookupPolicy(f) ==
  IF FlowHash(f) \in DOMAIN policies THEN policies[FlowHash(f)] ELSE policies[0]

\* A lookup changes nothing.
RouterNext ==
  \/ \E f \in Flows, hop \in Hops : UpdatePolicy(f, hop)
  \/ \E f \in Flows : LookupPolicy(f) \in Hops \cup {SeedHop} /\ UNCHANGED routerVars

RouterSpec == RouterInit /\ [][RouterNext]_routerVars

----------------------------------------------------------------------------
RouterTypeOK ==
  /\ 0 \in DOMAIN policies /\ \A k \in DOMAIN policies : policies[k] \in Hops \cup {SeedHop}
  /\ updates \in Seq([flow : Flows, hop : Hops]) /\ Len(updates) <= MaxUpdates

\* The hop of the last update of a flow in F, or of nothing.
LastOf(F, otherwise) ==
  LET at == {i \in DOMAIN updates : updates[i].flow \in F}
  IN  IF at = {} THEN otherwise ELSE updates[CHOOSE i \in at : \A j \in at : j <= i].hop

\* Comment at compute_flow_key: folding all 64 bytes eliminates hash
\* collisions.  So a flow keeps the policy it was given until it is given
\* another itself: updates of other flows do not replace it.
FlowsOwnPolicy ==
  \A i \in DOMAIN updates :
    LET f == updates[i].flow IN LookupPolicy(f) = LastOf({f}, SeedHop)

\* What the fold keeps.  The words of source, destination and label cancel: a
\* flow shares its policy with its reverse and with every flow whose words
\* cancel alike, and the flows whose words cancel out entirely share the
\* default.  So a lookup follows the last update of any flow of its class,
\* then the last update of the cancelling class, then the seed.
PoliciesByClass ==
  updates # <<>> => \A f \in Flows :
    LET words(a) == XorWords(XorWords(a[1], a[2]), XorWords(a[3], a[4]))
        cancel(g) == XorWords(words(g.src), XorWords(words(g.dst), g.label))
        class == {g \in Flows : cancel(g) = cancel(f)}
        default == {g \in Flows : cancel(g) = 0}
    IN  /\ LookupPolicy(f) = LastOf(class, LastOf(default, SeedHop))
        /\ LookupPolicy(f) = LookupPolicy([src |-> f.dst, dst |-> f.src, label |-> f.label])
====
