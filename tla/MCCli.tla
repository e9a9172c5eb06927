------------------------------- MODULE MCCli -------------------------------
(***************************************************************************)
(* Instance of Cli for TLC: two sockets that want the same label, one      *)
(* after the other, and one with a label of its own.                       *)
(***************************************************************************)
EXTENDS Cli, TLC

CONSTANTS s1, s2, s3

MCSockets == {s1, s2, s3}
MCLabelOf == s1 :> "A" @@ s2 :> "A" @@ s3 :> "B"

\* A body that was not read yet, one that ends with the number, and bodies
\* that white space ends after the number or after the label.
MCRaw(label, body_read, after_number, after_label) ==
  [path |-> "post_control", label |-> label, body_read |-> body_read,
   after_number |-> after_number, after_label |-> after_label]
MCRawRequests ==
  {MCRaw(None, FALSE, "nothing", "nothing"), MCRaw(None, TRUE, "nothing", "nothing"),
   MCRaw(None, TRUE, "space", "nothing"), MCRaw("A", TRUE, "space", "nothing"),
   MCRaw("A", TRUE, "space", "space")}
    \cup {[path |-> p, label |-> None, body_read |-> FALSE, after_number |-> "nothing",
           after_label |-> "nothing"] : p \in {"get_control", "other"}}

MCWorkers == <<"w1", "w2">>
MCSocketOf == "w1" :> s1 @@ "w2" :> s2
MCRoutes ==
  {[routes |-> "none", mode |-> "off"], [routes |-> "dest", mode |-> "primary"]}
    \cup {[routes |-> "other", mode |-> m] : m \in {"off", "primary", "full"}}
MCRequest(valid, real, n, r) ==
  [valid |-> valid, real |-> real, num_workers |-> n, routes |-> r.routes, mode |-> r.mode]
MCRequests ==
  {MCRequest(TRUE, real, n, r) : real \in BOOLEAN, n \in {1, 2}, r \in MCRoutes}
    \cup {MCRequest(FALSE, TRUE, 1, CHOOSE r \in MCRoutes : TRUE)}

\* The control thread and the updater share nothing but the sockets: a server
\* is checked with one of them at work, and a bridge run with neither.  The
\* control thread gets two sockets with different labels, the updater the two
\* that want the same.  The control thread is also checked with all three
\* ("registry"), so that a third is registered, and the registry pruned, beside
\* two it may have to reach.  There its only request is to set the headroom of
\* all sockets, opening succeeds, and a socket is opened or dropped without a
\* step of another thread in between.
CONSTANT Watched
VARIABLE watched

MCInit ==
  /\ CliInit
  /\ watched \in Watched /\ (watched = "workers" <=> main # "server")

Busy == {s \in Sockets : phase[s] \in {"opening", "dropping"}}

MCNext ==
  /\ CliNext /\ UNCHANGED watched
  /\ watched \in {"gauges", "workers"} => UNCHANGED http
  /\ watched # "gauges" => UNCHANGED updater
  /\ watched = "control" => phase'[s2] = "unused"
  /\ watched = "gauges" => phase'[s3] = "unused"
  /\ watched = "registry" =>
       /\ http'.request # None => http'.request.op = "all"
       /\ Busy # {} => \E s \in Busy : phase'[s] # phase[s] \/ held'[s] # held[s]
       /\ \A s \in Sockets :
            /\ phase'[s] = "dropping" => phase[s] \in {"live", "dropping"}
            /\ phase'[s] = "opening" => Bindable(s)

MCVars == <<allVars, watched>>

\* Fairness, of the threads that are at work.
MCFairness ==
  /\ WF_MCVars(watched \in {"control", "registry"} /\ Answer /\ UNCHANGED <<cliVars, watched>>)
  /\ WF_MCVars(watched = "gauges" /\ Update /\ UNCHANGED <<cliVars, watched>>)
  /\ \A s \in Sockets :
       WF_MCVars(main = "server" /\ DropNext(s) /\ UNCHANGED <<cliVars, watched>>)

MCSpec == MCInit /\ [][MCNext]_MCVars /\ MCFairness
====
