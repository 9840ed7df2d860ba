-------------------------- MODULE MCRequestContract --------------------------
(***************************************************************************)
(* The bodies that RequestContract is checked with: each check of the code *)
(* on either side of its bounds, alone and with the others.                *)
(***************************************************************************)
EXTENDS RequestContract

\* Times to live around the bounds of the three classes.
Ttls ==
  {Absent, Bad, 59, 60, 3599, 3600, 86400, 86401, 2592000, 7776001, 63072000, 63072001}

Policies ==
  {Absent, Bad}
    \cup [ extra: {FALSE}, class: {"ephemeral", "standard", "extended", "other"},
           ttl: Ttls ]
    \cup [extra: {TRUE}, class: {"standard"}, ttl: {Absent}]

Parameters ==
  {Absent, Bad}
    \cup [ extra: {FALSE},
           epochs: {Absent, Bad, 0, 1, 3, 4},
           rate: {Absent, Bad, 0, 1, 10, 500, 501, 1000000, 1000001},
           dryRun: {Absent, Bad, TRUE, FALSE} ]
    \cup [extra: {TRUE}, epochs: {1}, rate: {Absent}, dryRun: {TRUE, FALSE}]

\* Every policy with every shape, and every set of parameters with every shape.
Plain == [extra |-> FALSE, epochs |-> Absent, rate |-> Absent, dryRun |-> Absent]

Shapes ==
  [ keys: {"known", "unknown", "forbidden"}, names: {"safe", "unsafe"},
    dataset: {"fixture", "own", "other"}, model: {"tiny", "gpu", "other"} ]

Body(s, policy, parameters) ==
  [ keys |-> s.keys, names |-> s.names, dataset |-> s.dataset, model |-> s.model,
    retention |-> policy, parameters |-> parameters ]

MCPayloads ==
  {Body(s, policy, [Plain EXCEPT !.dryRun = flag]) :
     s \in Shapes, policy \in Policies, flag \in {TRUE, FALSE, Absent}}
    \cup {Body(s, policy, parameters) :
            s \in {t \in Shapes : t.keys = "known" /\ t.names = "safe"},
            policy \in {Absent, AsMapping(DefaultRetention)}, parameters \in Parameters}
=============================================================================
