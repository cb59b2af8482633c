----------------------------- MODULE MCActiveBot -----------------------------
(***************************************************************************)
(* Small instances of ActiveBot for TLC.                                   *)
(***************************************************************************)
EXTENDS ActiveBot, TLC

CONSTANT First  \* the services that every gesture may meet

Symmetry == Permutations(Bots) \cup Permutations(Gestures)

\* The services that a file, a store, the endpoints or a flow holds.
Held ==
  UNION {file[b] : b \in Bots}
    \cup main.bot.services \cup client.bot.services \cup main.endpoints.services
    \cup UNION {op[i].val.services \cup op[i].services : i \in Ops}

\* No overrides, and none but the gestures about the services of one bot.
Narrow ==
  /\ ~main.bot.overrides /\ ~client.bot.overrides /\ ~main.endpoints.overrides
  /\ \A i \in Ops : ~op[i].val.overrides
  /\ \A g \in Gestures : op[g].kind \in {"none", "switch", "close", "add", "remove"}

\* Two instances in one: a gesture begins, or a file is edited, only if it leads to a
\* state without the other services or to a narrow one.
Scope ==
  (file' # file /\ op' = op) \/ (\E g \in Gestures : op[g] = Idle /\ op'[g] # Idle)
    => Held' \subseteq First \/ Narrow'
=============================================================================
