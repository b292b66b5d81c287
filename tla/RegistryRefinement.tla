-------------------------- MODULE RegistryRefinement --------------------------
(***************************************************************************)
(* The registry implements its contract.  A registration takes effect when *)
(* its entries are ready under the write lock: a batch when it is          *)
(* admitted, Register once its adapter is frozen.  The writes of the map   *)
(* that follow are stutters, for nobody can look in between.               *)
(***************************************************************************)
EXTENDS Registry

Committing(k) ==
  /\ writer # Free
  /\ pc[writer] = "publish"
  /\ staged[writer][k] # NoEntry

Requests ==
  {Request("register", <<a>>, {}) : a \in Singles}
    \cup {Request("set", batch, {}) : batch \in Batches}
    \cup {Request(kind, <<>>, {}) : kind \in {"freeze", "frozen"}}
    \cup {Request("provider", <<>>, {k}) : k \in Key}
    \cup {Request("list", <<>>, Key)}

Table   == [k \in Key |-> IF Committing(k) THEN staged[writer][k] ELSE providers[k]]
Answers == [c \in Caller |-> IF pc[c] = "publish" THEN "ok" ELSE reply[c]]
Views   == [c \in Caller |-> IF pc[c] = "done" THEN seen[c] ELSE Absent]

Contract == INSTANCE RegistryContract WITH
  table <- Table, sealed <- frozen, asked <- call, answer <- Answers, view <- Views

(* Every call takes effect at one instant between its invocation and its    *)
(* return: no reader sees a part of a batch, a refused registration leaves  *)
(* nothing behind, and a refusal is true of the table at that instant.      *)
Linearizable == Contract!Spec
===============================================================================
