--------------------------- MODULE RegistryContract ---------------------------
(***************************************************************************)
(* What the registry promises its callers: each call takes effect at one   *)
(* instant between its invocation and its return (linearizability).  A     *)
(* registration adds all its adapters or nothing, a refusal says what is   *)
(* true at that instant, a read shows the table of that instant.           *)
(***************************************************************************)
EXTENDS Sequences, FiniteSets

CONSTANTS
  Caller, Adapter, NilAdapter, Key, Ident, Reconciles, NoEntry,
  Requests    \* the calls clients make: [kind, args, keys]

VARIABLES
  table,   \* the published entries
  sealed,  \* the registry is frozen
  asked,   \* asked[c]: the call c is in
  answer,  \* answer[c]: the result, "none" before the call takes effect
  view     \* view[c]: the entries a read returns

vars == <<table, sealed, asked, answer, view>>

Nothing == [k \in Key |-> NoEntry]
NoCall  == [kind |-> "none", args |-> <<>>, keys |-> {}]

Init ==
  /\ table = Nothing
  /\ sealed = FALSE
  /\ asked = [c \in Caller |-> NoCall]
  /\ answer = [c \in Caller |-> "none"]
  /\ view = [c \in Caller |-> Nothing]

Given(c) == {asked[c].args[i] : i \in DOMAIN asked[c].args}

Waiting(c, kinds) == asked[c].kind \in kinds /\ answer[c] = "none"

Reply(c, value) ==
  /\ answer' = [answer EXCEPT ![c] = value]
  /\ UNCHANGED asked

Ask(c) ==
  /\ asked[c] = NoCall
  /\ \E q \in Requests : asked' = [asked EXCEPT ![c] = q]
  /\ UNCHANGED <<table, sealed, answer, view>>

Same(a, b) == a # NilAdapter /\ b # NilAdapter /\ Ident[a] = Ident[b]

Repeats(args) ==
  \E i, j \in DOMAIN args : i # j /\ Same(args[i], args[j])

\* Each adapter of the call gets the free place of its identity; no other
\* place changes.
Adds(adapters) ==
  \A k \in Key :
    IF \E a \in adapters : Ident[a] = k
      THEN /\ table[k] = NoEntry
           /\ table'[k] # NoEntry
           /\ table'[k].of \in adapters
           /\ Ident[table'[k].of] = k
      ELSE table'[k] = table[k]

Register(c) ==
  /\ Waiting(c, {"register", "set"})
  /\ ~sealed
  /\ NilAdapter \notin Given(c)
  /\ ~Repeats(asked[c].args)
  /\ Adds(Given(c))
  /\ Reply(c, "ok")
  /\ UNCHANGED <<sealed, view>>

Refuse(c) ==
  /\ Waiting(c, {"register", "set"})
  /\ \/ NilAdapter \in Given(c) /\ Reply(c, "required")
     \/ Given(c) \ {NilAdapter} # {} /\ Reply(c, "invalid")
     \/ ~(Given(c) \subseteq Reconciles) /\ Reply(c, "noreconciler")
     \/ sealed /\ Reply(c, "frozen")
     \/ /\ \/ Repeats(asked[c].args)
           \/ \E a \in Given(c) \ {NilAdapter} : table[Ident[a]] # NoEntry
        /\ Reply(c, "duplicate")
  /\ UNCHANGED <<table, sealed, view>>

Freeze(c) ==
  /\ Waiting(c, {"freeze"})
  /\ sealed' = TRUE
  /\ Reply(c, "ok")
  /\ UNCHANGED <<table, view>>

Frozen(c) ==
  /\ Waiting(c, {"frozen"})
  /\ Reply(c, IF sealed THEN "yes" ELSE "no")
  /\ UNCHANGED <<table, sealed, view>>

Look(c) ==
  /\ Waiting(c, {"provider", "list"})
  /\ view' = [view EXCEPT ![c] =
                [k \in Key |-> IF k \in asked[c].keys THEN table[k] ELSE NoEntry]]
  /\ Reply(c, "ok")
  /\ UNCHANGED <<table, sealed>>

Return(c) ==
  /\ answer[c] # "none"
  /\ asked' = [asked EXCEPT ![c] = NoCall]
  /\ answer' = [answer EXCEPT ![c] = "none"]
  /\ view' = [view EXCEPT ![c] = Nothing]
  /\ UNCHANGED <<table, sealed>>

Next ==
  \E c \in Caller :
    \/ Ask(c) \/ Register(c) \/ Refuse(c) \/ Freeze(c)
    \/ Frozen(c) \/ Look(c) \/ Return(c)

Spec == Init /\ [][Next]_vars
===============================================================================
