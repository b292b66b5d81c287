------------------------------ MODULE MCDelivery ------------------------------
(* A provider of one operation and perhaps another that undoes it, with     *)
(* every contract the first may have and a choice of sound and unsound      *)
(* targets.                                                                 *)
EXTENDS Delivery, TLC

Op(mode, effect, strategy, retention, lookup, compensation, undo) ==
  [mode |-> mode, effect |-> effect, strategy |-> strategy, retention |-> retention,
   reconciliation |-> lookup, compensation |-> compensation, undo |-> undo]

Lookups == {"none", "provider_lookup"}
Variants(ms, es, ss, compensation, undo) ==
  {Op(m, e, s, r, l, compensation, undo) :
     m \in ms, e \in es, s \in ss, r \in {0, 1}, l \in Lookups}
Charge == Variants({"call", "enqueue"}, {"read", "write"}, Strategies, "none", Blank)
Saga(undo) == Variants({"enqueue"}, {"reserve"}, {"none", "provider_key"}, "saga", undo)
Release ==
  Variants({"call", "enqueue"}, {"write"}, Strategies, "none", Blank)
    \cup Variants({"enqueue"}, {"reserve"}, Strategies, "none", Blank)
    \cup Variants({"enqueue"}, {"write"}, Strategies, "explicit", "charge")
MCDescriptors ==
  {"charge" :> c : c \in Charge \cup Saga("charge") \cup Saga("release")}
    \cup {("charge" :> c) @@ ("release" :> r) : c \in Saga("release"), r \in Release}
===============================================================================
