-------------------------------- MODULE OnceOnly --------------------------------
(***************************************************************************)
(* What a reliable operation and its compensation promise: each takes      *)
(* effect once or is refused, for good; who asked learns that and nothing  *)
(* else, perhaps never; and an effect is undone only when it is known.     *)
(* Where a mechanism has a limit beyond which it promises nothing, the     *)
(* detailed specification names what passed it: what is excused.           *)
(***************************************************************************)
VARIABLES
  fate,    \* fate[e]: open, accepted or rejected, for the operation and its undo
  told,    \* told[e]: what the asking side has learned
  excused  \* those of which nothing is promised any more

vars == <<fate, told, excused>>

Answers == {"open", "accepted", "rejected"}
Fates   == Answers \cup {"repeated"}

Init ==
  /\ fate = [e \in {"do", "undo"} |-> "open"]
  /\ told = [e \in {"do", "undo"} |-> "open"]
  /\ excused = {}

\* The answer may come along at once.
Decide(e) ==
  /\ fate[e] = "open"
  /\ e = "undo" => told["do"] = "accepted"
  /\ \E v \in {"accepted", "rejected"} :
       /\ fate' = [fate EXCEPT ![e] = v]
       /\ told' = told \/ told' = [told EXCEPT ![e] = v]
  /\ UNCHANGED excused

Learn(e) ==
  /\ told[e] = "open"
  /\ told' = [told EXCEPT ![e] = fate[e]]
  /\ UNCHANGED <<fate, excused>>

Excuse(e) ==
  /\ excused' = excused \cup {e}
  /\ UNCHANGED <<fate, told>>

\* It may take effect again, be refused after all, or be told wrongly.
Slip(e) ==
  /\ e \in excused
  /\ \E f \in Fates, t \in Answers :
       /\ fate' = [fate EXCEPT ![e] = f]
       /\ told' = [told EXCEPT ![e] = t]
  /\ UNCHANGED excused

Next == \E e \in {"do", "undo"} : Decide(e) \/ Learn(e) \/ Excuse(e) \/ Slip(e)

Spec == Init /\ [][Next]_vars
===============================================================================
