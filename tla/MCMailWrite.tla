------------------------------ MODULE MCMailWrite ------------------------------
(* Two messages: plain, with a Reply-To, with more senders than a summary      *)
(* holds, perhaps a draft; and clients that write to few or many.              *)
EXTENDS MailWrite, TLC

MCListing == <<"m1", "m2">>
MCLimits  == -1 .. 3

Fwd(base) == [re |-> 0, base |-> base]
Re(base)  == [re |-> 2, base |-> base]

O(subject, from, replyTo, draft) ==
  [subject |-> subject, from |-> from, replyTo |-> replyTo, draft |-> draft]
MCOriginals ==
  {O(Fwd("tea"), {"ann"}, {}, "no"),
   O(Fwd("tea"), {"ann"}, {"list"}, "no"),
   O(Re("tea"), {"ann", "list"}, {}, "no"),
   O(Fwd("rum"), {"ann"}, {}, "unknown")}

M(to, copies, subject) == [to |-> to, copies |-> copies, subject |-> subject]
MCMessages ==
  {M({"ANN"}, {}, Re("tea")), M({"ann", "list"}, {}, Fwd("tea")), M({"ann"}, {}, Re("rum")),
   M({"ann", "list"}, {"bob"}, Re("tea")), M({"ann", "ANN"}, {}, Re("tea")),
   M({"odd"}, {}, Re("tea"))}

Symmetry == Permutations(Ref)
MCFolded == [a \in Address |-> IF a = "ANN" THEN "ann" ELSE a]
===============================================================================
