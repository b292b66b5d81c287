----------------------------- MODULE MCInvocation -----------------------------
(* Two providers, one of which is deployed with two contracts of the same   *)
(* operation, with its mode changed and without it.                         *)
EXTENDS Invocation

Op(id, key, mode, hash) ==
  [identity |-> id, key |-> key, mode |-> mode, hash |-> hash, sound |-> TRUE]
L(class, coded) == [class |-> class, coded |-> coded]
O(error, report, encodes) == [error |-> error, report |-> report, encodes |-> encodes]

MCDecodes == Hash \X Hash
MCContracts == {Op("p", "read", "call", "h1"), Op("p", "send", "enqueue", "h1"),
                Op("q", "read", "call", "h1")}
MCBuilds ==
  {<<Op("p", "read", "call", "h1"), Op("p", "send", "enqueue", "h1")>>,
   <<Op("p", "read", "call", "h2"), Op("p", "send", "call", "h1")>>,
   <<Op("p", "read", "call", "h1"), Op("p", "read", "call", "h2")>>,
   <<Op("q", "read", "call", "h1")>>,
   <<Op("q", "read", "call", "h1"), Op("p", "send", "enqueue", "h1")>>,
   <<[Op("q", "read", "call", "h1") EXCEPT !.sound = FALSE]>>, <<>>}
MCOutcomes ==
  {O(<<>>, TRUE, TRUE), O(<<>>, TRUE, FALSE),
   O(<<L("plain", FALSE), L("retryable", TRUE)>>, TRUE, TRUE),
   O(<<L("uncertain", TRUE), L("retryable", TRUE)>>, FALSE, TRUE),
   O(<<L("retryable", FALSE), L("uncertain", TRUE)>>, TRUE, TRUE),
   O(<<L("zero", FALSE), L("retryable", TRUE)>>, TRUE, TRUE),
   O(<<L("invalid", TRUE)>>, FALSE, TRUE), O(<<L("plain", FALSE)>>, TRUE, TRUE)}
===============================================================================
