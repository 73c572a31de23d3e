-------------------------- MODULE MCRequestMetrics --------------------------
(* RequestMetrics for TLC: two requests, of any routes, over mTLS.  acme is  *)
(* a name Go's baggage takes, odd is not; a request may name the one in its  *)
(* header and the other in its baggage.                                      *)
EXTENDS RequestMetrics, TLC

CONSTANTS acme, odd

Said(tenant, baggage, debug) == [tenant |-> tenant, baggage |-> baggage, debug |-> debug]

MCHeaders ==
    { Said(NoTenant, NoTenant, FALSE),
      Said(acme, NoTenant, FALSE),
      Said(acme, odd, FALSE),
      Said(NoTenant, acme, FALSE),
      Said(NoTenant, acme, TRUE),
      Said(odd, acme, FALSE) }

Symmetry == Permutations(Requests)
=============================================================================
