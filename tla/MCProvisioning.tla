--------------------------- MODULE MCProvisioning ---------------------------
(* Two VMs with two addresses and one subnet; two requests with one key, *)
(* one of them for an external service.                                    *)
EXTENDS Provisioning

CONSTANTS v1, v2, n1, a1, a2, k1, s1

MCAddresses == <<a1, a2>>
MCCalls == {[key |-> k1, service |-> None], [key |-> None, service |-> s1]}

-----------------------------------------------------------------------------


=============================================================================
