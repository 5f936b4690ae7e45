-------------------------- MODULE MCAddressChanges --------------------------
(* One account, two addresses: a link that has run out.                     *)
EXTENDS AddressChanges

CONSTANTS u1, a1, a2, s1, c1, l1, l2
=============================================================================
