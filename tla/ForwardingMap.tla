--------------------------- MODULE ForwardingMap ---------------------------
(***************************************************************************)
(* What the forwarding table of a page promises: a map from the objects of *)
(* the page to their new addresses, in which every object is given an      *)
(* address once and keeps it.                                              *)
(***************************************************************************)
CONSTANTS Keys,       \* from-object indices
          Addresses,  \* to-space addresses
          NoAddress   \* not forwarded

VARIABLE forwardedTo

MapInit == forwardedTo = [k \in Keys |-> NoAddress]

Forward(k, a) ==
  /\ forwardedTo[k] = NoAddress
  /\ forwardedTo' = [forwardedTo EXCEPT ![k] = a]

MapNext == \E k \in Keys, a \in Addresses : Forward(k, a)

MapSpec == MapInit /\ [][MapNext]_forwardedTo
=============================================================================
