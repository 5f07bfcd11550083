--------------------------- MODULE ClusterIdentity ---------------------------
(***************************************************************************)
(* What the secrets of a cluster promise to its hosts: every certificate     *)
(* authority and the token are chosen once, and a host that boots is given  *)
(* the chosen ones.                                                         *)
(***************************************************************************)
CONSTANTS
  Names,  \* the secrets that make up the identity
  Keys,   \* key material
  NoKey   \* not chosen yet; no member of Keys

VARIABLES
  identity, \* the chosen key of each secret
  hosts     \* what the hosts booted with: for each, a part of an identity

Init ==
  /\ identity \in [Names -> Keys \cup {NoKey}]
  /\ hosts = {}

Choose(n, k) ==
  /\ identity[n] = NoKey
  /\ identity' = [identity EXCEPT ![n] = k]
  /\ UNCHANGED hosts

\* A first server gets all of the identity, a host that joins the token only.
Boot(part) ==
  /\ \A n \in part : identity[n] # NoKey
  /\ hosts' = hosts \cup {[n \in part |-> identity[n]]}
  /\ UNCHANGED identity

Next ==
  \/ \E n \in Names, k \in Keys : Choose(n, k)
  \/ \E part \in SUBSET Names : Boot(part)

Spec == Init /\ [][Next]_<<identity, hosts>>
=============================================================================
