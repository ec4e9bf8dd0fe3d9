------------------------------- MODULE MCMSI -------------------------------
(***************************************************************************)
(* Instances of MSI for TLC.  The caches are interchangeable: no           *)
(* definition tells one from another.                                      *)
(***************************************************************************)
EXTENDS MSI, TLC

CacheSymmetry == Permutations(Caches)

\* One directory controller is the home of every block
SingleHome == [a \in Addrs |-> CHOOSE d \in Dirs : TRUE]
=============================================================================
