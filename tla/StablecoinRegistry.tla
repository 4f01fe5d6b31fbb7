------------------------- MODULE StablecoinRegistry -------------------------
(***************************************************************************)
(* contracts/v2/admin/StablecoinRegistry.sol: the stablecoins the pools    *)
(* accept, kept twice: as a flag per coin and as an ordered list.  The     *)
(* order matters to the pools, which fill a payment coin by coin, and to   *)
(* the router, whose default coin is the first of the list.                *)
(***************************************************************************)
EXTENDS ProtocolV2

VARIABLES
  approved,     \* mapping(address => bool) _approved, as the set of coins
  stablecoins   \* address[] _stablecoins

registryVars == <<approved, stablecoins>>

RegistryTypeOK ==
  /\ approved \subseteq Stables
  /\ stablecoins \in Seq(Stables)

RegistryInit ==
  /\ approved = Range(InitialStablecoins)
  /\ stablecoins = InitialStablecoins

AddStablecoin(caller, s) ==
  /\ caller \in Operators
  /\ s \notin approved
  /\ approved' = approved \cup {s}
  /\ stablecoins' = Append(stablecoins, s)

(* The entry at i is overwritten by the last one, and the last one popped. *)
SwapAndPop_PopOnly(seq, i) == [j \in 1..(Len(seq) - 1) |-> seq[j]]

SwapAndPop(seq, i) ==
  [j \in 1..(Len(seq) - 1) |-> IF j = i THEN seq[Len(seq)] ELSE seq[j]]

RemoveStablecoin(caller, s) ==
  /\ caller \in Operators
  /\ s \in approved
  /\ approved' = approved \ {s}
  /\ \E i \in DOMAIN stablecoins :
       /\ stablecoins[i] = s
       /\ stablecoins' = SwapAndPop(stablecoins, i)

RegistryNext ==
  \E caller \in Operators, s \in Stables :
    AddStablecoin(caller, s) \/ RemoveStablecoin(caller, s)

RegistrySpec == RegistryInit /\ [][RegistryNext]_registryVars

(* The list and the flags agree and no coin is listed twice, whatever the  *)
(* order of additions and removals.  A coin listed and not approved is     *)
(* still counted by sync and paid out by _sendStable; one listed twice is  *)
(* counted twice as backing; one approved and not listed is never paid out *)
(* as a fallback coin.                                                     *)
ListMatchesFlags ==
  /\ Range(stablecoins) = approved
  /\ IsInjective(stablecoins)
=============================================================================
