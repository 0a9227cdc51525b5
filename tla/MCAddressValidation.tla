------------------------ MODULE MCAddressValidation -------------------------
EXTENDS AddressValidation, TLC

ClientSymmetry ==
  Permutations(Client) \cup Permutations(Addr) \cup Permutations(RetryCid)
=============================================================================
