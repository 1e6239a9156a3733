--------------------------- MODULE MCDesignPagelet ---------------------------
(* Calls, polls and requests are interchangeable in DesignPagelet.            *)
EXTENDS DesignPagelet

MCSymmetry ==
  Permutations(Calls) \union Permutations(Polls) \union Permutations(Requests)
=============================================================================
