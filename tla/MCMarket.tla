------------------------------ MODULE MCMarket ------------------------------
(* Three shops, one listing, two requests at a time, days of two ticks.    *)
EXTENDS Market, TLC

Symmetry == Permutations(Shops) \cup Permutations(Handlers) \cup Permutations(Listings)
=============================================================================
