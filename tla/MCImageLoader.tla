--------------------------- MODULE MCImageLoader ---------------------------
(***************************************************************************)
(* A small instance of ImageLoader: two workers, and images of which two   *)
(* small ones fit the cache and a big one does not.                        *)
(***************************************************************************)
EXTENDS ImageLoader

CONSTANTS small, medium, big, w1, w2

MCSize == [u \in Urls |-> CASE u = small -> 1 [] u = medium -> 2 [] u = big -> 4]
=============================================================================
