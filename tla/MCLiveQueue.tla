------------------------------ MODULE MCLiveQueue ------------------------------
(* Instances of LiveQueue for TLC: two specs, so that one can be ahead of the *)
(* other, and one edit of the queue in progress beside the dispatch.         *)
EXTENDS LiveQueue
=============================================================================
