-------------------------- MODULE MCConcurrentBoot --------------------------
(* Three goroutines and two names: two of them always draw the same one.   *)
EXTENDS ConcurrentBoot
=============================================================================
