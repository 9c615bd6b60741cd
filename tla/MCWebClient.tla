---------------------------- MODULE MCWebClient ----------------------------
(* Instances of WebClient for TLC. *)
EXTENDS WebClient

\* Two sessions of the visitor, the second of which has been published.
CONSTANTS s1, s2
=============================================================================
