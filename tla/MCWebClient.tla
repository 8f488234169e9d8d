---------------------------- MODULE MCWebClient ----------------------------
(* web03 with two connections at a time. *)
EXTENDS WebClient

MCRuns == {[program |-> "web03", maxnconn |-> 2]}
============================================================================
