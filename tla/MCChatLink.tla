----------------------------- MODULE MCChatLink -----------------------------
(***************************************************************************)
(* Values of the constants of ChatLink for TLC.                            *)
(***************************************************************************)
EXTENDS ChatLink

\* This build, one with plain sessions, newer ones, and one it cannot talk to.
MCBuilds == {[current |-> 12, min |-> 10], [current |-> 11, min |-> 10],
             [current |-> 13, min |-> 10], [current |-> 13, min |-> 13],
             [current |-> 20, min |-> 10]}
MCThisBuildOnly == {[current |-> 12, min |-> 10]}
=============================================================================
