---------------------------- MODULE MCIssueReporter ---------------------------
(* IssueReporter for TLC.  Calls and fingerprints are interchangeable.         *)
EXTENDS IssueReporter, TLC

Symmetry == Permutations(Calls) \cup Permutations(Fingerprints)
===============================================================================
