------------------------ MODULE MCTranscodeRegistry ------------------------
(* TLC instances of TranscodeRegistry. *)
EXTENDS TranscodeRegistry, TLC

\* Calls differ in nothing but their name; so do options, and so do sessions
\* when none or all of them may be revoked.
Symmetry == Permutations(Calls) \cup Permutations(Options) \cup Permutations(Sessions)
=============================================================================
