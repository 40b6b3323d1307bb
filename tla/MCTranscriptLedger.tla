------------------------- MODULE MCTranscriptLedger -------------------------
(* Small instances of TranscriptLedger for TLC. *)
EXTENDS TranscriptLedger, TLC

CONSTANTS w1, w2, x1, x2, h1, h2, a1

Symmetry == Permutations({w1, w2}) \cup Permutations({x1, x2})
            \cup Permutations({h1, h2})
=============================================================================
