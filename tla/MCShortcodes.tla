---------------------------- MODULE MCShortcodes ----------------------------
(* Three requests at a time for two scripts, and a script that is none.    *)
(* Nothing bounds the requests: the rows they can add are bounded.         *)
EXTENDS Shortcodes, TLC

CONSTANTS c1, c2, c3, s1, s2, bad

MCSymmetry == Permutations({c1, c2, c3}) \union Permutations({s1, s2})
=============================================================================
