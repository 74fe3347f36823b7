---------------------------- MODULE MCMessageTree ----------------------------
(***************************************************************************)
(* A conversation of a first message and a few replies.                    *)
(***************************************************************************)
EXTENDS MessageTree, TLC

CONSTANTS n1, n2, n3, n4

MCSymmetry == Permutations(Node \ {root})

=============================================================================
