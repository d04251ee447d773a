---------------------------- MODULE MCMessages ------------------------------
(***************************************************************************)
(* Instances of MessageOverlaps for TLC.                                   *)
(***************************************************************************)
EXTENDS MessageOverlaps, TLC

CONSTANTS alice, bob, g, h

\* alice is in neither or one of the groups, so a mention of her is checked.
AliceInG == [c \in Conversations |-> IF c = g THEN {alice, bob} ELSE {bob}]

\* Sends mention alice, forwards nobody; edits keep what is stored or clear it.
FewMentions ==
    [op \in {"send", "forward", "edit"} |-> IF op = "send" THEN {{alice}} ELSE {{}}]

SlotSymmetry == Permutations(Slots)
=============================================================================
