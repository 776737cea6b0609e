--------------------------- MODULE MCMailingLists ---------------------------
(* Instances of MailingLists for TLC. *)
EXTENDS MailingLists, TLC

CONSTANTS ann, bob

MCSymmetry == Permutations(Requests) \cup Permutations(Lists)

MCBulks == {<<ann, bob>>}
=============================================================================
