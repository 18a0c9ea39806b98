----------------------------- MODULE MCAttachments -----------------------------
(***************************************************************************)
(* A small instance of Attachments: two entries, two things and two hosts. *)
(***************************************************************************)
EXTENDS Attachments, TLC

CONSTANTS e1, e2, t1, t2, h1, h2

Symmetry ==
  Permutations(Entries) \cup Permutations(Things) \cup Permutations(Hosts)
=============================================================================
