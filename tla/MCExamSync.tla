----------------------------- MODULE MCExamSync -----------------------------
(***************************************************************************)
(* ExamSync for the safety runs of TLC: the labs are interchangeable, no    *)
(* definition names one, so that one of each permuted set of states is      *)
(* enough.                                                                  *)
(***************************************************************************)
EXTENDS ExamSync, TLC

LabSymmetry == Permutations(Labs)
=============================================================================
