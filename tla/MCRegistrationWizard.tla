------------------------ MODULE MCRegistrationWizard ------------------------
(***************************************************************************)
(* Two tabs of one browser that share its storage.  A study path is none   *)
(* or complete: the wizard tells no more apart.                            *)
(***************************************************************************)
EXTENDS RegistrationWizard, TLC

MCSymmetry == Permutations(Tabs)
=============================================================================
