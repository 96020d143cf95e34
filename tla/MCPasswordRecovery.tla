-------------------------- MODULE MCPasswordRecovery --------------------------
(***************************************************************************)
(* Two browsers of one account, with two codes and two new passwords:      *)
(* enough for two resets, or a reset and a login, to meet.                 *)
(***************************************************************************)
EXTENDS PasswordRecovery, TLC

MCPasswords == 0..2
MCCodes == 1..2
MCSessionIds == 1..2
MCSymmetry == Permutations(Browsers)
=============================================================================
