--------------------------- MODULE MCAuthService ---------------------------
(* Instances of AuthService for TLC.  Passwords are interchangeable (they  *)
(* are only compared); token ids are not (rows are locked by primary key), *)
(* and request slots are left apart where liveness is checked.             *)
EXTENDS AuthService, TLC

PasswordSymmetry == Permutations(Passwords)
=============================================================================
