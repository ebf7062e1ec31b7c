----------------------------- MODULE MCLauncher -----------------------------
(* Flag spellings for model-checking Launcher.                             *)
EXTENDS Launcher

(* Every kind of value in the environment, the plain ones in .env.         *)
AllSpellings == Values
PlainSpellings == {"unset", "on"}

=============================================================================
