----------------------------- MODULE MCLauncher -----------------------------
(***************************************************************************)
(* Two runs and a serve, in an empty directory, with a key in .env, with   *)
(* keys of every sort on the user's gateway, and with something else on    *)
(* the port.                                                               *)
(***************************************************************************)
EXTENDS Launcher

Situation(env, dotenv, wide, other) ==
  [env |-> env, dotenv |-> dotenv, wide |-> wide, other |-> other]

MCSettings ==
  { Situation("unset", "unset", FALSE, "absent"),
    Situation("unset", "k", TRUE, "absent"),
    Situation("k", "unset", TRUE, "absent"),
    Situation(" k", "unset", TRUE, "absent"),
    Situation("", "k", TRUE, "absent"),
    Situation("bytes", "unset", FALSE, "404"),
    Situation("unset", "unset", FALSE, "200") }
=============================================================================
