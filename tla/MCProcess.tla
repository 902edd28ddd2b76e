----------------------------- MODULE MCProcess -----------------------------
(***************************************************************************)
(* What the threads of one process share besides the vault and the         *)
(* detection cache: the tables and the detector they load on first use,    *)
(* and the registry of the log filter.  The two have no state in common    *)
(* and are explored one at a time.                                         *)
(***************************************************************************)
EXTENDS Startup, SecretLog

VARIABLE part

MCModule == {"backstops", "normalizer", "validators"}
MCDeps == [m \in MCModule |-> IF m = "validators" THEN {} ELSE {"validators"}]

\* One value lies within another.
MCValue == {<<"Anna">>, <<"Anna", "Schmidt">>, <<"Berlin">>, <<"Bonn">>}
MCShort == {<<"Bo">>}
MCLine == {<<"Anna", "Schmidt", "Bo", "Berlin", "Anna">>}

allVars == <<part, vars, logVars>>

MCInit == part \in {"startup", "log"} /\ Init /\ LogInit

StartupNext == part = "startup" /\ Next /\ UNCHANGED <<part, logVars>>
LogNext == part = "log" /\ (\E c \in Caller : LogStep(c)) /\ UNCHANGED <<part, vars>>

MCSpec ==
  /\ MCInit /\ [][StartupNext \/ LogNext]_allVars
  /\ \A t \in Thread : SF_allVars(part = "startup" /\ Step(t) /\ UNCHANGED <<part, logVars>>)
=============================================================================
