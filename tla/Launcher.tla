------------------------------ MODULE Launcher ------------------------------
(***************************************************************************)
(* `privaparse serve` and `privaparse run` on one port (app/main.py), with *)
(* the key that guards a gateway (app/config.py, gateway/auth.py).  Every  *)
(* run is a process that probes the port, starts a gateway of its own if   *)
(* none is usable, waits for it, runs the user's command in front of it    *)
(* and stops what it started.  The runs are independent of each other; the *)
(* user signals them at any moment.                                        *)
(*                                                                         *)
(* A gateway is named by who started it: a run, or the user's `serve`.     *)
(***************************************************************************)
EXTENDS Naturals

CONSTANTS
  Run,       \* `privaparse run` processes
  Serve,     \* the user's `privaparse serve`
  Other,     \* a program that is no gateway
  None,      \* nobody
  Settings   \* the situations to explore: [env, dotenv, wide, other]

Gate == Run \cup {Serve}
Key == {"", "k", " k", "bytes", "unset"}

ASSUME GateAssumption == {Serve, Other, None} \cap Run = {} /\ Serve \notin {Other, None}
ASSUME SettingsAssumption ==
  Settings \subseteq [env : Key, dotenv : Key, wide : BOOLEAN, other : {"absent", "404", "200"}]

VARIABLES
  setting,   \* PRIVAPARSE_API_KEY in the environment and in .env, --host of the
             \* user's gateway, and what a program on the port answers
  port,      \* who listens
  gate,      \* what became of each gateway
  pc,        \* how far each run has come
  child,     \* its command
  via,       \* history: whose gateway answered it when it was ready to go on
  struck     \* history: whether a signal has reached a run or the user's gateway

vars == <<setting, port, gate, pc, child, via, struck>>

Init ==
  /\ setting \in Settings
  /\ port = IF setting.other = "absent" THEN None ELSE Other
  /\ gate = [g \in Gate |-> "off"]
  /\ pc = [r \in Run |-> "idle"]
  /\ child = [r \in Run |-> "none"]
  /\ via = [r \in Run |-> None]
  /\ struck = [g \in Gate |-> "none"]

-----------------------------------------------------------------------------
(* The key.                                                                *)

\* The environment goes before .env; a run takes the variable out of its
\* gateway's environment, and .env stays.
KeyOf(g) ==
  IF g = Serve /\ setting.env # "unset" THEN setting.env
  ELSE IF setting.dotenv # "unset" THEN setting.dotenv ELSE ""

MutantAnyText(key) == key # "bytes"

\* Settings._validate_api_key: no lone surrogates, no blanks around.
ValidKey(key) == key \notin {"bytes", " k"}

\* serve, _check_bind_address: a run's gateway listens on loopback.
MayServe(g) ==
  ValidKey(KeyOf(g)) /\ (g = Serve /\ setting.wide => KeyOf(g) # "")

\* ApiKeyMiddleware, for any route but /healthz.  HTTP trims what is presented.
Presentable == {"", "k", "no"}
Admits(g, presented) ==
  KeyOf(g) = "" \/ (presented # "" /\ presented = KeyOf(g))

-----------------------------------------------------------------------------
(* Gateways.                                                               *)

\* SIGTERM or SIGINT: a gateway that has not bound the port dies of it at once.
Terminated(g) ==
  IF gate[g] = "starting" THEN "gone" ELSE IF gate[g] = "up" THEN "stopping" ELSE gate[g]

StartServe ==
  /\ gate[Serve] = "off"
  /\ gate' = [gate EXCEPT ![Serve] = "starting"]
  /\ UNCHANGED <<setting, port, pc, child, via, struck>>

StopServe ==
  /\ gate[Serve] \in {"starting", "up"}
  /\ gate' = [gate EXCEPT ![Serve] = Terminated(Serve)]
  /\ struck' = [struck EXCEPT ![Serve] = "ctrl-c"]
  /\ UNCHANGED <<setting, port, pc, child, via>>

\* serve: settings, the bind address, the engine, then the port, if it is free.
Bind(g) ==
  /\ gate[g] = "starting"
  /\ \/ /\ MayServe(g) /\ port = None
        /\ port' = g /\ gate' = [gate EXCEPT ![g] = "up"]
     \/ /\ ~MayServe(g) \/ port # None
        /\ UNCHANGED port /\ gate' = [gate EXCEPT ![g] = "gone"]
  /\ UNCHANGED <<setting, pc, child, via, struck>>

Shutdown(g) ==
  /\ gate[g] = "stopping"
  /\ gate' = [gate EXCEPT ![g] = "gone"] /\ port' = None
  /\ UNCHANGED <<setting, pc, child, via, struck>>

-----------------------------------------------------------------------------
(* run.                                                                    *)

Goto(r, label) == pc' = [pc EXCEPT ![r] = label]

\* /privaparse/stats without a key: 200 ...
Ready == IF port = Other THEN setting.other = "200" ELSE port # None /\ Admits(port, "")
\* ... and 401.
RequiresKey == port \in Gate /\ ~Admits(port, "")

Launch(r) ==
  /\ pc[r] = "idle"
  /\ Goto(r, "probe")
  /\ UNCHANGED <<setting, port, gate, child, via, struck>>

FindReady(r) ==
  /\ pc[r] \in {"probe", "await"} /\ Ready
  /\ via' = [via EXCEPT ![r] = port]
  /\ Goto(r, "spawn")
  /\ UNCHANGED <<setting, port, gate, child, struck>>

\* Nothing, or a probe that timed out.
FindNone(r) ==
  /\ pc[r] = "probe"
  /\ Goto(r, "ask")
  /\ UNCHANGED <<setting, port, gate, child, via, struck>>

\* _gateway_requires_key: a second probe, which may meet another gateway.
RefuseKeyed(r) ==
  /\ pc[r] = "ask" /\ RequiresKey
  /\ Goto(r, "exit")
  /\ UNCHANGED <<setting, port, gate, child, via, struck>>

StartGateway(r) ==
  /\ pc[r] = "ask"
  /\ gate' = [gate EXCEPT ![r] = "starting"]
  /\ Goto(r, "await")
  /\ UNCHANGED <<setting, port, child, via, struck>>

MutantGiveUpLeaves(r) ==
  /\ pc[r] = "await"
  /\ Goto(r, "exit")
  /\ UNCHANGED <<setting, port, gate, child, via, struck>>

MutantWaitsForProcess(r) ==
  /\ pc[r] = "await" /\ gate[r] = "gone"
  /\ Goto(r, "exit")
  /\ UNCHANGED <<setting, port, gate, child, via, struck>>

\* --wait seconds have passed.
GiveUp(r) ==
  /\ pc[r] = "await"
  /\ gate' = [gate EXCEPT ![r] = Terminated(r)]
  /\ Goto(r, "exit")
  /\ UNCHANGED <<setting, port, child, via, struck>>

\* _run_child: the command is started first, and then the handlers installed.
Spawn(r) ==
  /\ pc[r] = "spawn"
  /\ child' = [child EXCEPT ![r] = "running"]
  /\ Goto(r, "forward")
  /\ UNCHANGED <<setting, port, gate, via, struck>>

\* There is no such command: Popen raises, and the exception leaves by the finally.
CommandNotFound(r) ==
  /\ pc[r] = "spawn"
  /\ Goto(r, "stop")
  /\ UNCHANGED <<setting, port, gate, child, via, struck>>

ForwardSignals(r) ==
  /\ pc[r] = "forward"
  /\ Goto(r, "wait")
  /\ UNCHANGED <<setting, port, gate, child, via, struck>>

ChildEnds(r) ==
  /\ child[r] \in {"running", "told"}
  /\ child' = [child EXCEPT ![r] = "ended"]
  /\ UNCHANGED <<setting, port, gate, pc, via, struck>>

\* child.wait returns, the handlers are put back.
Reap(r) ==
  /\ pc[r] = "wait" /\ child[r] = "ended"
  /\ Goto(r, "stop")
  /\ UNCHANGED <<setting, port, gate, child, via, struck>>

MutantStopsTheListener(r) ==
  /\ pc[r] = "stop"
  /\ gate' = IF port \in Gate THEN [gate EXCEPT ![port] = Terminated(port)] ELSE gate
  /\ Goto(r, "exit")
  /\ UNCHANGED <<setting, port, child, via, struck>>

\* finally: daemon.terminate(), "only a gateway this command started".
StopGateway(r) ==
  /\ pc[r] = "stop"
  /\ gate' = [gate EXCEPT ![r] = Terminated(r)]
  /\ Goto(r, "exit")
  /\ UNCHANGED <<setting, port, child, via, struck>>

-----------------------------------------------------------------------------
(* Signals.                                                                *)

Alive(r) == pc[r] \notin {"idle", "exit"}
Told(r) == IF child[r] = "running" THEN "told" ELSE child[r]

\* SIGTERM, once there are handlers: relay.
Relay(r) ==
  /\ pc[r] = "wait"
  /\ child' = [child EXCEPT ![r] = Told(r)]
  /\ UNCHANGED <<setting, port, gate, pc, via, struck>>

\* SIGTERM before or after that, or SIGKILL: no finally runs.
Kill(r) ==
  /\ Alive(r)
  /\ struck' = [struck EXCEPT ![r] = "kill"]
  /\ Goto(r, "exit")
  /\ UNCHANGED <<setting, port, gate, child, via>>

\* Ctrl-C reaches the terminal's whole process group.  The run is interrupted,
\* unless its handlers are there to relay it.
CtrlC(r) ==
  /\ Alive(r)
  /\ struck' = [struck EXCEPT ![r] = IF @ = "none" THEN "ctrl-c" ELSE @]
  /\ gate' = [gate EXCEPT ![r] = Terminated(r)]
  /\ child' = [child EXCEPT ![r] = Told(r)]
  /\ IF pc[r] = "wait" THEN UNCHANGED pc ELSE Goto(r, "exit")
  /\ UNCHANGED <<setting, port, via>>

-----------------------------------------------------------------------------
RunStep(r) ==
  \/ FindReady(r) \/ FindNone(r) \/ RefuseKeyed(r) \/ StartGateway(r) \/ GiveUp(r)
  \/ Spawn(r) \/ CommandNotFound(r) \/ ForwardSignals(r) \/ Reap(r) \/ StopGateway(r)

Next ==
  \/ StartServe \/ StopServe
  \/ \E g \in Gate : Bind(g) \/ Shutdown(g)
  \/ \E r \in Run : Launch(r) \/ RunStep(r) \/ ChildEnds(r) \/ Relay(r) \/ Kill(r) \/ CtrlC(r)

Spec == Init /\ [][Next]_vars

\* Processes run.  A command that has been told to end does so; otherwise it may
\* run for ever.  Nobody has to launch, stop or signal anything.
FairSpec ==
  /\ Spec
  /\ \A g \in Gate : WF_vars(Bind(g)) /\ WF_vars(Shutdown(g))
  /\ \A r \in Run : WF_vars(RunStep(r)) /\ WF_vars(child[r] = "told" /\ ChildEnds(r))

-----------------------------------------------------------------------------
TypeOK ==
  /\ setting \in Settings
  /\ port \in Gate \cup {Other, None}
  /\ gate \in [Gate -> {"off", "starting", "up", "stopping", "gone"}]
  /\ pc \in [Run -> {"idle", "probe", "ask", "await", "spawn", "forward", "wait", "stop", "exit"}]
  /\ child \in [Run -> {"none", "running", "told", "ended"}]
  /\ via \in [Run -> Gate \cup {Other, None}]
  /\ struck \in [Gate -> {"none", "kill", "ctrl-c"}]

\* A run that was not killed leaves no gateway of its own behind, whichever way
\* it ended: the wait that timed out, the lost race for the port, Ctrl-C.
NoStrayGateway ==
  \A r \in Run : pc[r] = "exit" /\ struck[r] # "kill" => gate[r] \notin {"starting", "up"}

\* Whoever started g has not ended, nor been told to.
Holds(g) == struck[g] = "none" /\ (g \in Run => Alive(g))

\* A command's gateway is there for as long as its owner holds on to it: another
\* run that comes and goes on the same port, with or without a gateway of its
\* own, never takes it away.
ServedWhileItRuns ==
  \A r \in Run :
    child[r] = "running" /\ via[r] \in Gate /\ Holds(via[r]) =>
      gate[via[r]] = "up" /\ port = via[r]

\* A gateway that other machines can reach admits those who present the key, and
\* nobody else: the validator, the bind check and the middleware agree on what a
\* key is.
GuardedBeyondLoopback ==
  port = Serve /\ setting.wide =>
    /\ ~Admits(Serve, "") /\ ~Admits(Serve, "no")
    /\ \E presented \in Presentable : Admits(Serve, presented)

\* Every run comes to an end unless its command goes on, a signal that finds the
\* handlers installed reaches the command, and what the run started is gone then.
TornDown ==
  \A r \in Run :
    (pc[r] = "probe" \/ child[r] = "told") ~>
      \/ struck[r] = "kill" \/ child[r] = "running"
      \/ pc[r] = "exit" /\ gate[r] \in {"off", "gone"}
=============================================================================
