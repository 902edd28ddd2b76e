--------------------------- MODULE LauncherProofs ---------------------------
(***************************************************************************)
(* One port, any number of `privaparse run`: nobody takes away a gateway   *)
(* that somebody else holds on to, nobody who could tidy up leaves one     *)
(* behind, and no other machine is served without a key.                   *)
(***************************************************************************)
EXTENDS Launcher, TLAPS

Bound(g) == gate[g] \in {"up", "stopping"}

\* The port belongs to the one gateway that has bound it, which was allowed to.
PortOK == \A g \in Gate : (Bound(g) <=> port = g) /\ (Bound(g) => MayServe(g))

\* A run has no gateway before it starts one, and none worth the name once it is
\* over, unless it was killed.
OwnOK ==
  \A r \in Run :
    /\ pc[r] \in {"idle", "probe", "ask"} => gate[r] = "off"
    /\ pc[r] = "exit" /\ struck[r] # "kill" => gate[r] \notin {"starting", "up"}

\* Only its owner, or a signal, puts an end to a gateway; a gateway that has
\* answered somebody is there from then on.
HeldOK ==
  /\ \A g \in Gate : gate[g] = "stopping" => ~Holds(g)
  /\ \A r \in Run :
       via[r] \in Gate =>
         /\ via[r] \in Run => pc[via[r]] # "idle"
         /\ Holds(via[r]) => gate[via[r]] = "up"

IInv == TypeOK /\ PortOK /\ OwnOK /\ HeldOK

\* Nothing has been started at the start.
LEMMA InitIInv == Init => IInv
<1> SUFFICES ASSUME Init PROVE IInv
  OBVIOUS
<1> USE GateAssumption DEF Init, Gate
<1>1. TypeOK
  BY DEF TypeOK
<1>2. PortOK
  BY DEF PortOK, Bound
<1>3. OwnOK
  BY DEF OwnOK
<1>4. HeldOK
  BY DEF HeldOK
<1> QED
  BY <1>1, <1>2, <1>3, <1>4 DEF IInv

\* Every step leaves the state well typed.
LEMMA TypeStep == TypeOK /\ [Next]_vars => TypeOK'
<1> SUFFICES ASSUME TypeOK, [Next]_vars PROVE TypeOK'
  OBVIOUS
<1> USE GateAssumption DEF TypeOK, Gate, Goto, Terminated, Told
<1>1. CASE StartServe \/ StopServe
  BY <1>1 DEF StartServe, StopServe
<1>2. ASSUME NEW g \in Gate, Bind(g) \/ Shutdown(g) PROVE TypeOK'
  BY <1>2 DEF Bind, Shutdown
<1>3. ASSUME NEW r \in Run, Launch(r) \/ FindReady(r) \/ FindNone(r) \/ RefuseKeyed(r) PROVE TypeOK'
  BY <1>3 DEF Launch, FindReady, FindNone, RefuseKeyed
<1>4. ASSUME NEW r \in Run, StartGateway(r) \/ GiveUp(r) \/ StopGateway(r) PROVE TypeOK'
  BY <1>4 DEF StartGateway, GiveUp, StopGateway
<1>5. ASSUME NEW r \in Run,
             Spawn(r) \/ CommandNotFound(r) \/ ForwardSignals(r) \/ ChildEnds(r) \/ Reap(r)
      PROVE  TypeOK'
  BY <1>5 DEF Spawn, CommandNotFound, ForwardSignals, ChildEnds, Reap
<1>6. ASSUME NEW r \in Run, Relay(r) \/ Kill(r) \/ CtrlC(r) PROVE TypeOK'
  BY <1>6 DEF Relay, Kill, CtrlC
<1>7. CASE UNCHANGED vars
  BY <1>7 DEF vars
<1> QED
  BY <1>1, <1>2, <1>3, <1>4, <1>5, <1>6, <1>7 DEF Next, RunStep

\* What a step may do to the gateways and the port: to bind a free port, to give
\* it back, or to leave it and send the gateway its owner is done with to its end.
LEMMA PortStep == IInv /\ [Next]_vars => PortOK'
<1> SUFFICES ASSUME IInv, [Next]_vars PROVE PortOK'
  OBVIOUS
<1> USE GateAssumption DEF IInv, TypeOK, PortOK, OwnOK, Bound, Gate, Terminated
<1>0. \A g \in Gate : setting' = setting => MayServe(g)' = MayServe(g)
  BY DEF MayServe, ValidKey, KeyOf
<1>1. CASE StartServe \/ StopServe
  BY <1>0, <1>1 DEF StartServe, StopServe
<1>2. ASSUME NEW g \in Gate, Bind(g) PROVE PortOK'
  <2>1. CASE port = None /\ MayServe(g) /\ port' = g /\ gate' = [gate EXCEPT ![g] = "up"]
    BY <1>0, <1>2, <2>1 DEF Bind
  <2>2. CASE port' = port /\ gate' = [gate EXCEPT ![g] = "gone"]
    BY <1>0, <1>2, <2>2 DEF Bind
  <2> QED
    BY <1>2, <2>1, <2>2 DEF Bind
<1>3. ASSUME NEW g \in Gate, Shutdown(g) PROVE PortOK'
  BY <1>0, <1>3 DEF Shutdown
<1>4. ASSUME NEW r \in Run, StartGateway(r) \/ GiveUp(r) \/ StopGateway(r) \/ CtrlC(r) PROVE PortOK'
  BY <1>0, <1>4 DEF StartGateway, GiveUp, StopGateway, CtrlC
<1>5. CASE UNCHANGED <<setting, port, gate>>
  BY <1>0, <1>5
<1>6. ASSUME NEW r \in Run,
             Launch(r) \/ FindReady(r) \/ FindNone(r) \/ RefuseKeyed(r) \/ Spawn(r)
               \/ CommandNotFound(r) \/ ForwardSignals(r) \/ ChildEnds(r) \/ Reap(r)
               \/ Relay(r) \/ Kill(r)
      PROVE  PortOK'
  BY <1>5, <1>6
    DEF Launch, FindReady, FindNone, RefuseKeyed, Spawn, CommandNotFound, ForwardSignals,
        ChildEnds, Reap, Relay, Kill
<1>7. CASE UNCHANGED vars
  BY <1>5, <1>7 DEF vars
<1> QED
  BY <1>1, <1>2, <1>3, <1>4, <1>6, <1>7 DEF Next, RunStep

\* A run that ends any other way than by a kill terminates its gateway or never
\* had one.
LEMMA OwnStep == IInv /\ [Next]_vars => OwnOK'
<1> SUFFICES ASSUME IInv, [Next]_vars PROVE OwnOK'
  OBVIOUS
<1> USE GateAssumption DEF IInv, TypeOK, OwnOK, Gate, Goto, Terminated
<1>1. CASE StartServe \/ StopServe
  BY <1>1 DEF StartServe, StopServe
<1>2. ASSUME NEW g \in Gate, Bind(g) \/ Shutdown(g) PROVE OwnOK'
  BY <1>2 DEF Bind, Shutdown
<1>3. ASSUME NEW r \in Run, Launch(r) \/ FindReady(r) \/ FindNone(r) \/ RefuseKeyed(r) PROVE OwnOK'
  BY <1>3 DEF Launch, FindReady, FindNone, RefuseKeyed
<1>4. ASSUME NEW r \in Run, StartGateway(r) \/ GiveUp(r) \/ StopGateway(r) PROVE OwnOK'
  BY <1>4 DEF StartGateway, GiveUp, StopGateway
<1>5. ASSUME NEW r \in Run,
             Spawn(r) \/ CommandNotFound(r) \/ ForwardSignals(r) \/ ChildEnds(r)
               \/ Reap(r) \/ Relay(r)
      PROVE  OwnOK'
  BY <1>5 DEF Spawn, CommandNotFound, ForwardSignals, ChildEnds, Reap, Relay
<1>6. ASSUME NEW r \in Run, Kill(r) \/ CtrlC(r) PROVE OwnOK'
  BY <1>6 DEF Kill, CtrlC, Alive
<1>7. CASE UNCHANGED vars
  BY <1>7 DEF vars
<1> QED
  BY <1>1, <1>2, <1>3, <1>4, <1>5, <1>6, <1>7 DEF Next, RunStep

\* Somebody else's steps do not reach a gateway whose owner holds on to it.
LEMMA HeldStep == IInv /\ [Next]_vars => HeldOK'
<1> SUFFICES ASSUME IInv, [Next]_vars PROVE HeldOK'
  OBVIOUS
<1> USE GateAssumption DEF IInv, TypeOK, PortOK, OwnOK, HeldOK, Bound, Holds, Alive, Gate, Goto, Terminated
<1>1. CASE StartServe \/ StopServe
  BY <1>1 DEF StartServe, StopServe
<1>2. ASSUME NEW g \in Gate, Bind(g) \/ Shutdown(g) PROVE HeldOK'
  BY <1>2 DEF Bind, Shutdown
<1>3. ASSUME NEW r \in Run, Launch(r) \/ FindNone(r) \/ RefuseKeyed(r) PROVE HeldOK'
  BY <1>3 DEF Launch, FindNone, RefuseKeyed
<1>4. ASSUME NEW r \in Run, FindReady(r) PROVE HeldOK'
  <2>1. port \in Gate => Bound(port) /\ (port \in Run => pc[port] # "idle")
    OBVIOUS
  <2>2. port \in Gate /\ Holds(port) => gate[port] = "up"
    BY <2>1
  <2> QED
    BY <1>4, <2>1, <2>2 DEF FindReady
<1>5. ASSUME NEW r \in Run, StartGateway(r) \/ GiveUp(r) \/ StopGateway(r) PROVE HeldOK'
  BY <1>5 DEF StartGateway, GiveUp, StopGateway
<1>6. ASSUME NEW r \in Run,
             Spawn(r) \/ CommandNotFound(r) \/ ForwardSignals(r) \/ ChildEnds(r)
               \/ Reap(r) \/ Relay(r)
      PROVE  HeldOK'
  BY <1>6 DEF Spawn, CommandNotFound, ForwardSignals, ChildEnds, Reap, Relay
<1>7. ASSUME NEW r \in Run, Kill(r) \/ CtrlC(r) PROVE HeldOK'
  BY <1>7 DEF Kill, CtrlC
<1>8. CASE UNCHANGED vars
  BY <1>8 DEF vars
<1> QED
  BY <1>1, <1>2, <1>3, <1>4, <1>5, <1>6, <1>7, <1>8 DEF Next, RunStep

\* IInv is an invariant.
LEMMA Inductive == Spec => []IInv
<1>1. IInv /\ [Next]_vars => IInv'
  BY TypeStep, PortStep, OwnStep, HeldStep DEF IInv
<1> QED
  BY InitIInv, <1>1, PTL DEF Spec

\* The variables keep their types.
THEOREM LauncherTypeCorrect == Spec => []TypeOK
<1>1. IInv => TypeOK
  BY DEF IInv
<1> QED
  BY Inductive, <1>1, PTL

\* However many runs share the port, and however each of them ends short of being
\* killed, none leaves a gateway of its own behind (main.py, run and _run_child).
THEOREM NothingStrays == Spec => []NoStrayGateway
<1>1. IInv => NoStrayGateway
  BY DEF IInv, OwnOK, NoStrayGateway
<1> QED
  BY Inductive, <1>1, PTL

\* A command's gateway serves it until whoever started that gateway ends or is
\* told to: no other run, and no lost race for the port, takes it away (main.py,
\* the "only a gateway this command started" of run).
THEOREM HeldGatewaysServe == Spec => []ServedWhileItRuns
<1>1. IInv => ServedWhileItRuns
  <2> SUFFICES ASSUME IInv, NEW r \in Run, via[r] \in Gate, Holds(via[r])
               PROVE  gate[via[r]] = "up" /\ port = via[r]
    BY DEF ServedWhileItRuns
  <2> QED
    BY DEF IInv, HeldOK, PortOK, Bound
<1> QED
  BY Inductive, <1>1, PTL

\* A gateway other machines can reach admits a presentable key and nothing less:
\* the validator (config.py), the bind check (main.py) and the middleware
\* (gateway/auth.py) agree on what a key is, whatever the settings.
THEOREM GuardedWherever == Spec => []GuardedBeyondLoopback
<1>1. IInv => GuardedBeyondLoopback
  <2> SUFFICES ASSUME IInv, port = Serve, setting.wide
               PROVE  /\ ~Admits(Serve, "") /\ ~Admits(Serve, "no")
                      /\ \E presented \in Presentable : Admits(Serve, presented)
    BY DEF GuardedBeyondLoopback
  <2>1. MayServe(Serve)
    BY DEF IInv, PortOK, Gate
  <2>2. setting.env \in Key /\ setting.dotenv \in Key
    BY SettingsAssumption DEF IInv, TypeOK
  <2>3. KeyOf(Serve) = "k"
    BY <2>1, <2>2 DEF MayServe, ValidKey, KeyOf, Key
  <2> QED
    BY <2>3 DEF Admits, Presentable
<1> QED
  BY Inductive, <1>1, PTL
=============================================================================
