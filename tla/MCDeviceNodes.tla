---------------------------- MODULE MCDeviceNodes ----------------------------
(***************************************************************************)
(* The device drivers, each on its own: a behaviour is one of the component*)
(* `driver', the others stay where they began.  They share no state that   *)
(* their properties speak of, so this is the union of their behaviours.    *)
(***************************************************************************)
EXTENDS DeviceNode, DioInterrupt, AioCommands, AioSampling, SensorInput

VARIABLE driver

nodesVars ==
  <<driver, vars, dioVars, cmdVars, smpVars, ssiVars>>

NodesInit ==
  /\ driver \in {"node", "dio", "cmd", "smp", "ssi"}
  /\ Init /\ DioInit /\ CmdInit /\ SmpInit /\ SsiInit

NodesNext ==
  \/ /\ driver = "node" /\ Next
     /\ UNCHANGED <<driver, dioVars, cmdVars, smpVars, ssiVars>>
  \/ /\ driver = "dio" /\ DioNext
     /\ UNCHANGED <<driver, vars, cmdVars, smpVars, ssiVars>>
  \/ /\ driver = "cmd" /\ CmdNext
     /\ UNCHANGED <<driver, vars, dioVars, smpVars, ssiVars>>
  \/ /\ driver = "smp" /\ SmpNext
     /\ UNCHANGED <<driver, vars, dioVars, cmdVars, ssiVars>>
  \/ /\ driver = "ssi" /\ SsiNext
     /\ UNCHANGED <<driver, vars, dioVars, cmdVars, smpVars>>
  \* After a wild pointer the kernel stops the process.
  \/ driver = "node" /\ faulted /\ UNCHANGED nodesVars

\* The fairness of each component, as its own specification states it.
NodesFairness ==
  /\ WF_dioVars(driver = "dio" /\ Dispatch)
  /\ WF_smpVars(driver = "smp" /\ smpGate = "stopping" /\ GateCloses)
  /\ \A p \in SmpProcs :
       /\ WF_smpVars(driver = "smp" /\ StopLoop(p))
       /\ SF_smpVars(driver = "smp" /\ (ReadPoll(p) \/ ReadTimeout(p) \/ ReadTake(p)))

NodesSpec == NodesInit /\ [][NodesNext]_nodesVars /\ NodesFairness

\* The component that runs keeps its variables in their types.
NodesTypeOK ==
  /\ driver = "node" => TypeOK
  /\ driver = "dio" => DioTypeOK
  /\ driver = "cmd" => CmdTypeOK
  /\ driver = "smp" => SmpTypeOK
  /\ driver = "ssi" => SsiTypeOK
=============================================================================
