------------------------------ MODULE MCDrivers ------------------------------
(***************************************************************************)
(* The registers and EEPROMs, the counter, the I/O libraries, the serial   *)
(* lines and ports and the power of the boards' sub-units, each on its own:*)
(* a behaviour is one of the component `which', the others stay where they *)
(* began.  They share no state that their properties speak of, so this is  *)
(* the union of their behaviours.                                          *)
(***************************************************************************)
EXTENDS ControllerRegisters, DeviceRom, SerialPort, SerialChain,
        SubunitPower, Counter, IoLib, SerialLines

CONSTANTS Status1, Error

VARIABLE which

driverVars ==
  <<which, ctlVars, romVars, serialVars, chainVars, subVars, cntVars, ioVars, comVars>>

DriversInit ==
  /\ which \in {"ctl", "rom", "serial", "chain", "sub", "cnt", "io", "com"}
  /\ CtlInit /\ RomInit /\ SerialInit /\ ChainInit /\ SubInit
  /\ CntInit /\ IoInit /\ ComInit
  \* The choices of a component that does not run are made once.
  /\ which # "ctl" => ctlRegisterOf = "led"
  /\ which # "rom" => romCell = 0
  /\ which # "serial" => ~chipReasserts
  /\ which # "sub" => subBoard = "COM1QL"
  /\ which # "io" => ioKind = "alone"
  /\ which # "com" => comBoards = {}

DriversNext ==
  \/ /\ which = "ctl" /\ CtlNext
     /\ UNCHANGED <<which, romVars, serialVars, chainVars, subVars,
                    cntVars, ioVars, comVars>>
  \/ /\ which = "rom" /\ RomNext
     /\ UNCHANGED <<which, ctlVars, serialVars, chainVars, subVars,
                    cntVars, ioVars, comVars>>
  \/ /\ which = "serial" /\ SerialNext
     /\ UNCHANGED <<which, ctlVars, romVars, chainVars, subVars,
                    cntVars, ioVars, comVars>>
  \/ /\ which = "chain" /\ ChainNext
     /\ UNCHANGED <<which, ctlVars, romVars, serialVars, subVars,
                    cntVars, ioVars, comVars>>
  \/ /\ which = "sub" /\ SubNext
     /\ UNCHANGED <<which, ctlVars, romVars, serialVars, chainVars,
                    cntVars, ioVars, comVars>>
  \/ /\ which = "cnt" /\ CntNext
     /\ UNCHANGED <<which, ctlVars, romVars, serialVars, chainVars,
                    subVars, ioVars, comVars>>
  \/ /\ which = "io" /\ IoNext
     /\ UNCHANGED <<which, ctlVars, romVars, serialVars, chainVars,
                    subVars, cntVars, comVars>>
  \/ /\ which = "com" /\ ComNext
     /\ UNCHANGED <<which, ctlVars, romVars, serialVars, chainVars,
                    subVars, cntVars, ioVars>>
  \* A load that failed and left something behind: the system is not used on.
  \/ which = "io" /\ ioStage = "gone" /\ UNCHANGED driverVars
  \/ which = "com" /\ comStage = "gone" /\ UNCHANGED driverVars

\* The fairness of each component, as its own specification states it.
DriversFairness ==
  /\ WF_serialVars(which = "serial" /\ ChipShifts)
  /\ WF_serialVars(which = "serial" /\ ChipIdles)
  /\ WF_serialVars(which = "serial" /\ HandleStart)
  /\ WF_serialVars(which = "serial" /\ ReceiveNext)
  /\ WF_serialVars(which = "serial" /\ BackupTimeout)

DriversSpec == DriversInit /\ [][DriversNext]_driverVars /\ DriversFairness

\* The component that runs keeps its variables in their types.
DriversTypeOK ==
  /\ which = "ctl" => CtlTypeOK
  /\ which = "rom" => RomTypeOK
  /\ which = "serial" => SerialTypeOK
  /\ which = "chain" => ChainTypeOK
  /\ which = "sub" => SubTypeOK
  /\ which = "cnt" => CntTypeOK
  /\ which = "io" => IoTypeOK
  /\ which = "com" => ComTypeOK
=============================================================================
