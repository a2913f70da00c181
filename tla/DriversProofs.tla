--------------------------- MODULE DriversProofs ----------------------------
(***************************************************************************)
(* The compositions that the runs `node' and `drivers' check: a behaviour  *)
(* of one of them is a behaviour of every component, which moves or stays  *)
(* where it is, so that what holds of each component alone holds of all of *)
(* them together.                                                          *)
(***************************************************************************)
EXTENDS MCDeviceNodes, MCDrivers, DeviceNodeProofs, AnalogProofs,
        RegisterProofs, SerialProofs

-----------------------------------------------------------------------------
\* Every driver of MCDeviceNodes follows its own specification.
LEMMA NodesParts == NodesSpec => Spec /\ DioSpec /\ CmdSpec /\ SmpSpec /\ SsiSpec
<1>1. NodesInit => Init /\ DioInit /\ CmdInit /\ SmpInit /\ SsiInit
  BY DEF NodesInit
<1>2. ASSUME [NodesNext]_nodesVars
      PROVE  /\ [Next]_vars /\ [DioNext]_dioVars /\ [CmdNext]_cmdVars
             /\ [SmpNext]_smpVars /\ [SsiNext]_ssiVars
  BY <1>2 DEF NodesNext, nodesVars
<1>3. QED
  BY <1>1, <1>2, PTL DEF NodesSpec, Spec, DioSpec, CmdSpec, SmpSpec, SsiSpec

\* Every driver of MCDrivers follows its own specification.
LEMMA DriversParts ==
  DriversSpec => /\ CtlSpec /\ RomSpec /\ SerialSpec /\ ChainSpec /\ SubSpec
                 /\ CntSpec /\ IoSpec /\ ComSpec
<1>1. DriversInit => /\ CtlInit /\ RomInit /\ SerialInit /\ ChainInit /\ SubInit
                     /\ CntInit /\ IoInit /\ ComInit
  BY DEF DriversInit
<1>2. ASSUME [DriversNext]_driverVars
      PROVE  /\ [CtlNext]_ctlVars /\ [RomNext]_romVars /\ [SerialNext]_serialVars
             /\ [ChainNext]_chainVars /\ [SubNext]_subVars /\ [CntNext]_cntVars
             /\ [IoNext]_ioVars /\ [ComNext]_comVars
  BY <1>2 DEF DriversNext, driverVars
<1>3. QED
  BY <1>1, <1>2, PTL DEF DriversSpec, CtlSpec, RomSpec, SerialSpec, ChainSpec, SubSpec,
     CntSpec, IoSpec, ComSpec

-----------------------------------------------------------------------------
\* The nodes, the digital and analog I/O and the sensor input, one at a time
\* and for any sizes: the driver that runs keeps its types, opens and closes of
\* a node neither fault, leave something behind nor map a window twice unless
\* they raced, and the settings, data, events and interrupts of the devices
\* are those that were asked for: what the run `node' checks, but LoopsEnd
\* and EventServed.
THEOREM NodesSafe ==
  NodesSpec => /\ [](NodesTypeOK /\ NoFault /\ NothingLeft /\ OneWindow)
               /\ [](MemoryReached /\ SettingReported /\ WritesLand)
               /\ [](FifoChecked /\ ReadCorrected)
               /\ LineKept /\ EventTold
<1>1. Spec => [](TypeOK /\ NoFault /\ NothingLeft /\ OneWindow)
  BY NodeTyped, NoFaultEver, NothingLeftBehind, OneWindowAlways, PTL
<1>2. DioSpec => [](DioTypeOK /\ MemoryReached) /\ LineKept /\ EventTold
  BY DioTyped, MemoryReachedAlways, LineKeptAlways, EventToldAlways, PTL
<1>3. CmdSpec => [](CmdTypeOK /\ SettingReported /\ WritesLand)
  BY CommandsTyped, SettingReportedAlways, WritesLandAlways, PTL
<1>4. SmpSpec => [](SmpTypeOK /\ FifoChecked)
  BY SamplingTyped, FifoCheckedAlways, PTL
<1>5. SsiSpec => [](SsiTypeOK /\ ReadCorrected)
  BY SensorTyped, ReadCorrectedAlways, PTL
<1>6. TypeOK /\ DioTypeOK /\ CmdTypeOK /\ SmpTypeOK /\ SsiTypeOK => NodesTypeOK
  BY DEF NodesTypeOK
<1>7. QED
  BY NodesParts, <1>1, <1>2, <1>3, <1>4, <1>5, <1>6, PTL

\* The registers, EEPROMs, serial ports, sub-units, counters and libraries, one
\* at a time and for any sizes: the driver that runs keeps its types, and what
\* the run `drivers' checks holds, but NotIdle.
THEOREM DriversSafe ==
  DriversSpec => /\ [](DriversTypeOK /\ PartsAsAsked /\ RomKept /\ UartArmed)
                 /\ [](ErrorsCounted /\ PortsHeard /\ LineReleased)
                 /\ [](SubunitAsAsked /\ CountsAsAsked /\ RegistersMapped)
                 /\ []WindowOfKnown
<1>1. CtlSpec => [](CtlTypeOK /\ PartsAsAsked)
  BY RegistersTyped, PartsAsAskedAlways, PTL
<1>2. RomSpec => [](RomTypeOK /\ RomKept)
  BY RomTyped, RomKeptAlways, PTL
<1>3. SerialSpec => [](SerialTypeOK /\ UartArmed /\ ErrorsCounted)
  BY PortTyped, UartArmedAlways, ErrorsCountedAlways, PTL
<1>4. ChainSpec => [](ChainTypeOK /\ PortsHeard /\ LineReleased)
  BY ChainTyped, PortsHeardAlways, LineReleasedAlways, PTL
<1>5. SubSpec => [](SubTypeOK /\ SubunitAsAsked)
  BY SubunitTyped, SubunitAsAskedAlways, PTL
<1>6. CntSpec => [](CntTypeOK /\ CountsAsAsked)
  BY CountersTyped, CountsAsAskedAlways, PTL
<1>7. IoSpec => [](IoTypeOK /\ RegistersMapped)
  BY LibraryTyped, RegistersMappedAlways, PTL
<1>8. ComSpec => [](ComTypeOK /\ WindowOfKnown)
  BY LinesTyped, WindowFollowsChip, PTL
<1>9. /\ CtlTypeOK /\ RomTypeOK /\ SerialTypeOK /\ ChainTypeOK
      /\ SubTypeOK /\ CntTypeOK /\ IoTypeOK /\ ComTypeOK
      => DriversTypeOK
  BY DEF DriversTypeOK
<1>10. QED
  BY DriversParts, <1>1, <1>2, <1>3, <1>4, <1>5, <1>6, <1>7, <1>8, <1>9, PTL
=============================================================================
