---------------------------- MODULE MCHostCommands ----------------------------
(* HostCommands with one command of each kind that matters to the properties. *)
EXTENDS HostCommands

C(cmd, data) == [cmd |-> cmd, data |-> data]
MCCommands ==
  {C("AdvRecvMode", <<1>>),
   C("SetMIDState", <<1, 1, 0>>), C("Change232BaudRate", <<128, 37, 0, 0>>),
   C("EnableJ1708TxConfirm", <<1>>), C("CANcontrol", <<114, 2>>), C("ResetQBridge", <<>>)}
===============================================================================
