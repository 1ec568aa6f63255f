---------------------------- MODULE MCSerialPort ----------------------------
(* SerialPort with queues of three bytes and a UART that holds two. *)
EXTENDS SerialPort
=============================================================================
