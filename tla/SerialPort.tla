----------------------------- MODULE SerialPort -----------------------------
(***************************************************************************)
(* The Arduino core's serial port: its sending and its receiving half,     *)
(* which share no index and no flag.  The two are left free of each other  *)
(* here, so that a call of the one may come into a call of the other; a    *)
(* sketch is in one of them at a time.                                     *)
(***************************************************************************)
EXTENDS SerialSend, SerialReceive

portVars == <<sendVars, receiveVars>>

SerialInit == SendInit /\ ReceiveInit

SerialNext ==
    \/ SendNext /\ UNCHANGED receiveVars
    \/ ReceiveNext /\ UNCHANGED sendVars

SerialSpec == SerialInit /\ [][SerialNext]_portVars

-----------------------------------------------------------------------------

\* Bytes leave in the order of their writes and are read in the order of their arrival,
\* each once, whatever write and flush, and read, peek and available, were doing when
\* an interrupt came.
BytesInOrder == SentInOrder /\ ReceivedInOrder
=============================================================================
