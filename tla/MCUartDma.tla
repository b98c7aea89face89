------------------------------ MODULE MCUartDma ------------------------------
(* Values for TLC: the guest enables or disables the receiver, clears RXNE *)
(* or tries to, and uses the stream to receive into memory.                *)
EXTENDS UartDma

MCSRWords == {{"TC", "TXE"}, {"RXNE", "TC", "TXE", "LBD"}}
MCCR1Words == {{}, {"UE", "RE"}}
MCCRWords == {[bits |-> b \cup {"MINC"}, dir |-> 0, msize |-> 1] :
                b \in {{}, {"EN"}, {"EN", "CIRC"}}}
=============================================================================
