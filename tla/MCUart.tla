------------------------------- MODULE MCUart -------------------------------
(* Values for TLC: words that have every effect a write to SR can have on *)
(* the flags that are ever set, and each interrupt enabled by itself.     *)
EXTENDS UartChannel

MCSRWords == SUBSET {"RXNE", "TC", "TXE"}
MCCR1Words == {on \cup ie : on \in SUBSET {"UE", "RE"},
                           ie \in {{}, {"RXNEIE"}, {"TCIE"}, {"TXEIE"}}}
=============================================================================
