------------------------------ MODULE MCF2xxDma ------------------------------
(* Values for TLC: the guest programs memory increments, with both        *)
(* interrupt enables or none, to receive in a circular buffer or once,    *)
(* or once in the other directions; with a valid and the reserved size.   *)
EXTENDS F2xxDma

MCBits == {{"MINC"} \cup b \cup (IF ie THEN {"HTIE", "TCIE"} ELSE {}) :
             b \in SUBSET {"EN", "CIRC"}, ie \in BOOLEAN}

MCCRWords == [bits : MCBits, dir : {0}, msize : {0, 2}]
             \cup [bits : {b \in MCBits : "CIRC" \notin b}, dir : {2, 3}, msize : {0, 2}]

MCCRRxWords == [bits : MCBits, dir : {0}, msize : {1}]
=============================================================================
