------------------------------ MODULE MCDevices ------------------------------
(***************************************************************************)
(* Devices and parts that only the guest and the world outside set in      *)
(* motion, each on its own.  They share no state here, so a behaviour is   *)
(* one of either, with the others at their start.                          *)
(***************************************************************************)
EXTENDS MCF2xxDma, Tmc2209Serial, InputParts, St7789v, EthMac, Stm32Rtc

VARIABLE part

deviceVars == <<part, dmaVars, serialVars, inputVars, displayVars, ethVars, rtcVars>>

MCFrames == {<<1>>, <<1, 2>>}
MCEnables == {{"NIS"}, {"AIS", "TU"}}
MCRtcCR == {{}, {<<"enable", "A">>}, {"enable", "interrupt"} \X {"A", "B", "wakeup"}}

DevicesInit ==
  /\ part \in {"dma", "serial", "input", "display", "eth", "rtc"}
  /\ DmaInit /\ SerialInit /\ InputInit /\ DisplayInit /\ EthInit
  /\ IF part = "rtc" THEN RtcInit ELSE RtcInit /\ rtc.period = CHOOSE p \in Periods : TRUE

DevicesNext ==
  \/ /\ part = "dma" /\ DmaNext
     /\ UNCHANGED <<part, serialVars, inputVars, displayVars, ethVars, rtcVars>>
  \/ /\ part = "serial" /\ SerialNext
     /\ UNCHANGED <<part, dmaVars, inputVars, displayVars, ethVars, rtcVars>>
  \/ /\ part = "input" /\ InputNext
     /\ UNCHANGED <<part, dmaVars, serialVars, displayVars, ethVars, rtcVars>>
  \/ /\ part = "display" /\ DisplayNext
     /\ UNCHANGED <<part, dmaVars, serialVars, inputVars, ethVars, rtcVars>>
  \/ /\ part = "eth" /\ EthNext
     /\ UNCHANGED <<part, dmaVars, serialVars, inputVars, displayVars, rtcVars>>
  \/ /\ part = "rtc" /\ RtcNext
     /\ UNCHANGED <<part, dmaVars, serialVars, inputVars, displayVars, ethVars>>

DevicesSpec == DevicesInit /\ [][DevicesNext]_deviceVars
=============================================================================
