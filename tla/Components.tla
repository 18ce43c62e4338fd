----------------------------- MODULE Components -----------------------------
(***************************************************************************)
(* The components of the daemon that keep a state of their own and meet    *)
(* the others only through calls that return, side by side: those of       *)
(* Lifetimes, of Ownership, of Records and of LoopParts, and the streams   *)
(* of the models.                                                          *)
(***************************************************************************)
EXTENDS Lifetimes, Ownership, Records, LoopParts

CONSTANTS
  \* bounds of ModelStreams
  StreamProtocols, StreamEvents, StreamCalls, StreamCapacity

VARIABLES
  strProtocol, strSaid, strS, strChannel, strOutcome, strCancelled, strMessage, strIndexes,
  strState

Streams == INSTANCE ModelStreams WITH
  Protocols <- StreamProtocols, MaxEvents <- StreamEvents,
  MaxCalls <- StreamCalls, Capacity <- StreamCapacity,
  protocol <- strProtocol, said <- strSaid, s <- strS, channel <- strChannel,
  outcome <- strOutcome, cancelled <- strCancelled, message <- strMessage,
  indexes <- strIndexes, state <- strState

-----------------------------------------------------------------------------
strVars == <<strProtocol, strSaid, strS, strChannel, strOutcome, strCancelled, strMessage,
             strIndexes, strState>>
StreamsOff ==
  /\ strProtocol = 0 /\ strSaid = 0 /\ strS = 0 /\ strChannel = 0 /\ strOutcome = 0
  /\ strCancelled = 0 /\ strMessage = 0 /\ strIndexes = 0 /\ strState = 0

Init ==
  \/ /\ LifetimesInit
     /\ OwnershipOff /\ RecordsOff /\ LoopPartsOff /\ StreamsOff
  \/ /\ OwnershipInit
     /\ LifetimesOff /\ RecordsOff /\ LoopPartsOff /\ StreamsOff
  \/ /\ RecordsInit
     /\ LifetimesOff /\ OwnershipOff /\ LoopPartsOff /\ StreamsOff
  \/ /\ LoopPartsInit
     /\ LifetimesOff /\ OwnershipOff /\ RecordsOff /\ StreamsOff
  \/ /\ machine = "streams" /\ Streams!Init
     /\ LifetimesOff /\ OwnershipOff /\ RecordsOff /\ LoopPartsOff

(* a step of the one component that moves                                  *)
Next ==
  \/ /\ LifetimesNext
     /\ UNCHANGED <<ownershipVars, recordVars, loopPartVars, strVars>>
  \/ /\ OwnershipNext
     /\ UNCHANGED <<lifetimeVars, recordVars, loopPartVars, strVars>>
  \/ /\ RecordsNext
     /\ UNCHANGED <<lifetimeVars, ownershipVars, loopPartVars, strVars>>
  \/ /\ LoopPartsNext
     /\ UNCHANGED <<lifetimeVars, ownershipVars, recordVars, strVars>>
  \/ /\ machine = "streams" /\ Streams!Next
     /\ UNCHANGED <<machine, lifetimeVars, ownershipVars, recordVars, loopPartVars>>

allVars == <<machine, lifetimeVars, ownershipVars, recordVars, loopPartVars, strVars>>

Spec == Init /\ [][Next]_allVars

-----------------------------------------------------------------------------
(* ModelStreams: when the final message of an answer that was not cancelled *)
(* replaces the live one, each part of the live one is in it, at some       *)
(* place, under its id and of its kind, and with what was shown of it as a  *)
(* prefix; no two parts have one id, and a tool call has the arguments that *)
(* were streamed for it (applyStreamPart, mergeFinalAssistant,              *)
(* FinalMessage, which may put text before reasoning that came first).      *)
PartsKeepIdentity == [][machine = "streams" => Streams!KeepsIdentity]_allVars
=============================================================================
