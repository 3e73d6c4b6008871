----------------------------- MODULE VmmTransport -----------------------------
(***************************************************************************)
(* One update over CUDA VMM, from publish's packing to the last consumer:  *)
(* the allocation exists before its descriptor is exported and the broker  *)
(* thread of VmmFdBroker is started.                                       *)
(***************************************************************************)
EXTENDS VmmFdBroker, VmmPacking

transportVars == <<vars, packingVars>>

TransportInit == Init /\ PackingInit

Publishing == PackingNext /\ UNCHANGED vars

HandingOver == mapped # 0 /\ Next /\ UNCHANGED packingVars

TransportNext == Publishing \/ HandingOver

TransportSpec == TransportInit /\ [][TransportNext]_transportVars

\* VmmFdBroker's fairness, from the start of the thread on.
Started(A) == mapped # 0 /\ A /\ UNCHANGED packingVars

FairTransportSpec ==
    /\ TransportSpec
    /\ WF_transportVars(Started(BrokerNext))
    /\ WF_transportVars(Started(ReleaseNext))
    /\ \A c \in Consumers : WF_transportVars(Started(MapAndCheck(c)))
===============================================================================
