----------------------------- MODULE MCPackets -------------------------------
(* Constants for model checking PacketTraces and PacketRequests. *)
EXTENDS PacketRequests

CONSTANTS pkt1, pkt2

TwoModules == {"parser", "editor"}
TwoPackets == {pkt1, pkt2}
OneCounter == {"hits"}
TwoPairs == {<<"parser", "editor">>, <<"editor", "editor">>}
DropsInEditor == TwoPackets \X {"editor"}
OneDescribed == {pkt1}
One == {1}
=============================================================================
