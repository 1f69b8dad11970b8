----------------------------- MODULE MCStreams -----------------------------
(* A device of one channel in the build with both host APIs, of two in the one with      *)
(* AAudio, of none in the one with OpenSLES. Streams ask for one channel,               *)
(* Pa_IsFormatSupported for anything.                                             *)
EXTENDS Streams

Stereo == [channels |-> {1, 2}, rates |-> {44100, 48000}]
Mono   == [channels |-> {1}, rates |-> {48000, 96000}]
Silent == [channels |-> {}, rates |-> {48000}]
Build(apis, in, out) == [enabled |-> apis, in |-> in, out |-> out]
AnyBuild == {Build({"OpenSLES", "AAudio"}, Stereo, Mono), Build({"AAudio"}, Stereo, Stereo),
             Build({"OpenSLES"}, Silent, Silent)}

SideOf(devices, channels, formats) == [device : devices, channels : channels, format : formats]
AnySide == SideOf({-1, 0, 1, 2}, {0, 1, 2, 3}, {"Int8", "Custom"}) \cup {NoParameters}
One(d, c, e) == [device |-> d, channels |-> c, format |-> e]
AnyRequest == [in : {NoParameters}, out : AnySide, rate : {500, 44100, 96000}]
              \cup [in : AnySide, out : {NoParameters}, rate : {48000}]
              \cup [in : {One(0, 2, "Int32")}, out : SideOf({0, 1}, {1, 2}, {"Float32"}), rate : {48000, 96000}]

Mono16(d) == [device |-> d, channels |-> 1, format |-> "Int16"]
FewRequests == {r \in [in : {Mono16(0), NoParameters}, out : {Mono16(0), Mono16(1), NoParameters},
                       rate : {48000, 96000}] : r.rate = 96000 => r.in # NoParameters}
=============================================================================
