---------------------------- MODULE MCSensorChain ----------------------------
(* Two channels: one read sample by sample, one through a window of two.    *)
EXTENDS SensorMonitor

MCChannels == {"temperature", "vibration"}
MCStale == [c \in MCChannels |-> IF c = "temperature" THEN 2 ELSE 1]
MCWindow == [c \in MCChannels |-> IF c = "vibration" THEN 2 ELSE 1]
\* A reset edge ignores its samples.
MCInputs == {i \in ChannelInput : i.rst => \A c \in MCChannels : i.raw[c] = "none"}
=============================================================================
