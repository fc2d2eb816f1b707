-------------------------- MODULE MCDeviceSession --------------------------
(* DeviceSession for TLC: which features are in use together.              *)
EXTENDS DeviceSession

OnOff == {{"on", "off"}}

Ends == OnOff \cup {{"exec", "probe"}}

Together == OnOff \cup {{"on", "exec"}, {"exec", "probe", "reload"}}
=============================================================================
