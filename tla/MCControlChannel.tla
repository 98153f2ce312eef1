-------------------------- MODULE MCControlChannel --------------------------
(***************************************************************************)
(* Small instances of ControlChannel: the opcodes of the calls that use it *)
(* (client.py: read_settings, read_burst, battery).                        *)
(***************************************************************************)
EXTENDS ControlChannel, TLC

\* read_settings, cut to two of its reads, behind a keepalive.
SettingsOps == 0 :> "2f" @@ 1 :> "c3" @@ 2 :> "68"

\* battery(): the read is the command itself.
BatteryOps == 0 :> "de"
=============================================================================
