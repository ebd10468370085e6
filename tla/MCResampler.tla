---------------------------- MODULE MCResampler ----------------------------
(***************************************************************************)
(* The values of the constants for the runs of Resampler.  What each run   *)
(* lets the application do is in its configuration.                        *)
(***************************************************************************)
EXTENDS Resampler

MCQualities == {"MQ", "VHQ"}
MCLengths == {1, 3}
=============================================================================
