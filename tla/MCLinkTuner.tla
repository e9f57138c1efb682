---------------------------- MODULE MCLinkTuner ----------------------------
(***************************************************************************)
(* Instances of LinkTuner for TLC.                                         *)
(***************************************************************************)
EXTENDS LinkTuner

\* One component the model serves and one it does not.
CONSTANTS served, absent

MCComponents == {served, absent}
MCUnserved == {absent}

\* A ladder of four gaps with the code's ratios, each twice the last:
\* with budget for the widest, two or three reads a poll cut it short.
MCSteps == {1, 2, 4, 8}

\* Nothing to tune: for the run that looks at the other half of the tuner.
MCNone == {}

\* The first two pauses of CONNECT_DELAYS, in milliseconds.
MCDelays == {250, 500}
=============================================================================
