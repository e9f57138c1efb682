---------------------------- MODULE MCTunedPoll ----------------------------
(***************************************************************************)
(* Instances of TunedPoll for TLC.                                         *)
(***************************************************************************)
EXTENDS TunedPoll

CONSTANTS grid, meter, eps, one, two

MCComponents == {grid, meter, eps}
MCUnserved == {meter}
MCPollers == {one, two}

\* Three components, of which the model does not serve one.  Setup settles
\* on all, on the readings alone, or on nothing for a type still unknown.
Alone ==
    [pollers |-> {one}, errors |-> Errors,
     lists |-> {
        [readings |-> <<grid, meter>>, settings |-> <<eps>>],
        [readings |-> <<meter, grid>>, settings |-> <<>>],
        Unsettled}]

\* One reading and one setting, for polls that overlap, and the errors
\* between which a retry decides.
Overlapping ==
    [pollers |-> {one, two}, errors |-> {"busy", "timeout"},
     lists |-> {
        [readings |-> <<grid>>, settings |-> <<eps>>],
        [readings |-> <<grid>>, settings |-> <<>>]}]

MCSites == {Alone, Overlapping}
=============================================================================
