--------------------------------- MODULE MCIdt ---------------------------------
(* Values for the constants of Idt, for TLC.                               *)
EXTENDS Idt

\* Every vector with an error code, and one without.
MCVectors == PushesError \cup {3}

\* In the handler: a general protection fault.
MCHandlerVectors == {13}

\* Between any two instructions: NMI.
MCAnyTime == {2}
=============================================================================
