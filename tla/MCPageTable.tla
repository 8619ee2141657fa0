------------------------------ MODULE MCPageTable ------------------------------
(* Devices for TLC.                                                          *)
EXTENDS PageTable

\* Two frames of RAM and two of swap, so that two of four pages are swapped out
\* and a write to them reaches frame 0 of the process itself, or frame 32,
\* which there is not; or frames with numbers on both sides of 32, where a
\* frame number outgrows the field of the swap type, and one swap frame, whose
\* offset reaches bit 13 of the entry and spells frame 0 of another process.
TwoConfigs == {[ram |-> 2,  ramTaken |-> 0,  swp |-> 2,   swpTaken |-> 0],
               [ram |-> 33, ramTaken |-> 31, swp |-> 257, swpTaken |-> 256]}
=============================================================================
