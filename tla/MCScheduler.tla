----------------------------- MODULE MCScheduler -----------------------------
(* Scheduler on a host of two resources, sized so that one, two or three    *)
(* cases fit and a sample can show too little of either.                    *)
EXTENDS Scheduler

MCInitialCase == [r \in Resources |-> 4]
MCReserve == [r \in Resources |-> 2]

Sample(vram, ram, busy) == [free |-> [vram |-> vram, ram |-> ram], busy |-> busy]

\* An idle host with room for three, and a busy one that can hold one more case
\* of the assumed size but shows a footprint outgrowing it against an idle baseline.
MCSamples == {Sample(24, 24, FALSE), Sample(8, 24, TRUE)}
=============================================================================
