------------------------- MODULE MCServiceDiscovery -------------------------
(***************************************************************************)
(* Values of the constants of ServiceDiscovery for TLC.                    *)
(***************************************************************************)
EXTENDS ServiceDiscovery

CONSTANTS s1, s2, n2, a1, a2, x

\* The annotations of s2 select another name than its own.
Renamed == [s \in Services |-> IF s = s2 THEN n2 ELSE s]

\* Both Services have the same one pod, or s2 has no Endpoints yet.
OnePod == [s \in Services |-> {{a1}}]
OneYet == [OnePod EXCEPT ![s2] = None]
Ready  == {OnePod}
Either == {OnePod, OneYet}

\* Somebody else has registered x under s1; the other keys have no service yet.
Stranger == [k \in Keys |-> IF k = s1 THEN {x} ELSE {}]
=============================================================================
