---------------------------- MODULE MCConfigSync ----------------------------
(***************************************************************************)
(* Values of the constants of ConfigSync for TLC.                          *)
(***************************************************************************)
EXTENDS ConfigSync

CONSTANTS c1, c2, c3, c4, k1, k2

\* Every content is its own canonical base64 text, or c2 is c3 with a line
\* break in it.
Plain   == [c \in Base64 |-> c]
Wrapped == [c \in Base64 |-> IF c = c2 THEN c3 ELSE c]

\* The same content, or none, under every key.
Object(v, f) == [NewObject EXCEPT !.data = [d \in DataIds |-> v], !.fin = f]
Config(c)    == [d \in DataIds |-> c]

New      == {Object(c1, FALSE)}
Blank    == {Object(Empty, TRUE)}
Known    == {Object(c1, TRUE)}
Some     == {[NewObject EXCEPT !.data = [d \in DataIds |-> IF d \in D THEN c1 ELSE Absent],
                                !.fin = TRUE] : D \in {{k1}, {k1, k2}}}

Nothing  == {Config(Empty)}
Either   == {Config(Empty), Config(c2)}
Conflict == {Config(c2)}
=============================================================================
