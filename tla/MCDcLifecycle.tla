--------------------------- MODULE MCDcLifecycle ---------------------------
(***************************************************************************)
(* Values of the constants of DcLifecycle for TLC.                         *)
(***************************************************************************)
EXTENDS DcLifecycle

CONSTANTS g1, n1, n2

Request(server, scope, refs) == [server |-> server, scope |-> scope, refs |-> refs]

\* Two servers, both scopes, an empty list for the full scope, and requests the
\* webhook rejects.
Moves == {Request(n1, "", {}), Request(n2, "full", {{}}), Request(n1, "", {{g1}}),
          Request(NoServer, "", {}), Request(n2, "full", {{g1}}), Request(n1, "", {{}}),
          Request(n2, "partial", {})}
=============================================================================
