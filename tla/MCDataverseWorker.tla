------------------------- MODULE MCDataverseWorker -------------------------
(***************************************************************************)
(* Small instances of DataverseWorker.                                     *)
(***************************************************************************)
EXTENDS DataverseWorker

CONSTANTS visit, clash

MCContents == {visit, clash}
MCRefused  == {clash}

\* The oldest row is refused for ever; the second may come back blank; the third
\* may be read like the second, a request submitted twice.
MCReadings ==
  [r \in Rows |-> CASE r = 1 -> {clash}
                    [] r = 2 -> {visit, Blank}
                    [] OTHER -> {visit}]
=============================================================================
