--------------------------- MODULE MCObservacion ---------------------------
(* A process of the host whose command goes on, after a newline, with a    *)
(* line like that of the RAM and another like that of process 3; the main  *)
(* process of a container, with "|" and a number in its name, and its      *)
(* child; and the main process of another container, whose command has a   *)
(* newline and nothing that looks like a process.                          *)
EXTENDS Observacion

MCduenno == <<"host", "c1", "c1", "c2">>
MCpesos == <<{10}, {10, 20}, {5}, {7}>>
MCtexto == << <<<<Texto, 8, Texto, Texto, Texto, Texto>>, <<Ram, 9>>, <<3, Texto, Texto>>>>,
              <<<<Texto, 6, Texto>>>>,
              <<<<Texto, Texto>>>>,
              <<<<Texto, Texto>>, <<Texto, Texto, Texto>>>> >>
=============================================================================
