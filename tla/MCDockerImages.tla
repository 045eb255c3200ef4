--------------------------- MODULE MCDockerImages ---------------------------
(* A small instance of DockerImages for TLC. *)
EXTENDS DockerImages, TLC

CONSTANTS web, agent, i1

BothInTurn == <<web, agent>>

\* Two containers are started from one image.
SharedImage == web :> i1 @@ agent :> i1

=============================================================================
