----------------------------- MODULE MCJobQueue -----------------------------
(***************************************************************************)
(* Instances of JobQueue for TLC.                                          *)
(***************************************************************************)
EXTENDS JobQueue, TLC

CONSTANTS w1, w2, q1, q2

\* As docker-compose.yml runs them: a worker for each list.
OneListEach == (w1 :> <<q1>>) @@ (w2 :> <<q2>>)

\* "work -queue=q1,q2" next to a worker of q1 alone.
SharedLists == (w1 :> <<q1, q2>>) @@ (w2 :> <<q1>>)
=============================================================================
