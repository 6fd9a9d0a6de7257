----------------------------- MODULE MCLoading -----------------------------
(***************************************************************************)
(* Instances of Loading for TLC.                                           *)
(***************************************************************************)
EXTENDS Loading, TLC

CONSTANTS r1, r2, s1, s2, t1

There == [from |-> s1, to |-> s2, at |-> t1]
Back  == [from |-> s2, to |-> s1, at |-> t1]

\* A ride is corrected in a later export, or in the same.
OneFeed == {<<s2, s1>>}

Entry(r, content) == [ride |-> r, content |-> content]

TwoExports ==
    {<<Entry(r1, There), Entry(r2, There)>>,
     <<Entry(r2, Back), Entry(r1, There), Entry(r2, There)>>}
=============================================================================
