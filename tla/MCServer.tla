------------------------------ MODULE MCServer ------------------------------
(***************************************************************************)
(* Instances of Server for TLC.                                            *)
(***************************************************************************)
EXTENDS Server, TLC

CONSTANTS here, there, padded, Spaces

\* Load's defaults; the fallback of REDIS_DB is 0.
Defaults ==
    (HTTPPort :> <<"8000">>) @@ (CORSAllowedOrigins :> <<here>>) @@ (RedisDB :> <<"0">>)

Numbers == {<<"0">>, <<"1">>}

\* An origin in the lists has spaces around it, or is only spaces.
Trims ==
    (here :> here) @@ (there :> there) @@ (Blank :> Blank)
        @@ (padded :> there) @@ (Spaces :> Blank)

\* The list of origins is not set, empty, only spaces, or of two parts.
FourEnvironments ==
    {<<>>} \cup {CORSAllowedOrigins :> value :
                    value \in {Empty, <<Spaces>>, <<Blank, padded>>}}

Line(value) == [key |-> CORSAllowedOrigins, value |-> value]

\* A value of only spaces has quotes around it in the file.
FiveFiles ==
    {<<>>, <<Line(Empty)>>, <<NoSetting, Line(<<there>>)>>,
     <<Line(<<Spaces>>), Line(<<there>>)>>,
     <<Line(<<there, here>>), Line(<<there>>)>>}

\* A list that every browser may ask for, a preflight, and a refusal.
Requests ==
    {[method |-> "GET", path |-> "/rides", origin |-> there],
     [method |-> "GET", path |-> "/rides/cost", origin |-> Blank],
     [method |-> "OPTIONS", path |-> "/rides", origin |-> here],
     [method |-> "POST", path |-> "/stations", origin |-> there]}
=============================================================================
