-------------------------------- MODULE MCConfig --------------------------------
(***************************************************************************)
(* Files of up to two lines: any key with any value, comments, lines       *)
(* without =, with blanks in every place, with a second = and with a #     *)
(* behind the value, with a quote at either end of it and a backslash; the *)
(* longer ones do not fit the buffer.                                      *)
(***************************************************************************)
EXTENDS Config, TLC

MCDbKeys == <<"DB_HOST", "DB_USER">>

MCDefaults ==
    "DB_HOST" :> <<"localhost">> @@ "DB_USER" :> <<"user">>
    @@ "PORT" :> 12345 @@ "LOG_ERASE" :> TRUE

MCDigits == "1" :> 1 @@ "2" :> 2

MCValues == {<<>>, <<"x">>, <<"1", "2", "x">>, <<"x", "EQ", "x">>,
             <<"x", "SP", "HASH", "x">>, <<"x", "QUOTE">>, <<"QUOTE", "x">>, <<"BS", "x">>}

MCLines ==
    {<<>>} \cup
    {start \o <<key>> \o sep \o value :
        start \in {<<>>, <<"SP">>, <<"SP", "HASH">>},
        key \in {"DB_HOST", "DB_USER", "PORT", "LOG_ERASE", "OTHER"},
        sep \in {<<>>, <<"EQ">>, <<"SP", "EQ", "SP">>},
        value \in MCValues}
=============================================================================
