---------------------------- MODULE MCMutations ----------------------------
(* Mutations of payloads of up to three streams.                             *)
EXTENDS Mutations

MCInserted == {Line("GET", "none"), Length(1), Data}

Plain    == <<Line("GET", "1.1"), Length(1), Eol, Data>>
Old      == <<Line("GET", "none"), EmptyHeader, Eol>>
Chunked  == <<Line("PUT", "1.1"), Coding("chunked"), Eol, Size(2), Data, Data, Eol, Size(0), Eol>>
Trailing == <<Line("PUT", "1.1"), Coding("chunked"), Eol, Size(0), Header("trailer-is"), Eol>>
Coded    == <<Line("PUT", "1.1"), Coding("identity"), Length(1), Eol, Data>>
Gzipped  == <<Line("PUT", "1.1"), GzipHeader, Length(1), Eol, Zipped>>
Unpacked == <<Line("PUT", "1.1"), GzipHeader, Length(1), Eol, Data, Data>>

MCPayloads ==
    {<<>>, <<<<>>>>, <<Old>>, <<Old, Plain>>, <<<<Data>>, Plain, Old>>, <<Plain \o Old>>, <<Chunked \o Plain>>,
     <<Trailing>>, <<Coded \o Old>>, <<Gzipped>>, <<Unpacked>>}
=============================================================================
