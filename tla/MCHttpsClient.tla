---------------------------- MODULE MCHttpsClient ----------------------------
(* Small instances of HttpsClient for TLC: one response of each kind.       *)
EXTENDS HttpsClient

Response(text, len, chunks, parts) ==
    [text |-> text, length |-> len, chunked |-> chunks, body |-> parts]

MCParts == <<"b1", "b2", "b3">>

MCResponses == {
    Response(<<"head", "end", "b1", "b2">>, 2, FALSE, 2),
    Response(<<"head", "end">>, 0, FALSE, 0),
    Response(<<"head", "end", "b1", "b2">>, ULLONG_MAX, FALSE, 2),
    Response(<<"junk", "end", "b1">>, 1, FALSE, 1),
    Response(<<"head", "end", "2", "cr", "lf", "b1", "b2", "cr", "lf",
               "1", "cr", "lf", "b3", "cr", "lf", "0", "cr", "lf", "cr", "lf">>,
             ULLONG_MAX, TRUE, 3),
    Response(<<"head", "end", "1", "cr", "lf", "b1", "cr", "lf", "x", "cr", "lf">>,
             ULLONG_MAX, TRUE, 1),
    Response(<<"head", "end", "1", "cr", "lf", "b1", "b2", "cr", "lf", "0", "cr", "lf",
               "cr", "lf">>, ULLONG_MAX, TRUE, 2)}
=============================================================================
