------------------------------ MODULE MCWorker ------------------------------
(* A plain text and one that ends a quoted path with a backslash, such as   *)
(* Path ^= "C:\Windows\".                                                   *)
EXTENDS Worker

Plain == <<"C">>
QuotedPath == <<Quote, "C", Slash, Quote>>
MCTexts == {Plain, QuotedPath}
MCQuotedPath == {QuotedPath}

ASSUME Accepted(ParseLine(CommandLine(WorkerArgs(Plain))))

=============================================================================
