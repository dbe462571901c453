----------------------------- MODULE MCApiCalls -----------------------------
(* One call of up to three attempts; bodies of up to three parts, one more than a success *)
(* buffer holds.                                                                          *)
EXTENDS ApiCalls

=============================================================================
