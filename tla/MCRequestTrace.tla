---------------------------- MODULE MCRequestTrace ----------------------------
(* Instance of RequestTrace for TLC: two requests of a frozen trace, some  *)
(* manifests that are not it, and streams with either line terminator.     *)
EXTENDS RequestTrace

Row(id, offset, body) == [id |-> id, offset |-> offset, body |-> body]

MCFrozen == <<Row("a", 0, "x"), Row("b", 1, "x")>>

MCManifests ==
  {MCFrozen, <<>>, <<Row("a", 0, "x")>>,
   <<Row("a", 0, "x"), Row("a", 1, "x")>>, <<Row("a", 1, "x"), Row("b", 0, "x")>>,
   <<Row("a", 0, "x"), Row("b", 1, "invalid")>>}

Sse(bytes) == [status |-> "ok", sse |-> TRUE, bytes |-> bytes]

MCAnswers ==
  { Sse(<<"t1", "N", "N", "t2", "N", "N", "done", "N", "N">>),
    Sse(<<"t1", "R", "N", "R", "N", "done", "R", "N", "R", "N">>),
    Sse(<<"role", "N", "N", "N", "blank", "N", "N", "done", "N", "N">>),
    Sse(<<"t1", "N", "N", "done", "N", "N", "ping", "N">>),
    Sse(<<"t1", "R", "N", "N", "error", "N", "N", "done", "N", "N">>),
    Sse(<<"ping", "N", "t1", "N", "t2", "N", "N", "done", "N", "N">>),
    [status |-> "other", sse |-> TRUE, bytes |-> <<"t1", "N", "N", "done", "N", "N">>],
    [status |-> "other", sse |-> FALSE, bytes |-> <<>>] }
=============================================================================
