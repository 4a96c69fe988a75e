------------------------------- MODULE MCNode -------------------------------
(* A small node for TLC: Lifecycle over ModelRegistry. *)
EXTENDS Lifecycle, TLC

\* Two models; the second replica of "a" would be called "b", which is taken as
\* long as the model "b" has an instance.
TheModels == {"a", "b"}
TheReplicas == ("a" :> <<"a", "b">>) @@ ("b" :> <<"b">>)

\* Two threads, which between them are asked for everything: starts of "a" meet
\* each other, signals, a stop and a retirement, which meets a removal.
Split == <<{<<"start", "a">>, <<"pause", "a">>, <<"resume", "a">>, <<"deregister", "a">>},
           {<<"start", "a">>, <<"stop", "a">>, <<"retire", "a">>, <<"restart", "b">>}>>
=============================================================================
