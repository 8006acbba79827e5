---------------------------- MODULE MCPinoRecord ----------------------------
(* Calls of every form over a few texts.                                   *)
EXTENDS PinoRecord

SomeWords == OwnWords \cup Directives \cup {"bare", "context", "blocked", "key", "list", "none"}

NoFirst == [is |-> "none", key |-> "none", text |-> <<>>]

SomePrefixes == {<<>>, <<"context">>, <<"word">>, <<"secret">>}

SomeFirsts ==
  {NoFirst, [is |-> "object", key |-> "context", text |-> <<"bare">>],
   [is |-> "object", key |-> "key", text |-> <<"word">>]}
  \cup [is : {"error"}, key : {"none"}, text : {<<"word">>, <<"secret">>, <<"bare">>}]
  \cup [is : {"objectWithError"}, key : {"err"}, text : {<<"word">>, <<"secret">>}]

SomeMessages ==
  {NoText, <<"word">>, <<"bare">>, <<"blocked">>, <<"context", "%s">>, <<"%s", "%s">>,
   <<"%%", "%d", "word">>, <<"%z", "%j">>}

SomeValues ==
  [type : {"string"}, text : {<<"word">>, <<"secret">>, <<"bare">>, <<"context">>}]
  \cup [type : {"undefined", "symbol"}, text : {<<"word">>}]

SomeBindings ==
  {<<>>, <<Key("context"), String(<<"bare">>), Key("list"), Other, String(<<"secret">>), String(<<"word">>)>>}
=============================================================================
