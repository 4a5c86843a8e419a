------------------------------ MODULE MCSearch ------------------------------
(* Instances of SearchPage: the client asks every query of up to three       *)
(* segments of up to two words and a few JSON ones, the browser some of them *)
(* with every page size, against documents with strings and numbers, one of  *)
(* which may change and one be added meanwhile.                              *)
EXTENDS SearchPage

MCWords == {"", "user", "User", "test", "Test", "12", "_id", "$x", "$text", "us.r", "user("}
MCLower == [w \in MCWords |-> CASE w = "User" -> "user" [] w = "Test" -> "test" [] OTHER -> w]
Typed == {"user", "test", "Test", "12", "_id", "$x"}

Texts == {<<a>> : a \in Typed} \cup {<<a, b>> : a, b \in Typed}
Patterns == {<<"us.r">>, <<"test", "us.r">>, <<"12", "us.r">>, <<"user(">>}
MCMatches == {<<<<"us.r">>, <<w>>>> : w \in {"user", "User", "us.r"}}
             \cup {<<<<"test", "us.r">>, <<v, w>>>> : v \in {"test", "Test"}, w \in {"user", "User", "us.r"}}
MCBadPatterns == {<<"user(">>}

MCQueries ==
    {[kind |-> "text", segments |-> <<s>>] : s \in Texts \cup {<<"">>}}
    \cup {[kind |-> "text", segments |-> <<s, t>>] : s \in Texts, t \in Texts \cup Patterns}
    \cup {[kind |-> "text", segments |-> <<s, t, u>>] : s \in {<<a>> : a \in Typed}, t, u \in Texts}
    \cup {[kind |-> "malformed"], [kind |-> "idobject"],
          [kind |-> "json", spec |-> {[field |-> <<"User">>, text |-> <<"test">>, exact |-> TRUE]}]}

Str(ws) == [type |-> "string", text |-> ws]
Num(w)  == [type |-> "number", text |-> <<w>>]
Doc(user, test) == [k \in {<<"User">>, <<"test">>} |-> IF k = <<"User">> THEN user ELSE test]
MCDocs == <<Doc(Str(<<"test">>), Str(<<"12">>)), Doc(Str(<<"Test">>), Num("12")),
            Doc(Str(<<"test", "12">>), Str(<<"Test">>)), Doc(Str(<<"user">>), Str(<<"12">>))>>
MCLate == {[id |-> 1, rec |-> [k \in {<<"User">>} |-> Str(<<"user">>)]],
           [id |-> 5, rec |-> Doc(Str(<<"Test">>), Str(<<"test">>))]}
MCWebQueries ==
    {[kind |-> "text", segments |-> segs] :
        segs \in {<<<<"test">>>>, <<<<"user">>, <<"test">>>>, <<<<"user">>, <<"us.r">>>>,
                  <<<<"user">>, <<"user(">>>>, <<<<"test">>, <<"12">>>>, <<<<"">>>>}}
    \cup {[kind |-> "idobject"]}
MCStarts == -1..4
MCLimits == -1..3 \cup {50}
============================================================================
