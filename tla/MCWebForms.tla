----------------------------- MODULE MCWebForms -----------------------------
(* Instances of WebForms.  MCDef has a key of every type the schemas of the  *)
(* repository use; MCDefListed has a text key with listed values, as         *)
(* Facility in web/schemas/lite.json.                                        *)
EXTENDS WebForms, TLC

Key(type, optional, multiple, values) ==
    [type |-> type, optional |-> optional, multiple |-> multiple, values |-> values, single |-> None]
Offered == <<Blank, <<"a">>, <<"[b]">>>>

MCDef == [name  |-> Key("string", FALSE, FALSE, None),
          det   |-> Key("list_str", FALSE, TRUE, Offered),
          temp  |-> Key("float64", FALSE, FALSE, None),
          count |-> Key("int64", TRUE, FALSE, None),
          cell  |-> Key("list_float", TRUE, FALSE, None),
          flag  |-> Key("bool", TRUE, FALSE, None)]
MCDefListed == [k \in {"name", "det", "temp"} |-> MCDef[k]]
            @@ [facility |-> Key("string", FALSE, FALSE, <<Blank>>)]

\* 1234567 is the float64 1.234567e+06, 1000000 is 1e+06; 5e-07 is no integer
MCInts == {"0", "1", "1000000", "1234567"}
MCDotted == {"2.5", "1.234567e+06"}
MCFloats == MCInts \cup MCDotted \cup {"1e+06", "5e-07"}
MCSprint == [w \in MCFloats |-> CASE w = "1000000" -> "1e+06" [] w = "1234567" -> "1.234567e+06" [] OTHER -> w]
MCWords == MCFloats \cup {"", ",", "[", "]", "true", "false", "a", "b", "[b]", "x", "z", "n1", "CHESS"}
MCStrip == [w \in MCWords |-> CASE w \in {"[", "]"} -> "" [] w = "[b]" -> "b" [] OTHER -> w]
MCNames == {<<"n1">>}
MCTyped == [name  |-> {<<"n1">>}, det |-> {}, temp |-> {<<"2.5">>, <<"x">>},
            count |-> {<<"1234567">>}, cell |-> {<<"x">>}, flag |-> {}]
MCTypedListed == [k \in {"name", "det", "temp"} |-> MCTyped[k]] @@ [facility |-> {}]

Name == Val("string", <<"n1">>)
Number(w) == Val("float64", w)
List(texts) == Val("[]any", texts)
Base(det, temp) == [name |-> Name, det |-> List(det), temp |-> Number(temp)]
A == <<"a">>   B == <<"[b]">>   Z == <<"z">>

MCJson == {Base(<<A, Z>>, "0") @@ [count |-> Number("2.5")],
           Base(<<B>>, "1e+06") @@ [count |-> Number("5e-07")],
           Base(<<A>>, "2.5") @@ [cell |-> List(<<<<"1">>, <<"2.5">>>>), count |-> Number("1"),
                                  flag |-> Val("bool", "true")]}
MCJsonListed == {Base(<<A>>, "1") @@ [facility |-> Val("string", <<"CHESS">>)]}
============================================================================
