---- MODULE MCSpeakerBook ----
EXTENDS SpeakerBook
MCOrder == <<"b1", "c2">>
MCPresets == [b \in Boxes |-> IF b = "b1" THEN <<"http", "path">> ELSE <<"none", "orion">>]
Kept(numbers) == {[number |-> n, rotates |-> TRUE, url |-> "http"] : n \in numbers}
MCFirstLists == {{}, Kept({<<2>>, <<6>>, <<1, 1>>})}
MCBase == [name \in PreferenceNames |-> IF name = "consoles" THEN <<>> ELSE 10]
ListOf(items) == [name |-> "consoles", text |-> [json |-> "list", items |-> items]]
NumberOf(name, n) == [name |-> name, text |-> [json |-> "number", n |-> n]]
MCFirstRows == {{}, {ListOf(<<[hex |-> "c2", upper |-> TRUE]>>)}}
MCTyped == {ListOf(<<>>), ListOf(<<[hex |-> "c2", upper |-> FALSE]>>), NumberOf("window", 15), NumberOf("window", 4),
            [name |-> "hold", text |-> [json |-> "broken"]], NumberOf("of another version", 1)}
MCMeasured == {[window |-> 15, hold |-> 20], [window |-> 15, hold |-> 0]}
====
