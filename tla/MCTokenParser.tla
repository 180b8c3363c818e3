--------------------------- MODULE MCTokenParser ---------------------------
(* Texts put together from fragments that begin, end and interrupt each kind
   of token. *)
EXTENDS TokenParser

Strings  == {<<"f", "\"">>, <<"\"">>, <<"$", "{">>, <<"}">>, <<"a">>, <<"\n">>, <<EOF>>}
Comments == {<<"/", "*">>, <<"*", "/">>, <<"/", "/">>, <<"\n">>, <<"a">>}
Runes    == {<<"'">>, <<"\\", "x", "8">>, <<"\\", "1">>, <<"lead", "cont">>, <<"\\", "u", "0">>,
             <<"0", "0", "e", "9">>, <<"\"">>}
Numbers  == {<<"8", "8", "8">>, <<"8">>, <<" ">>, <<"1", "e">>, <<".">>, <<"0">>, <<"x">>,
             <<"b", "1">>}
Others   == {<<"8", "8", "8", "8">>, <<"-", ">">>, <<">", ">", "=">>, <<"i", "f">>, <<"cont">>,
             <<"#">>, <<"0", "x", "1", "p">>, <<"\\", "U">>, <<"\\", "?">>, <<"\\", "g">>}

Every == Strings \cup Comments \cup Runes \cup Numbers \cup Others

MCTexts ==
  {f \o g : f, g \in Every} \cup {f \o g \o h : f, g, h \in Runes \cup Numbers}
  \cup {f \o g \o h : f, g, h \in Strings} \cup {e \o f \o g \o h : e, f, g, h \in Comments}
  \cup {e \o f \o g \o h : e, f, g, h \in Strings \ {<<EOF>>}}

MCKeywords == {<<"i", "f">>}
=============================================================================
