------------------------------ MODULE ShellMC ------------------------------
EXTENDS Shell

MCName == {"f", "g", "m"}
MCInitFiles == [n \in MCName |-> IF n = "f" THEN << <<>>, <<"y">>, <<"echo", "hi", ">", "g">>, <<"n">> >> ELSE Absent]

\* One word that only begins with a sign.
MCFirst(word) == IF word = ">g" THEN ">" ELSE word

MCLines == {
  <<>>,
  <<"cat", "<", "f", "|", "cat", ">", "g">>,
  <<"cat", "|", "head", "|", "cat">>,
  <<"cat", "<", "f", ">", "g", "|", "ls">>,
  <<"echo", "hi", "<", "f", ">", "g">>,
  <<"echo", "-n", "hi", ">g", "m">>,
  <<"record">>,
  <<"ls", "|", "pwd", "<", "<">>,
  <<"pwd", "<", "m">>,
  <<">", "g">>,
  <<"exit">> }
=============================================================================
