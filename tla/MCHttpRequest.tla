---------------------------- MODULE MCHttpRequest ----------------------------
EXTENDS HttpRequest

MCBeginnings ==
  {<<>>, <<"a", ":", "/", "/">>, <<"a", ":", "/", "/", "a", "@">>,
   <<"a", ":", "/", "/", "a", ":", "6", "5", "5", "3">>, <<"a", ":", "6", "5", "5", "3">>,
   <<"a", ":", "/", "/", "a", "/", "a">>, <<"a", ":", "/", "/", "[", "a">>}
MCAlphabet == {"a", "z", "5", "6", ":", "/", "?", "#", "@", "]", " ", "."}
MCHosts == {<<"a">>, <<"a", "a">>, <<"z", "a">>, <<"a", ".", "a">>}
MCLetters == Uppers \cup {"-", " "}
==============================================================================
