------------------------------ MODULE MCSearch ------------------------------
EXTENDS Search

MCLetters == {"a", "b", "n", "x", ":", "/", "global", "bundle", "path"}

Concept(a, p) == [alias |-> a, path |-> p]

\* A concept "n", one under "n/", one under "nb/" and one of another bundle, whose
\* path has a colon.
FourConcepts ==
  { Concept(<<"a">>, <<"n">>), Concept(<<"a">>, <<"n", "/", "x">>),
    Concept(<<"a">>, <<"n", "b", "/", "x">>), Concept(<<"b">>, <<"n", ":", "x">>) }

\* An alias with a colon, which the CLI accepts.
ColonConcepts ==
  { Concept(<<"a">>, <<"n">>), Concept(<<"a", ":", "b">>, <<"n">>) }

Scopes ==
  { <<"global">>, <<"bundle", ":", "a">>, <<"bundle", ":", "b">>,
    <<"path", ":", "a", ":", "n">>, <<"path", ":", "b", ":", "n", ":", "x">>,
    <<"path", ":", "a", ":">>, <<"path", ":", "a">>, <<"bundle", ":">>, <<"a">> }

ColonScopes == { <<"global">>, <<"bundle", ":", "a", ":", "b">> }
=============================================================================
