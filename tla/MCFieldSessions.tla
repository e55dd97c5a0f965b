-------------------------- MODULE MCFieldSessions --------------------------
EXTENDS FieldSessions

\* One explorer moves once, another one keeps its view.
MCViews == {<<"a", 0, 1>>, <<"a", 1, 2>>, <<"b", 0, 1>>}
=============================================================================
