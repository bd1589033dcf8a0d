---------------------------- MODULE MCCloseWindow ----------------------------
\* Two documents in a window, and a third that the user or the program may open.
EXTENDS CloseWindow

CONSTANTS d1, d2, d3

MCOpened == <<d1, d2>>
MCKinds == {<<"loading", "edited">>, <<"edited", "draft">>, <<"failed", "clean">>, <<"edited", "untitled">>,
            <<"foreign", "readonly">>}
=============================================================================
