----------------------------- MODULE MCTerminal -----------------------------
EXTENDS Terminal

Word == <<"a", "a", "a", "a", "w", "a">>
Wide == <<"w", "w", "w">>
Mixed == <<"a", "w", "a", "w">>
Start(set, top, bottom, left, right, text) ==
    [modes |-> set \cup {"wraparound"}, text |-> text,
     region |-> [top |-> top, bottom |-> bottom, left |-> left, right |-> right]]

MCRuns == {<<"a">>, <<"w">>, Wide, Mixed, Word}
MCSlowRuns == {<<"w", "w">>}
MCVert == {<<1, 2>>, <<2, 3>>}
MCHoriz == {<<2, 4>>, <<1, 3>>, <<2, 3>>}
MCStarts == {Start({}, 0, 2, 0, 3, <<>>),
             Start({"insert"}, 0, 2, 0, 3, Mixed),
             Start({"margins"}, 0, 2, 1, 3, Wide),
             Start({"margins", "origin"}, 1, 2, 0, 2, Mixed),
             Start({"reverse"}, 0, 1, 0, 3, Word)}
=============================================================================
