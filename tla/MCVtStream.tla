----------------------------- MODULE MCVtStream -----------------------------
EXTENDS VtStream

\* One byte of every kind the table, the decoder and the handlers tell apart.
MCBytes ==
    {ESC, CAN, 7, 10, 16, 32, 36, 49, Colon, Semicolon, 63, 65, 80, 91, 92, 93, 95, 99,
     109, 112, 113, 127, 130, 155, 169, 195, 224, 226, 237, 240, 244, 255}

\* Single bytes, pairs, and sequences that run from one path of feed into another.
MCChunks ==
    {<<b>> : b \in MCBytes \ {99, 127}}
    \union {<<a, b>> : a \in {10, Semicolon, 65, 226}, b \in {ESC, 49, 65, 130, 169, 255}}
    \union {<<ESC, 91>>, <<49, Semicolon, 49>>, <<49, Colon, 65>>, <<Colon, 65, 169>>,
            <<Semicolon, 65, 226>>, <<226, 130, 169>>, <<226, 130, 65>>, <<226, ESC, 91, 65>>,
            <<240, 155, 169, 169>>, <<240, 130, 169>>, <<224, 130, 169>>, <<237, 169, 130>>,
            <<244, 155, 130, 130>>, <<195, 195, 169>>, <<10, 226, 10, 16>>,
            <<ESC, 91, 63, 49, 65, 195>>, <<ESC, 95, 10, 169, 65, ESC>>, <<65, 169, ESC>>,
            <<49, 10, 49, 109>>, <<49, 127, 32, 65, 255>>,
            <<49, 49, 49, 49, 49>>, <<Semicolon, 49, 49, 49, 49, 49, 65>>}
=============================================================================
