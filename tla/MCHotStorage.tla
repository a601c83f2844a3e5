---------------------------- MODULE MCHotStorage ----------------------------
EXTENDS HotStorage, TLC

\* Keys "a", "ab" and "b": a prefix of another, and one that is not.
MCKeys == {<<1>>, <<1, 2>>, <<2>>}
MCBatches == {<<<<<<1>>, 1>>>>, <<<<<<2>>, 2>>>>, <<<<<<1, 2>>, 2>>, <<<<1>>, 1>>>>}

\* Hash values that collide, and that differ only beyond the filter's bits.
MCHash == <<1>> :> <<3, 17, 8>> @@ <<1, 2>> :> <<13, 4, 28>> @@ <<2>> :> <<23, 35, 19>>
=============================================================================
