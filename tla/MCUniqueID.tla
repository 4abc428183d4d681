----------------------------- MODULE MCUniqueID -----------------------------
EXTENDS UniqueID

\* Two services of two instances each, and an index beyond either end that
\* would alias another node id.
MCProcs == {<<0, 1>>, <<1, 0>>, <<0, 2>>, <<1, -1>>}
\* One clock is set back, the other process restarts.
MCClockBack == {<<0, 1>>}
MCRestarting == {<<1, 0>>}
\* A permutation of the plain ids that puts some of them in the reserved range.
MCEncrypt(x) == (x * 5 + 2) % (TimeCount * NodeCount * StepCount)
=============================================================================
