----------------------------- MODULE MCChannels -----------------------------
\* Three threads (one waits, one waits behind it, one acts) and channels of
\* every kind: unbounded, bounded with room for one message, refused.
EXTENDS Channels

CONSTANTS main, worker, other

MCThreads == {main, worker, other}
MCCaps == {0, 1, Unbounded}
TwoThreads == {main, worker}
MCBounded == {1}
=============================================================================
