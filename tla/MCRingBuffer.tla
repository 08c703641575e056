----------------------------- MODULE MCRingBuffer -----------------------------
EXTENDS RingBuffer
=============================================================================
