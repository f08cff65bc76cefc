---------------------------- MODULE MCRingBuffer ----------------------------
EXTENDS RingBuffer
CONSTANTS x, y
=============================================================================
