---------------------------- MODULE MCSortition -----------------------------
EXTENDS Sortition

MCCoinHash(v, i) == (v * 5 + i * 11 + 3) % 16
=============================================================================
