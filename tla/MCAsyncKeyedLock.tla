--------------------------- MODULE MCAsyncKeyedLock ---------------------------
\* One thread's mutation and replacement lock, nested.
EXTENDS AsyncKeyedLock, TLC

CONSTANTS mutation, replacement

MCInnerOf == mutation :> replacement @@ replacement :> NoKey
=============================================================================
