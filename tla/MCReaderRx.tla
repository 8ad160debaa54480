----------------------------- MODULE MCReaderRx -----------------------------
EXTENDS ReaderRx
=============================================================================
