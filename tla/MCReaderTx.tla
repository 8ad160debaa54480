----------------------------- MODULE MCReaderTx -----------------------------
EXTENDS ReaderTx
=============================================================================
