------------------------------- MODULE MCFile --------------------------------
EXTENDS File
SmallSizes == 1 .. 8
SmallBuffers == 1 .. 5
=============================================================================
