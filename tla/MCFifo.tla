-------------------------------- MODULE MCFifo --------------------------------
EXTENDS Fifo
===============================================================================
