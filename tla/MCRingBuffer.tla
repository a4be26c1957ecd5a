------------------------------ MODULE MCRingBuffer ------------------------------
(* Small instances of RingBufferApi. *)
EXTENDS RingBufferApi

\* The byte values are the numbers the stream gives its bytes.
MCByte == 0 .. Tags - 1

\* Processor on both sides; DMA on both; the rx ring of the port, written by DMA
\* and read by the processor; the reverse.
MCOwners == [align : {"none"}, dmaWrite : {FALSE}, dmaRead : BOOLEAN] \cup
            [align : {"rx"}, dmaWrite : {TRUE}, dmaRead : BOOLEAN]
MCCpuOwners == [align : {"none"}, dmaWrite : {FALSE}, dmaRead : {FALSE}]
=============================================================================
