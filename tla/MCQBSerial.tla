------------------------------ MODULE MCQBSerial ------------------------------
EXTENDS QBSerial

MCMessages == {"rts", "bam", "one"}
MCKind == [rts |-> "RTS", bam |-> "BAM", one |-> "single"]
MCRoute == [rts |-> <<1, 7>>, bam |-> <<2, 255>>, one |-> <<2, 255>>]
MCFrames == [rts |-> 2, bam |-> 2, one |-> 0]
MCWindow == [x \in MCMessages |-> 2]
MCFaults == <<4, 2, 1>>
MCInits == {"init1", "init2"}
===============================================================================
