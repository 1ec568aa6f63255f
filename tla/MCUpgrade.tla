------------------------------ MODULE MCUpgrade ------------------------------
(* The upgrade on small instances: words of two bytes, lines of four, and    *)
(* firmware of eleven or ten bytes, the header included.                     *)
EXTENDS UpgradeFiles, TLC

W(b) == <<b, b>>
Header(entry) == W(Magic) \o W(Zero) \o W(Zero) \o W(<<"entry", entry>>)
Code(v)       == <<"code", v>>
At(i)         == FirmwareStartAddr + i

\* The lines of a linker: S0, data, S7, in lines of other lengths than sreccrc's.
MCOldFile ==
  <<Line(3, At(0), Header(1)), Line(3, At(8), <<Code(1), Code(2), Code(3)>>)>>

\* The new firmware, as one run of lines; and out of order, with three byte
\* addresses, a gap and an overlap.
MCLinkerFiles ==
  { <<Line(0, 0, Name), Line(3, At(0), Header(1) \o <<Code(1)>>),
      Line(3, At(9), <<Code(4), Code(3)>>), Line(7, At(8), <<>>)>>,
    <<Line(2, At(9), <<Code(5)>>), Line(3, At(8), <<Junk>>), Line(3, At(0), Header(2)),
      Line(3, At(10), <<Code(6)>>), Line(3, At(9), <<Code(7)>>), Line(8, 0, <<>>)>>,
    <<Line(2, At(9), <<Code(5)>>), Line(3, At(0), Header(2))>>,
    <<Line(3, At(0), Header(1) \o <<Code(1)>>), Line(1, 0, <<>>)>> }
===============================================================================
