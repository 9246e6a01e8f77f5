--------------------------- MODULE MCLinkCapture ---------------------------
(* Instances of LinkCapture for TLC.                                       *)
EXTENDS LinkCapture

\* A message of one full packet, and one of six, of which four can be lost
\* between the first and the last.
TwoLengths == <<63, 340>>
OneLength == <<64>>
=============================================================================
