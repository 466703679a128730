---------------------------- MODULE MCSafeString ----------------------------
(* The byte sequences and options of the run bytes. *)
EXTENDS SafeString

SequencesOf(lengths, alphabet) == UNION {[1..n -> alphabet] : n \in lengths}

\* One byte on each side of each boundary of the table of legal UTF-8.
BoundaryBytes ==
  {0, 9, 10, 13, 65, 127, 128, 143, 144, 159, 160, 187, 191, 192, 193, 194, 223,
   224, 225, 237, 239, 240, 241, 244, 245, 255}

\* Sequences of four bytes, and what is left when one of them is missing or bad.
LongBytes == {65, 128, 144, 191, 237, 240, 243, 244}

BytesSources ==
  SequencesOf(0..3, BoundaryBytes)
    \union SequencesOf({4}, LongBytes)
    \union {[i \in 1..12 |-> 255], [i \in 1..12 |-> IF i = 3 THEN 226 ELSE 144]}

BytesOptions ==
  {[srcConvention |-> "LINECOLUMN", tabWidth |-> 4, encodingMode |-> "NORMAL",
    firstLineBehavior |-> "NOTSCRIPT"],
   [srcConvention |-> "SOURCECHARACTERINDEX", tabWidth |-> 1, encodingMode |-> "BOX",
    firstLineBehavior |-> "NOTSCRIPT"]}

=============================================================================
