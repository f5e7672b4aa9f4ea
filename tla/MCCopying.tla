----------------------------- MODULE MCCopying ------------------------------
(* Copying with blocks of six bytes: files of every format of up to two       *)
(* records, and files of up to four arbitrary bytes from elsewhere.            *)
EXTENDS Copying

MCFile(format, size, noSpan) == [format |-> format, size |-> size, noSpan |-> noSpan, image |-> <<>>]

MCFormats ==
  {MCFile("fixed", size, noSpan) : size \in {1, 2, 3}, noSpan \in BOOLEAN}
    \union {MCFile("undefined", 3, FALSE)}
    \union {MCFile(format, 0, noSpan) : format \in {"variable", "vfc"}, noSpan \in BOOLEAN}
    \union {MCFile(format, 0, FALSE) : format \in {"streamLF", "streamCR", "stream"}}

\* All of up to two bytes; some of three, one of the longest length, and some
\* with carriage control.
MCRecs ==
  UNION {[1 .. n -> {1, NUL, LF, CR}] : n \in 0 .. 2}
    \union {<<1, 1, 1>>, <<1, CR, LF>>, [i \in 1 .. LongestLength |-> 1]}
    \union {<<c0, c1, 1>> : c0 \in {43, 48, 49}, c1 \in {0, 1, 141, 224}}

MCImages == UNION {[1 .. n -> {1, NUL, LF, VT, CR}] : n \in 0 .. 4}
MCDamaged == UNION {[1 .. n -> {1, NUL, 3}] : n \in 0 .. 5}
MCOthers ==
  {[f EXCEPT !.image = image] :
     f \in {MCFile("stream", 0, FALSE), MCFile("streamLF", 0, FALSE), MCFile("host", 0, FALSE)},
     image \in MCImages}
    \union {[MCFile("variable", 0, FALSE) EXCEPT !.image = image] : image \in MCDamaged}
    \union {[MCFile("fixed", 3, FALSE) EXCEPT !.image = image] : image \in MCDamaged}

=============================================================================
