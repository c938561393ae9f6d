---------------------------- MODULE MCTextCodec -----------------------------
(***************************************************************************)
(* TextCodec for TLC.  The bytes are an ASCII character, both ends of each  *)
(* range that the decoder tells apart, and those of the byte order mark.    *)
(***************************************************************************)
EXTENDS TextCodec

MCBytes == {65, 128, 143, 144, 159, 160, 187, 191, 193, 194, 224, 237, 239, 240, 244, 245}

\* All strings of two of these bytes, those of three that begin with a lead byte or a
\* character, and those of four that may be a character of four bytes or follow a byte
\* order mark.  From the third byte on the decoder tells apart less.
MCInputs ==
    {<<>>} \cup [1 .. 2 -> MCBytes]
    \cup {<<a, b, c>> : a \in {65, 194, 224, 237, 239, 240, 244}, b \in MCBytes,
                        c \in {65, 128, 191, 240}}
    \cup {<<a, b, c, d>> : a \in {239, 240, 244}, b \in MCBytes, c \in {65, 128, 191}, d \in {65, 191}}

\* One character of each length, and a surrogate as QuickJS hands it out.
MCChars == {<<65>>, <<195, 169>>, <<226, 130, 172>>, <<240, 159, 152, 128>>, <<237, 160, 128>>}
=============================================================================
