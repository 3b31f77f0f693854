----------------------------- MODULE MCKprintf -----------------------------
(***************************************************************************)
(* A buffer of six characters; seven-bit words, whose largest and smallest *)
(* number need three characters each, as many as num_buf of length four    *)
(* holds (64-bit numbers need 20 of 21); ints of four bits; a FIFO of two. *)
(* A format is up to two of the pieces below.                              *)
(***************************************************************************)
EXTENDS Kprintf

Pieces ==
  {<<"a">>, <<"LF">>, <<"%", "c">>, <<"%", "s">>, <<"%", "d">>,
   <<"%", "l", "i">>, <<"%", "u">>, <<"%", "z", "u">>,
   <<"%", "-", "9", "l", "l", "d">>, <<"%", "0", "2", "l", "l", "x">>,
   <<"%", "l", "X">>, <<"%", "p">>, <<"%", "%">>, <<"%", "q">>, <<"%">>}

MCFormats == {<<>>} \cup Pieces \cup {a \o b : a \in Pieces, b \in Pieces}

MCChars == {"a", "NUL", "LF"}
MCStrings == {<<"NULL">>, <<>>, <<"a", "LF", "a">>, <<"a", "a", "a", "a">>}
MCValues == {0, 7, 8, 10, 63, 64, 126, 127}
MCEarlierOutput == {<<>>, <<"b", "b">>}
=============================================================================
