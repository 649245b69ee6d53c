----------------------------- MODULE MCFraming -----------------------------
(* Framing with bytes of four values: 0 is any letter.  The payloads are    *)
(* empty, short, of two lines, with an end of line of either kind, not      *)
(* text, as long as a frame may be and longer; the user's too long for the  *)
(* prefix as well.                                                          *)
EXTENDS Framing

MCPayloads ==
  {<<>>, <<0>>, <<0, Lf>>, <<Lf, 0>>, <<0, Cr>>, <<Bad>>, <<0, 0, 0>>}

MCComposed == {<<0>>, <<0, Lf>>, [i \in 1 .. Base ^ PrefixSize |-> 0]}
=============================================================================
