---------------------------- MODULE MCApduReader ----------------------------
(***************************************************************************)
(* ApduReader on small streams: frames whose bodies hold bytes that look    *)
(* like a start byte or a length, and a frame whose length is the start     *)
(* byte (2).                                                                *)
(***************************************************************************)
EXTENDS ApduReader

MCMessages ==
    { << <<1>>, <<2, 1>> >>,
      << <<2, 2>>, <<3>>, <<1, 2, 3>> >>,
      << <<2, 1>>, <<4, 2>> >>,
      << <<3, 2, 2>> >> }
=============================================================================
