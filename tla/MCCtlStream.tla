---------------------------- MODULE MCCtlStream ----------------------------
(***************************************************************************)
(* The control stream with texts of every kind, instantiated for TLC.  The *)
(* buffer is smaller than two long lines, so that reads cut lines.         *)
(***************************************************************************)
EXTENDS CtlStream

\* "a", a blank and a percent sign, CR LF, a DEL, and an e acute in a text that
\* has a byte too many for the argument.
AllTexts == {<<97>>, <<32, 37>>, <<13, 10>>, <<127>>, <<233, 97, 32, 97>>}

ShortTexts == {<<97>>, <<98, 98>>}
=============================================================================
