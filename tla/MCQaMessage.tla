---------------------------- MODULE MCQaMessage ----------------------------
(* Small instances of QaMessage.                                           *)
EXTENDS QaMessage

Behind   == {-1, 0}
=============================================================================
