--------------------------- MODULE MCSmallPrograms ---------------------------
(* Small instances of SmallPrograms.                                        *)
EXTENDS SmallPrograms

MCContents == {<< >>, <<"a">>, <<"b", "c">>}
=============================================================================
