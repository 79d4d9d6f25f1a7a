--------------------------- MODULE MCScreenStream ---------------------------
EXTENDS ScreenStream
Minicap == {FALSE}
Scrcpy == {TRUE}
=============================================================================
