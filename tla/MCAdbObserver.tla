--------------------------- MODULE MCAdbObserver ---------------------------
EXTENDS AdbObserver
NoDevice == {}
OneDevice == {1}
=============================================================================
