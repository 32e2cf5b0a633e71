---------------------------- MODULE MCAudioWindow ----------------------------
EXTENDS AudioWindow
=============================================================================
