--------------------------- MODULE MCSpeechSession ---------------------------
\* SpeechSession on a small instance.
EXTENDS SpeechSession
=============================================================================
