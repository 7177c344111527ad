-------------------------- MODULE MCTranslationQueue --------------------------
\* TranslationQueue on a small instance.
EXTENDS TranslationQueue
=============================================================================
