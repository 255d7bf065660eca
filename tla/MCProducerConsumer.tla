------------------------- MODULE MCProducerConsumer -------------------------
\* ProducerConsumer for TLC.
EXTENDS ProducerConsumer

=============================================================================
