-------------------------- MODULE MCLockFreeQueue --------------------------
\* Four items: enough for a produce() to trim several nodes while the consumer
\* is in the middle of a consume() of a later one.
EXTENDS LockFreeQueue
=============================================================================
