----------------------------- MODULE MCLongPoll -----------------------------
EXTENDS LongPoll, TLC
ThreadSymmetry == Permutations(Client) \cup Permutations(Worker)
=============================================================================
