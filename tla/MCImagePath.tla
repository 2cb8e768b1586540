----------------------------- MODULE MCImagePath -----------------------------
EXTENDS ImagePath

MCInitialMode == {[ap |-> TRUE, jpg |-> FALSE, depth |-> 1],
                  [ap |-> FALSE, jpg |-> TRUE, depth |-> 1]}
=============================================================================
